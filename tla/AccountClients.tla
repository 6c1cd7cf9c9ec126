--------------------------- MODULE AccountClients ---------------------------
(***************************************************************************)
(* UserSessions with the clients that use it.  A careful client (one openid *)
(* of Careful) makes one call at a time, with the credentials its last call *)
(* returned, and none of its calls is cut off.  Everybody else races,       *)
(* repeats and abandons requests with any credentials that are not a        *)
(* careful client's.  A careful client sees the atomic account of           *)
(* module Accounts.                                                         *)
(***************************************************************************)
EXTENDS UserSessions

CONSTANT Careful

Credential == [object_id: ObjectIds, session_token: Tokens]

AccountRow == [object_id: ObjectIds, nickname: Nicknames, session_token: Tokens]

ASSUME CarefulAssumption ==
  /\ Careful \subseteq OpenIds
  /\ None \notin Credential
  /\ None \notin AccountRow

VARIABLE cred   \* what a careful client remembers of its last SessionResponse

cvars == <<vars, cred>>

CredOf(s) == [object_id |-> s.object_id, session_token |-> s.session_token]

(* The openid a request in flight works for.                                *)
Caller(r) ==
  IF session[r] # None THEN session[r].openid
  ELSE IF held[r] # None THEN minted[held[r]].openid
  ELSE None

Busy(o) == \E r \in Requests : Caller(r) = o

OwnedByCareful(x) ==
  \E t \in Tokens :
    /\ minted[t] # None
    /\ minted[t].openid \in Careful
    /\ minted[t].object_id = x

-----------------------------------------------------------------------------
(* The account a careful client has: while a registration or a refresh is   *)
(* writing its row and indexes, what it writes; else what the index leads   *)
(* to.                                                                      *)
Writing ==
  {"reg_session", "reg_openid", "reg_objid", "ref_session", "ref_objid", "ref_openid"}

AccountOf(s) ==
  [object_id |-> s.object_id, nickname |-> s.nickname, session_token |-> s.session_token]

Stored(o) ==
  IF Has(sessions_by_openid, o) THEN Get(sessions, Get(sessions_by_openid, o)) ELSE None

Account(o) ==
  LET writers == {r \in Requests : pc[r] \in Writing /\ session[r].openid = o}
      row == IF writers # {} THEN session[CHOOSE r \in writers : TRUE] ELSE Stored(o)
  IN IF row = None THEN None ELSE AccountOf(row)

-----------------------------------------------------------------------------
CInit == Init /\ cred = [o \in Careful |-> None]

CarefulStart(r, o) ==
  /\ ~Busy(o)
  /\ \/ RegisterKnown(r, o)
     \/ \E n \in Nicknames : RegisterNew(r, o, n)
     \/ /\ cred[o] # None
        /\ \/ UpdateLookup(r, cred[o].object_id)
           \/ RefreshLookup(r, cred[o].session_token, cred[o].object_id)
           \/ DeleteLookup(r, cred[o].session_token, cred[o].object_id)
  /\ UNCHANGED cred

(* A SessionResponse carries the token and the object id; after a delete    *)
(* there is nothing to remember.                                            *)
CarefulStep(r, o) ==
  /\ Caller(r) = o
  /\ Step(r)
  /\ cred' = CASE pc[r] = "reply"     -> [cred EXCEPT ![o] = CredOf(session[r])]
               [] pc[r] = "del_reply" -> [cred EXCEPT ![o] = None]
               [] OTHER               -> cred

(* Ids are random: nobody else comes by a careful client's object id, or by *)
(* its token before the token is revoked.                                   *)
OtherStart(r) ==
  /\ \/ \E o \in OpenIds \ Careful :
          RegisterKnown(r, o) \/ \E n \in Nicknames : RegisterNew(r, o, n)
     \/ \E x \in ObjectIds : ~OwnedByCareful(x) /\ UpdateLookup(r, x)
     \/ \E t \in Tokens, x \in ObjectIds :
          /\ \A o \in Careful : Account(o) # None => Account(o).session_token # t
          /\ RefreshLookup(r, t, x) \/ DeleteLookup(r, t, x)
  /\ UNCHANGED cred

OtherStep(r) ==
  /\ Caller(r) \notin Careful
  /\ Step(r) \/ Abort(r)
  /\ UNCHANGED cred

CRequest(r) ==
  \/ \E o \in Careful : CarefulStart(r, o) \/ CarefulStep(r, o)
  \/ OtherStart(r)
  \/ OtherStep(r)

CNext == \E r \in Requests : CRequest(r)

CSpec == CInit /\ [][CNext]_cvars

(* The runtime keeps polling the task of a request whose connection is      *)
(* open, and the store answers.  Nothing obliges anyone to start a request. *)
CFairSpec == CSpec /\ \A r \in Requests, o \in Careful : WF_cvars(CarefulStep(r, o))

-----------------------------------------------------------------------------
DrawnTokens == {t \in Tokens : minted[t] # None}
DrawnObjectIds == {minted[t].object_id : t \in DrawnTokens}

Atomic == INSTANCE Accounts WITH
  account <- [o \in Careful |-> Account(o)],
  used_tokens <- DrawnTokens,
  used_objects <- DrawnObjectIds

(* To a careful client every call of the user API takes effect at one       *)
(* instant, on an account nobody else touches, and answers with what the    *)
(* account then is, though each handler is a chain of separate store calls  *)
(* and the tables are shared with clients that race and abandon theirs.     *)
ImplementsAccounts == Atomic!Spec

(* Between its calls a careful client's token is good for every operation:  *)
(* it leads to its row, and both indexes lead to it.                        *)
CredentialsWork ==
  \A o \in Careful : (~Busy(o) /\ cred[o] # None) =>
    LET c == cred[o] IN
      /\ Authorised(Get(sessions, c.session_token), c.object_id)
      /\ Get(sessions_by_openid, o) = c.session_token
      /\ Get(sessions_by_objid, c.object_id) = c.session_token

(* A careful client's login or rename never meets db_not_found: the index   *)
(* entry it read is still good at the next call of the store.               *)
CarefulNeverRefused ==
  [][\A r \in Requests :
       (pc[r] \in {"login", "upd_session"} /\ Caller(r) \in Careful) => pc'[r] # "idle"]_cvars

(* Every call of a careful client is answered, and leaves the client with   *)
(* the credentials of the account it then has.                              *)
CallsAnswered ==
  \A o \in Careful :
    Busy(o) ~> (~Busy(o) /\ cred[o] = IF Stored(o) = None THEN None ELSE CredOf(Stored(o)))
=============================================================================
