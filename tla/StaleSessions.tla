---------------------------- MODULE StaleSessions ----------------------------
(***************************************************************************)
(* UserSessions over the store of pcs_worker (kv.rs).  Workers KV answers   *)
(* a get from caches that lag behind puts and deletes, by no bound the code *)
(* can rely on and not in the same order for two keys, so a read returns    *)
(* any row the key ever had, or none.  Writes and everything else are those *)
(* of UserSessions: the handlers are the same code.                         *)
(*                                                                          *)
(* The identity invariants of UserSessions hold here as well.  Its action   *)
(* properties do not: a revoked token still opens the session a cache has,  *)
(* and the rename of such a session stores it again.                        *)
(***************************************************************************)
EXTENDS UserSessions

VARIABLES
  seen_sessions,   \* every row each session token ever had
  seen_by_openid,  \* every token each openid ever led to
  seen_by_objid    \* every token each object id ever led to

seen == <<seen_sessions, seen_by_openid, seen_by_objid>>

StaleInit ==
  /\ Init
  /\ seen_sessions = [t \in Tokens |-> {}]
  /\ seen_by_openid = [o \in OpenIds |-> {}]
  /\ seen_by_objid = [x \in ObjectIds |-> {}]

(* What WorkerKVStorage::get may return.                                    *)
Reads(table_seen, key) == {None} \cup table_seen[key]

(* A table after a step, added to what its keys had before.                 *)
Remember(table_seen, table) ==
  [k \in DOMAIN table_seen |-> table_seen[k] \cup ({Get(table, k)} \ {None})]

StaleStart(r) ==
  \/ \E o \in OpenIds : \E token \in Reads(seen_by_openid, o) :
       \/ RegisterKnownReading(r, token)
       \/ \E n \in Nicknames : RegisterNewReading(r, o, n, token)
  \/ \E x \in ObjectIds : \E token \in Reads(seen_by_objid, x) : UpdateLookupReading(r, token)
  \/ \E t \in Tokens, x \in ObjectIds : \E row \in Reads(seen_sessions, t) :
       RefreshLookupReading(r, x, row) \/ DeleteLookupReading(r, x, row)

(* The reads of a handler that has begun.                                   *)
StaleRead(r) ==
  /\ pc[r] \in {"login", "upd_session"}
  /\ \E row \in Reads(seen_sessions, held[r]) :
       LoginReading(r, row) \/ UpdateReadSessionReading(r, row)

StaleStep(r) ==
  \/ StaleRead(r)
  \/ RegisterPutSession(r) \/ RegisterPutOpenId(r) \/ RegisterPutObjId(r)
  \/ UpdateSave(r)
  \/ RefreshDelete(r) \/ RefreshPutSession(r) \/ RefreshPutObjId(r) \/ RefreshPutOpenId(r)
  \/ DeleteSaves(r) \/ DeleteSession(r) \/ DeleteOpenId(r) \/ DeleteObjId(r)
  \/ Respond(r)

StaleNext ==
  /\ \E r \in Requests : StaleStart(r) \/ StaleStep(r) \/ Abort(r)
  /\ seen_sessions' = Remember(seen_sessions, sessions')
  /\ seen_by_openid' = Remember(seen_by_openid, sessions_by_openid')
  /\ seen_by_objid' = Remember(seen_by_objid, sessions_by_objid')

StaleSpec == StaleInit /\ [][StaleNext]_<<vars, seen>>

-----------------------------------------------------------------------------
(* What is left of RevokedForGood: a cache may still open the session of a  *)
(* revoked token, but only a rename of it stores it again.  A login, and a  *)
(* refresh or delete of the stale row, bring no token back.  (Of the rows   *)
(* that handlers put, only handle_update's keeps the token it was read      *)
(* with.)                                                                   *)
RevivedByRenamesOnly ==
  [][\A t \in Tokens : Revoked(t) =>
       \/ Revoked(t)'
       \/ \E r \in Requests : pc'[r] = "upd_save" /\ session'[r].session_token = t]_<<vars, seen>>
=============================================================================
