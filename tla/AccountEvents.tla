---------------------------- MODULE AccountEvents ----------------------------
(***************************************************************************)
(* AccountClients with the webhook that is told of every finished call      *)
(* (types/event.rs, emit_event of the backends).  An event carries the      *)
(* openid, token and nickname of the session the handler ends with.  The    *)
(* webhook keeps the latest of each careful client's openid, and forgets it *)
(* on user.delete.                                                          *)
(*                                                                          *)
(* emit_event is awaited before the answer goes out and its outcome is      *)
(* ignored.  The webhook is taken to be up: an event that is not delivered  *)
(* is not sent again, so nothing holds of a mirror that missed one.         *)
(***************************************************************************)
EXTENDS AccountClients

VARIABLE mirror   \* what the webhook knows of each careful client's account

evars == <<cvars, mirror>>

EInit == CInit /\ mirror = [o \in Careful |-> None]

(* What user.login, user.create, user.update (new) and                      *)
(* user.refresh_session_token (new) tell, and what user.delete leaves.      *)
EventUser(s) == [session_token |-> s.session_token, nickname |-> s.nickname]

(* Mutant: user.delete tells of the user it deletes like any other event.   *)
NotifiedAsUpdate(r) ==
  IF pc[r] \in {"reply", "del_reply"} /\ session[r].openid \in Careful
  THEN [mirror EXCEPT ![session[r].openid] = EventUser(session[r])] ELSE mirror

(* The mirror once the event of r is in, if r is at its event.              *)
Notified(r) ==
  IF pc[r] \in {"reply", "del_reply"} /\ session[r].openid \in Careful
  THEN [mirror EXCEPT ![session[r].openid] =
         IF pc[r] = "reply" THEN EventUser(session[r]) ELSE None]
  ELSE mirror

(* A call that is abandoned at its event may have sent it or not.           *)
ENext ==
  \E r \in Requests :
    /\ CRequest(r)
    /\ mirror' = Notified(r) \/ (Caller(r) \notin Careful /\ mirror' = mirror)

ESpec == EInit /\ [][ENext]_evars

-----------------------------------------------------------------------------
(* Between the calls of a careful client the webhook knows its account as   *)
(* the tables have it: every handler tells of the row it left, after it     *)
(* left it, and no event of anybody else's call, however late, speaks for   *)
(* that openid.  (EventUser::from(&session) in the five handlers.)          *)
MirrorFollows ==
  \A o \in Careful : ~Busy(o) =>
    mirror[o] = IF Account(o) = None THEN None ELSE EventUser(Account(o))
=============================================================================
