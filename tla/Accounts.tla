------------------------------ MODULE Accounts ------------------------------
(***************************************************************************)
(* What the user API of pcs_core promises a client that makes one call at a *)
(* time: an account that register, rename, refresh and delete change        *)
(* atomically, with ids nobody has had before, and answers that tell what   *)
(* the account is.  AccountClients implements it.                           *)
(***************************************************************************)
CONSTANTS None, Careful, ObjectIds, Tokens, Nicknames

VARIABLES
  account,        \* each client's account, None without one
  cred,           \* what the last answer told the client
  used_tokens,    \* every token ever handed out, to anyone
  used_objects    \* every object id ever handed out, to anyone

vars == <<account, cred, used_tokens, used_objects>>

Init ==
  /\ account = [o \in Careful |-> None]
  /\ cred = [o \in Careful |-> None]
  /\ used_tokens = {}
  /\ used_objects = {}

(* An unknown openid gets an account under new ids.                         *)
Register(o) ==
  /\ account[o] = None
  /\ \E t \in Tokens \ used_tokens, x \in ObjectIds \ used_objects, n \in Nicknames :
       /\ account' = [account EXCEPT ![o] =
            [object_id |-> x, nickname |-> n, session_token |-> t]]
       /\ used_tokens' = used_tokens \cup {t}
       /\ used_objects' = used_objects \cup {x}
  /\ UNCHANGED cred

Rename(o) ==
  /\ account[o] # None
  /\ \E n \in Nicknames : account' = [account EXCEPT ![o].nickname = n]
  /\ UNCHANGED <<cred, used_tokens, used_objects>>

(* A new token replaces the old one; the rest of the account stays.         *)
Refresh(o) ==
  /\ account[o] # None
  /\ \E t \in Tokens \ used_tokens :
       /\ account' = [account EXCEPT ![o].session_token = t]
       /\ used_tokens' = used_tokens \cup {t}
  /\ UNCHANGED <<cred, used_objects>>

Close(o) ==
  /\ account[o] # None
  /\ account' = [account EXCEPT ![o] = None]
  /\ UNCHANGED <<cred, used_tokens, used_objects>>

(* Any answer, a login's included, tells the client what its account is.    *)
Answer(o) ==
  /\ cred' = [cred EXCEPT ![o] =
       IF account[o] = None THEN None
       ELSE [object_id |-> account[o].object_id, session_token |-> account[o].session_token]]
  /\ UNCHANGED <<account, used_tokens, used_objects>>

(* Everybody else can only use up ids.                                      *)
Others ==
  /\ \E t \in Tokens \ used_tokens : used_tokens' = used_tokens \cup {t}
  /\ \/ UNCHANGED used_objects
     \/ \E x \in ObjectIds \ used_objects : used_objects' = used_objects \cup {x}
  /\ UNCHANGED <<account, cred>>

Next ==
  \/ \E o \in Careful : Register(o) \/ Rename(o) \/ Refresh(o) \/ Close(o) \/ Answer(o)
  \/ Others

Spec == Init /\ [][Next]_vars
=============================================================================
