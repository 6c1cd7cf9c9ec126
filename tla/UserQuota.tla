----------------------------- MODULE UserQuota ------------------------------
(***************************************************************************)
(* user_check of pcs_worker's backend, which handle_register runs before    *)
(* anything else: a list of openids under one key of Workers KV admits at   *)
(* most USER_COUNT of them, then a webhook may still refuse.  The list is   *)
(* read, extended and written back without a lock; a read may return any    *)
(* value the key ever had, as Workers KV answers from caches that lag.      *)
(* What follows an admitted check is one action that gives the openid an    *)
(* account.  Deleting the account leaves the list alone.                    *)
(***************************************************************************)
EXTENDS Naturals, Sequences, FiniteSets

CONSTANTS
  None,      \* no check in this slot
  OpenIds,
  Requests,  \* checks that may be in flight at once
  Limit      \* user_count_limit; 0 turns the list off and is not modelled

ASSUME UserQuotaAssumption == Limit \in Nat \ {0} /\ None \notin OpenIds

VARIABLES
  openids,   \* the list under "user_count:openids", None read as empty
  written,   \* the values it has had
  accounts,  \* openids that registered
  pc, openid, read,   \* where a check is, whom it is for, the list it read
  raced      \* a check wrote a list that was not the current one extended

vars == <<openids, written, accounts, pc, openid, read, raced>>

Elements(s) == {s[i] : i \in DOMAIN s}

Init ==
  /\ openids = <<>>
  /\ written = {<<>>}
  /\ accounts = {}
  /\ pc = [r \in Requests |-> "idle"]
  /\ openid = [r \in Requests |-> None]
  /\ read = [r \in Requests |-> <<>>]
  /\ raced = FALSE

(* The list and the checks have their types.                                *)
TypeOK ==
  /\ openids \in Seq(OpenIds)
  /\ written \subseteq Seq(OpenIds)
  /\ accounts \subseteq OpenIds
  /\ pc \in [Requests -> {"idle", "put", "webhook"}]
  /\ openid \in [Requests -> OpenIds \cup {None}]
  /\ read \in [Requests -> Seq(OpenIds)]
  /\ raced \in BOOLEAN

Goto(r, label) == pc' = [pc EXCEPT ![r] = label]

Finish(r) ==
  /\ Goto(r, "idle")
  /\ openid' = [openid EXCEPT ![r] = None]
  /\ read' = [read EXCEPT ![r] = <<>>]

(* WorkerKVStorage::get: what the key holds or held.                        *)
CachedLists == written

(* WorkerKVStorage::put.                                                    *)
StoreList(list) ==
  /\ openids' = list
  /\ written' = written \cup {list}

(* Mutant: one openid too many.                                             *)
FullBeyond(list) == Len(list) > Limit

Full(list) == Len(list) >= Limit

(* A listed openid goes straight to the webhook, an unlisted one is refused *)
(* when the list is full; a refusal leaves no trace.                        *)
CheckRead(r, o) ==
  /\ pc[r] = "idle"
  /\ \E list \in CachedLists :
       \/ /\ o \in Elements(list)
          /\ Goto(r, "webhook")
          /\ UNCHANGED read
       \/ /\ o \notin Elements(list)
          /\ ~Full(list)
          /\ read' = [read EXCEPT ![r] = list]
          /\ Goto(r, "put")
  /\ openid' = [openid EXCEPT ![r] = o]
  /\ UNCHANGED <<openids, written, accounts, raced>>

(* Mutant: the openid replaces the list.                                    *)
CheckPutAlone(r) ==
  /\ pc[r] = "put"
  /\ StoreList(<<openid[r]>>)
  /\ raced' = (raced \/ read[r] # openids)
  /\ Goto(r, "webhook")
  /\ UNCHANGED <<accounts, openid, read>>

(* The slot is taken before the webhook is asked.                           *)
CheckPut(r) ==
  /\ pc[r] = "put"
  /\ StoreList(Append(read[r], openid[r]))
  /\ raced' = (raced \/ read[r] # openids)
  /\ Goto(r, "webhook")
  /\ UNCHANGED <<accounts, openid, read>>

(* The webhook lets the openid in (or none is configured) and it registers, *)
(* or the check fails.                                                      *)
CheckWebhook(r) ==
  /\ pc[r] = "webhook"
  /\ accounts' \in {accounts, accounts \cup {openid[r]}}
  /\ Finish(r)
  /\ UNCHANGED <<openids, written, raced>>

Abort(r) ==
  /\ pc[r] # "idle"
  /\ Finish(r)
  /\ UNCHANGED <<openids, written, accounts, raced>>

DeleteAccount(o) ==
  /\ o \in accounts
  /\ accounts' = accounts \ {o}
  /\ UNCHANGED <<openids, written, pc, openid, read, raced>>

Next ==
  \/ \E r \in Requests :
       \/ \E o \in OpenIds : CheckRead(r, o)
       \/ CheckPut(r) \/ CheckWebhook(r) \/ Abort(r)
  \/ \E o \in OpenIds : DeleteAccount(o)

Spec == Init /\ [][Next]_vars

-----------------------------------------------------------------------------
(* However checks race and however stale their reads, the list never grows  *)
(* past the limit and never names an openid twice: each check extends a     *)
(* list that was short enough and did not name its openid.                  *)
ListWithinLimit ==
  /\ Len(openids) <= Limit
  /\ \A i, j \in DOMAIN openids : openids[i] = openids[j] => i = j

(* As long as every check extended the list as it then was, each account is *)
(* on the list: there are at most Limit of them, and none is ever refused   *)
(* for want of a slot, whatever the webhook refused, whoever gave up        *)
(* half-way and whoever deleted the account and came back.                  *)
QuotaHolds == ~raced => accounts \subseteq Elements(openids)
=============================================================================
