-------------------------- MODULE UserQuotaProofs ---------------------------
(***************************************************************************)
(* Proofs about UserQuota, for any number of openids, checks and slots.     *)
(* ListInv says of every list the key ever held what ListWithinLimit says   *)
(* of the last one, and of a list about to be extended that it has room for *)
(* an openid it does not name: that is what a stale read needs.  SlotInv    *)
(* says that, while no check has raced, older lists are part of the current *)
(* one, so that an openid found on any of them is still listed.             *)
(***************************************************************************)
EXTENDS UserQuota, TLAPS

Short(list) ==
  /\ Len(list) <= Limit
  /\ \A i, j \in DOMAIN list : list[i] = list[j] => i = j

Extends(list, o) ==
  /\ Short(list)
  /\ Len(list) < Limit
  /\ o \in OpenIds \ Elements(list)

ListInv ==
  /\ TypeOK
  /\ openids \in written
  /\ \A list \in written : Short(list)
  /\ \A r \in Requests : pc[r] = "put" => Extends(read[r], openid[r])
  /\ \A r \in Requests : pc[r] = "webhook" => openid[r] \in OpenIds

SlotInv ==
  ~raced =>
    /\ accounts \subseteq Elements(openids)
    /\ \A list \in written : Elements(list) \subseteq Elements(openids)
    /\ \A r \in Requests : pc[r] = "webhook" => openid[r] \in Elements(openids)

(* Extending a list that has room by an openid it does not name keeps it    *)
(* short, keeps its elements and adds the openid.                           *)
LEMMA AppendShort ==
  ASSUME NEW list \in Seq(OpenIds), NEW o, Extends(list, o)
  PROVE  /\ Append(list, o) \in Seq(OpenIds)
         /\ Short(Append(list, o))
         /\ Elements(Append(list, o)) = Elements(list) \cup {o}
<1> DEFINE new == Append(list, o)
<1>1. /\ new \in Seq(OpenIds)
      /\ Len(new) = Len(list) + 1
      /\ DOMAIN new = 1 .. Len(list) + 1
      /\ DOMAIN list = 1 .. Len(list)
      /\ Len(list) \in Nat
      /\ \A i \in 1 .. Len(list) : new[i] = list[i]
      /\ new[Len(list) + 1] = o
  BY DEF Extends
<1>2. \A i \in 1 .. Len(list) : list[i] # o
  BY <1>1 DEF Extends, Elements
<1> HIDE DEF new
<1>3. Short(new)
  BY <1>1, <1>2, UserQuotaAssumption DEF Extends, Short
<1>4. Elements(new) = Elements(list) \cup {o}
  BY <1>1 DEF Elements
<1> QED
  BY <1>1, <1>3, <1>4 DEF new

LEMMA ListInit == Init => ListInv
<1>1. Short(<<>>) /\ <<>> \in Seq(OpenIds)
  BY UserQuotaAssumption DEF Short
<1>2. Init => TypeOK
  BY <1>1 DEF Init, TypeOK
<1> QED
  BY <1>1, <1>2 DEF Init, ListInv

LEMMA ListStep == ListInv /\ [Next]_vars => ListInv'
<1> SUFFICES ASSUME ListInv, [Next]_vars PROVE ListInv'
  OBVIOUS
<1> USE UserQuotaAssumption
<1>1. ASSUME NEW r \in Requests, NEW o \in OpenIds, CheckRead(r, o) PROVE ListInv'
  <2>1. PICK list \in written :
           \/ Goto(r, "webhook") /\ UNCHANGED read
           \/ /\ o \notin Elements(list)
              /\ ~Full(list)
              /\ read' = [read EXCEPT ![r] = list]
              /\ Goto(r, "put")
    BY <1>1 DEF CheckRead, CachedLists
  <2>2. /\ openid' = [openid EXCEPT ![r] = o]
        /\ UNCHANGED <<openids, written, accounts, raced>>
    BY <1>1 DEF CheckRead, CachedLists
  <2>3. list \in Seq(OpenIds) /\ Short(list)
    BY DEF ListInv, TypeOK
  <2>4. ~Full(list) => Len(list) < Limit
    BY <2>3 DEF Full
  <2>5. TypeOK'
    BY <2>1, <2>2, <2>3 DEF ListInv, TypeOK, Goto
  <2> QED
    BY <2>1, <2>2, <2>3, <2>4, <2>5 DEF ListInv, TypeOK, Goto, Extends
<1>2. ASSUME NEW r \in Requests, CheckPut(r) PROVE ListInv'
  <2>1. /\ openids' \in Seq(OpenIds)
        /\ Short(openids')
    BY <1>2, AppendShort DEF CheckPut, StoreList, ListInv, TypeOK
  <2>2. TypeOK'
    BY <1>2, <2>1 DEF CheckPut, StoreList, ListInv, TypeOK, Goto
  <2>3. /\ written' = written \cup {openids'}
        /\ UNCHANGED <<openid, read>>
        /\ pc' = [pc EXCEPT ![r] = "webhook"]
        /\ openid[r] \in OpenIds
    BY <1>2 DEF CheckPut, StoreList, Goto, ListInv, Extends
  <2> QED
    BY <2>1, <2>2, <2>3 DEF ListInv, TypeOK
<1>3. ASSUME NEW r \in Requests, CheckWebhook(r) PROVE ListInv'
  BY <1>3 DEF ListInv, TypeOK, CheckWebhook, Finish, Goto
<1>4. ASSUME NEW r \in Requests, Abort(r) PROVE ListInv'
  BY <1>4 DEF ListInv, TypeOK, Abort, Finish, Goto
<1>5. ASSUME NEW o \in OpenIds, DeleteAccount(o) PROVE ListInv'
  BY <1>5 DEF ListInv, TypeOK, DeleteAccount
<1>6. CASE UNCHANGED vars
  BY <1>6 DEF ListInv, TypeOK, vars
<1> QED
  BY <1>1, <1>2, <1>3, <1>4, <1>5, <1>6 DEF Next

LEMMA SlotInit == Init => SlotInv
BY DEF Init, SlotInv, Elements

LEMMA SlotStep == ListInv /\ SlotInv /\ [Next]_vars => SlotInv'
<1> SUFFICES ASSUME ListInv, SlotInv, [Next]_vars PROVE SlotInv'
  OBVIOUS
<1>1. ASSUME NEW r \in Requests, NEW o \in OpenIds, CheckRead(r, o) PROVE SlotInv'
  <2>1. PICK list \in written :
           \/ o \in Elements(list) /\ Goto(r, "webhook")
           \/ Goto(r, "put")
    BY <1>1 DEF CheckRead, CachedLists
  <2>2. /\ openid' = [openid EXCEPT ![r] = o]
        /\ UNCHANGED <<openids, written, accounts, raced>>
    BY <1>1 DEF CheckRead, CachedLists
  <2> QED
    BY <2>1, <2>2 DEF SlotInv, ListInv, TypeOK, Goto
<1>2. ASSUME NEW r \in Requests, CheckPut(r) PROVE SlotInv'
  <2>1. /\ openids' = Append(read[r], openid[r])
        /\ written' = written \cup {openids'}
        /\ raced' = (raced \/ read[r] # openids)
        /\ pc' = [pc EXCEPT ![r] = "webhook"]
        /\ UNCHANGED <<accounts, openid>>
    BY <1>2 DEF CheckPut, StoreList, Goto
  <2>2. Elements(openids') = Elements(read[r]) \cup {openid[r]}
    BY <1>2, <2>1, AppendShort DEF CheckPut, StoreList, ListInv, TypeOK
  <2> QED
    BY <2>1, <2>2 DEF SlotInv, ListInv, TypeOK
<1>3. ASSUME NEW r \in Requests, CheckWebhook(r) PROVE SlotInv'
  BY <1>3 DEF SlotInv, ListInv, TypeOK, CheckWebhook, Finish, Goto
<1>4. ASSUME NEW r \in Requests, Abort(r) PROVE SlotInv'
  BY <1>4 DEF SlotInv, ListInv, TypeOK, Abort, Finish, Goto
<1>5. ASSUME NEW o \in OpenIds, DeleteAccount(o) PROVE SlotInv'
  BY <1>5 DEF SlotInv, DeleteAccount
<1>6. CASE UNCHANGED vars
  BY <1>6 DEF SlotInv, vars
<1> QED
  BY <1>1, <1>2, <1>3, <1>4, <1>5, <1>6 DEF Next

(* Lists, cached lists and the locals of the checks keep their types.       *)
THEOREM TypeCorrect == Spec => []TypeOK
<1>1. ListInv => TypeOK
  BY DEF ListInv
<1> QED
  BY <1>1, ListInit, ListStep, PTL DEF Spec

-----------------------------------------------------------------------------
(* user_check's list keeps to the limit and names nobody twice, however     *)
(* many checks race and however stale their reads.                          *)
THEOREM ListCorrect == Spec => []ListWithinLimit
<1>1. ListInv => ListWithinLimit
  BY DEF ListInv, Short, ListWithinLimit
<1> QED
  BY <1>1, ListInit, ListStep, PTL DEF Spec

(* As long as no check raced, every account has its slot: user_check admits *)
(* no more than the limit and never refuses an account it has.              *)
THEOREM QuotaCorrect == Spec => []QuotaHolds
<1>1. Init => ListInv /\ SlotInv
  BY ListInit, SlotInit
<1>2. ListInv /\ SlotInv /\ [Next]_vars => (ListInv /\ SlotInv)'
  BY ListStep, SlotStep
<1>3. SlotInv => QuotaHolds
  BY DEF SlotInv, QuotaHolds
<1> QED
  BY <1>1, <1>2, <1>3, PTL DEF Spec
=============================================================================
