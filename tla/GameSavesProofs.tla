-------------------------- MODULE GameSavesProofs --------------------------
(***************************************************************************)
(* What GameSaves keeps for any number of requests, users, files and save   *)
(* ids, and then what the devices, editors and deletes of SaveClients that  *)
(* run over its handlers keep, proved with TLAPS.                           *)
(***************************************************************************)
EXTENDS SaveClients, TLAPS

-----------------------------------------------------------------------------
(* Lists of saves, in terms of the calls that build and consume them.  The  *)
(* rest of the proofs takes lists as opaque values with these facts.        *)

NoRepeats(l) == \A i, j \in DOMAIN l : l[i] = l[j] => i = j

LEMMA NoSavesType == NoSaves \in Lists /\ ToSet(NoSaves) = {} /\ NoRepeats(NoSaves)
  BY DEF Lists, NoSaves, ToSet, NoRepeats

LEMMA ListTypes ==
  ASSUME NEW l \in Lists
  PROVE  /\ l # NoSaves => Head(l) \in SaveIds /\ Tail(l) \in Lists
         /\ \A s \in SaveIds : Append(l, s) \in Lists
  BY DEF Lists, NoSaves

LEMMA ToSetTail ==
  ASSUME NEW l \in Lists, l # NoSaves
  PROVE  Head(l) \in ToSet(l) /\ ToSet(Tail(l)) \subseteq ToSet(l)
<1>1. l \in Seq(SaveIds) /\ l # <<>> /\ Len(l) \in Nat /\ 1 \in DOMAIN l /\ Head(l) = l[1]
  BY DEF Lists, NoSaves
<1>2. ASSUME NEW i \in DOMAIN Tail(l) PROVE i + 1 \in DOMAIN l /\ Tail(l)[i] = l[i + 1]
  BY <1>1
<1>3. QED
  BY <1>1, <1>2 DEF ToSet

LEMMA ToSetAppend ==
  ASSUME NEW l \in Lists, NEW s \in SaveIds
  PROVE  /\ ToSet(Append(l, s)) = ToSet(l) \cup {s}
         /\ NoRepeats(l) /\ s \notin ToSet(l) => NoRepeats(Append(l, s))
<1> DEFINE m == Append(l, s)
<1>1. /\ Len(l) \in Nat /\ DOMAIN l = 1 .. Len(l) /\ DOMAIN m = 1 .. Len(l) + 1
      /\ \A i \in 1 .. Len(l) : m[i] = l[i]
      /\ m[Len(l) + 1] = s
  BY DEF Lists
<1> HIDE DEF m
<1>2. ToSet(m) = ToSet(l) \cup {s}
  <2>1. ASSUME NEW x \in ToSet(m) PROVE x \in ToSet(l) \cup {s}
    <3>1. PICK i \in 1 .. Len(l) + 1 : x = m[i]
      BY <2>1, <1>1 DEF ToSet
    <3>2. CASE i = Len(l) + 1
      BY <3>1, <3>2, <1>1
    <3>3. CASE i # Len(l) + 1
      <4>1. i \in 1 .. Len(l)
        BY <3>1, <3>3, <1>1
      <4>2. QED
        BY <3>1, <4>1, <1>1 DEF ToSet
    <3>4. QED
      BY <3>2, <3>3
  <2>2. ASSUME NEW x \in ToSet(l) PROVE x \in ToSet(m)
    <3>1. PICK i \in 1 .. Len(l) : x = l[i]
      BY <2>2, <1>1 DEF ToSet
    <3>2. i \in 1 .. Len(l) + 1 /\ x = m[i]
      BY <3>1, <1>1
    <3>3. QED
      BY <3>2, <1>1 DEF ToSet
  <2>3. s \in ToSet(m)
    BY <1>1 DEF ToSet
  <2>4. QED
    BY <2>1, <2>2, <2>3
<1>3. ASSUME NoRepeats(l), s \notin ToSet(l) PROVE NoRepeats(m)
  <2>1. \A i \in 1 .. Len(l) : l[i] # s
    BY <1>1, <1>3 DEF ToSet
  <2>2. ASSUME NEW i \in 1 .. Len(l) + 1, NEW j \in 1 .. Len(l) + 1, m[i] = m[j] PROVE i = j
    <3>1. i \in 1 .. Len(l) \/ i = Len(l) + 1
      BY <1>1
    <3>2. j \in 1 .. Len(l) \/ j = Len(l) + 1
      BY <1>1
    <3>3. QED
      BY <1>1, <1>3, <2>1, <2>2, <3>1, <3>2 DEF NoRepeats
  <2>3. QED
    BY <1>1, <2>2 DEF NoRepeats
<1>4. QED
  BY <1>2, <1>3 DEF m

-----------------------------------------------------------------------------
(* Types.  A call writes what its handler's earlier calls left in its       *)
(* variables, so the types rest on those being set when they are used.      *)

Creating == {"gc_save", "gc_list", "gc_push"}

Editing ==
  {"xp_save", "xp_token", "xp_content", "xp_newtoken", "xp_newobject", "xp_put",
   "xp_delobject", "xp_deltoken"}

LocalsReady ==
  \A r \in Requests :
    /\ pc[r] \in Creating \cup {"du_next"} => user[r] # None
    /\ pc[r] \in Creating \cup Editing \cup {"gu_save"} => save[r] # None
    /\ pc[r] \in Creating \cup {"up_object", "gu_save", "xp_newobject", "xp_put"} => file[r] # None
    /\ pc[r] \in {"du_lookup", "du_object", "du_token", "du_save"} =>
         user[r] # None /\ save[r] # None /\ ids[r] # NoSaves
    /\ pc[r] \in {"du_lookup", "du_object", "du_token"} => file[r] # None

TypeInv == TypeOK /\ LocalsReady

LEMMA NoneApart == None \notin Users /\ None \notin Files /\ None \notin SaveIds
  BY GameSavesAssumption

USE NoneApart DEF Get, Has, Put, Delete, EmptyTable

LEMMA TypeInit == Init => TypeInv
  BY NoSavesType DEF Init, TypeInv, TypeOK, LocalsReady, Labels, Creating, Editing

LEMMA TypeStep == TypeInv /\ [Next]_vars => TypeInv'
<1> SUFFICES ASSUME TypeInv, [Next]_vars PROVE TypeInv'
  OBVIOUS
<1> USE NoSavesType DEF TypeInv, TypeOK, LocalsReady, Labels, Creating, Editing,
            files, saves, local, Goto, SetLocals, Begin, Finish
<1>1. ASSUME NEW r \in Requests, NEW f \in Files, CreateToken(r, f)
      PROVE  TypeInv'
  BY <1>1 DEF CreateToken, FreshFiles
<1>2. ASSUME NEW r \in Requests, NEW f \in Files \cap drawn,
             UploadLookup(r, f) \/ FileDeleteLookup(r, f)
      PROVE  TypeInv'
  BY <1>2 DEF UploadLookup, FileDeleteLookup, Rejected, vars
<1>3. ASSUME NEW r \in Requests, NEW f \in Files \cap drawn, NEW u \in Users,
             CreateLookup(r, u, f)
      PROVE  TypeInv'
  BY <1>3 DEF CreateLookup, Rejected, vars, FreshSaveIds
<1>4. ASSUME NEW r \in Requests, NEW f \in Files \cap drawn, NEW s \in SaveIds \cap drawn,
             UpdateLookup(r, s, f)
      PROVE  TypeInv'
  BY <1>4 DEF UpdateLookup, Rejected, vars
<1>5. ASSUME NEW r \in Requests, NEW u \in Users, EditLookup(r, u) \/ DeleteUserLookup(r, u)
      PROVE  TypeInv'
  BY <1>5, ListTypes DEF EditLookup, DeleteUserLookup, Rejected, vars
<1>6. ASSUME NEW r \in Requests, UploadWrite(r) \/ FileDeleteObject(r) \/ FileDeleteToken(r)
      PROVE  TypeInv'
  BY <1>6 DEF UploadWrite, FileDeleteObject, FileDeleteToken
<1>7. ASSUME NEW r \in Requests, CreatePutSave(r) \/ CreateReadList(r) \/ UpdatePutSave(r)
      PROVE  TypeInv'
  BY <1>7 DEF CreatePutSave, CreateReadList, UpdatePutSave
<1>8. ASSUME NEW r \in Requests, CreatePutList(r)
      PROVE  TypeInv'
  BY <1>8, ListTypes DEF CreatePutList
<1>9. ASSUME NEW r \in Requests, EditReadSave(r) \/ EditReadToken(r) \/ EditReadContent(r)
      PROVE  TypeInv'
  BY <1>9 DEF EditReadSave, EditReadToken, EditReadContent
<1>10. ASSUME NEW r \in Requests, EditPutToken(r)
       PROVE  TypeInv'
  BY <1>10 DEF EditPutToken, FreshFiles
<1>11. ASSUME NEW r \in Requests,
              \/ EditPutObject(r) \/ EditPutSave(r)
              \/ EditDeleteObject(r) \/ EditDeleteToken(r)
       PROVE  TypeInv'
  BY <1>11 DEF EditPutObject, EditPutSave, EditDeleteObject, EditDeleteToken
<1>12. ASSUME NEW r \in Requests, DeleteUserNext(r)
       PROVE  TypeInv'
  BY <1>12, ListTypes DEF DeleteUserNext
<1>13. ASSUME NEW r \in Requests,
              DeleteUserFileLookup(r) \/ DeleteUserObject(r) \/ DeleteUserToken(r)
       PROVE  TypeInv'
  BY <1>13 DEF DeleteUserFileLookup, DeleteUserObject, DeleteUserToken
<1>14. ASSUME NEW r \in Requests, DeleteUserSave(r)
       PROVE  TypeInv'
  <2>1. Tail(ids[r]) \in Lists
    BY <1>14, ListTypes DEF DeleteUserSave
  <2>2. QED
    BY <1>14, <2>1 DEF DeleteUserSave
<1>15. ASSUME NEW r \in Requests, DeleteUserList(r) \/ Abort(r)
       PROVE  TypeInv'
  BY <1>15 DEF DeleteUserList, Abort
<1>16. CASE UNCHANGED vars
  BY <1>16 DEF vars
<1>17. QED
  BY <1>1, <1>2, <1>3, <1>4, <1>5, <1>6, <1>7, <1>8, <1>9, <1>10, <1>11, <1>12,
     <1>13, <1>14, <1>15, <1>16
     DEF Next, Start, Step, Edit, DeleteUser

(* The tables and the variables of the handlers keep their types.           *)
THEOREM TypeCorrect == Spec => []TypeOK
<1>1. TypeInv => TypeOK
  BY DEF TypeInv
<1>2. QED
  BY TypeInit, TypeStep, <1>1, PTL DEF Spec

-----------------------------------------------------------------------------
(* Everything a row, a list, an object or a handler names was drawn before: *)
(* what is drawn next is named by nothing.                                  *)

NamesDrawn ==
  /\ file_tokens \cup objects \subseteq drawn
  /\ \A s \in SaveIds : Has(game_saves, s) => s \in drawn /\ Get(game_saves, s) \in drawn
  /\ \A u \in Users : ToSet(game_saves_by_user[u]) \subseteq drawn
  /\ \A r \in Requests :
       /\ save[r] # None => save[r] \in drawn
       /\ file[r] # None => file[r] \in drawn
       /\ old[r] # None => old[r] \in drawn
       /\ ToSet(ids[r]) \subseteq drawn

LEMMA DrawnInit == Init => NamesDrawn
  BY NoSavesType DEF Init, NamesDrawn

LEMMA DrawnStep == TypeInv /\ NamesDrawn /\ [Next]_vars => NamesDrawn'
<1> SUFFICES ASSUME TypeInv, NamesDrawn, [Next]_vars PROVE NamesDrawn'
  OBVIOUS
<1> USE NoSavesType DEF TypeInv, TypeOK, LocalsReady, Creating, Editing,
            files, saves, local, Goto, SetLocals, Begin, Finish, NamesDrawn
<1>1. ASSUME NEW r \in Requests, NEW f \in Files, CreateToken(r, f)
      PROVE  NamesDrawn'
  BY <1>1 DEF CreateToken, FreshFiles
<1>2. ASSUME NEW r \in Requests, NEW f \in Files \cap drawn,
             UploadLookup(r, f) \/ FileDeleteLookup(r, f)
      PROVE  NamesDrawn'
  BY <1>2 DEF UploadLookup, FileDeleteLookup, Rejected, vars
<1>3. ASSUME NEW r \in Requests, NEW f \in Files \cap drawn, NEW u \in Users,
             CreateLookup(r, u, f)
      PROVE  NamesDrawn'
  BY <1>3 DEF CreateLookup, Rejected, vars, FreshSaveIds
<1>4. ASSUME NEW r \in Requests, NEW f \in Files \cap drawn, NEW s \in SaveIds \cap drawn,
             UpdateLookup(r, s, f)
      PROVE  NamesDrawn'
  BY <1>4 DEF UpdateLookup, Rejected, vars
<1>5. ASSUME NEW r \in Requests, NEW u \in Users, EditLookup(r, u) \/ DeleteUserLookup(r, u)
      PROVE  NamesDrawn'
  BY <1>5, ToSetTail, ListTypes DEF EditLookup, DeleteUserLookup, Rejected, vars
<1>6. ASSUME NEW r \in Requests, UploadWrite(r) \/ FileDeleteObject(r) \/ FileDeleteToken(r)
      PROVE  NamesDrawn'
  BY <1>6 DEF UploadWrite, FileDeleteObject, FileDeleteToken
<1>7. ASSUME NEW r \in Requests, CreatePutSave(r) \/ CreateReadList(r) \/ UpdatePutSave(r)
      PROVE  NamesDrawn'
  BY <1>7 DEF CreatePutSave, CreateReadList, UpdatePutSave
<1>8. ASSUME NEW r \in Requests, CreatePutList(r)
      PROVE  NamesDrawn'
  BY <1>8, ToSetAppend DEF CreatePutList
<1>9. ASSUME NEW r \in Requests, EditReadSave(r) \/ EditReadToken(r) \/ EditReadContent(r)
      PROVE  NamesDrawn'
  BY <1>9 DEF EditReadSave, EditReadToken, EditReadContent
<1>10. ASSUME NEW r \in Requests, EditPutToken(r)
       PROVE  NamesDrawn'
  BY <1>10 DEF EditPutToken, FreshFiles
<1>11. ASSUME NEW r \in Requests,
              \/ EditPutObject(r) \/ EditPutSave(r)
              \/ EditDeleteObject(r) \/ EditDeleteToken(r)
       PROVE  NamesDrawn'
  BY <1>11 DEF EditPutObject, EditPutSave, EditDeleteObject, EditDeleteToken
<1>12. ASSUME NEW r \in Requests, DeleteUserNext(r)
       PROVE  NamesDrawn'
  BY <1>12, ToSetTail, ListTypes DEF DeleteUserNext
<1>13. ASSUME NEW r \in Requests,
              DeleteUserFileLookup(r) \/ DeleteUserObject(r) \/ DeleteUserToken(r)
       PROVE  NamesDrawn'
  BY <1>13 DEF DeleteUserFileLookup, DeleteUserObject, DeleteUserToken
<1>14. ASSUME NEW r \in Requests, DeleteUserSave(r)
       PROVE  NamesDrawn'
  <2>1. Tail(ids[r]) \in Lists /\ ToSet(Tail(ids[r])) \subseteq ToSet(ids[r])
    BY <1>14, ListTypes, ToSetTail DEF DeleteUserSave
  <2>2. QED
    BY <1>14, <2>1 DEF DeleteUserSave
<1>15. ASSUME NEW r \in Requests, DeleteUserList(r) \/ Abort(r)
       PROVE  NamesDrawn'
  BY <1>15 DEF DeleteUserList, Abort
<1>16. CASE UNCHANGED vars
  BY <1>16 DEF vars
<1>17. QED
  BY <1>1, <1>2, <1>3, <1>4, <1>5, <1>6, <1>7, <1>8, <1>9, <1>10, <1>11, <1>12,
     <1>13, <1>14, <1>15, <1>16
     DEF Next, Start, Step, Edit, DeleteUser

-----------------------------------------------------------------------------
(* Deleted saves.  A row is put only by a handler that PutPending counts,   *)
(* and a handler comes to be one by drawing the id or by reading its row.   *)

LEMMA DeletedStep ==
  ASSUME TypeInv, [Next]_vars, NEW s \in SaveIds, Deleted(s)
  PROVE  Deleted(s)'
<1> USE NoSavesType DEF TypeInv, TypeOK, LocalsReady, Creating, Editing,
            files, saves, local, Goto, SetLocals, Begin, Finish, Deleted, PutPending
<1>1. ASSUME NEW r \in Requests, NEW f \in Files, CreateToken(r, f)
      PROVE  Deleted(s)'
  BY <1>1 DEF CreateToken, FreshFiles
<1>2. ASSUME NEW r \in Requests, NEW f \in Files \cap drawn,
             UploadLookup(r, f) \/ FileDeleteLookup(r, f)
      PROVE  Deleted(s)'
  BY <1>2 DEF UploadLookup, FileDeleteLookup, Rejected, vars
<1>3. ASSUME NEW r \in Requests, NEW f \in Files \cap drawn, NEW u \in Users,
             CreateLookup(r, u, f)
      PROVE  Deleted(s)'
  BY <1>3 DEF CreateLookup, Rejected, vars, FreshSaveIds
<1>4. ASSUME NEW r \in Requests, NEW f \in Files \cap drawn, NEW t \in SaveIds \cap drawn,
             UpdateLookup(r, t, f)
      PROVE  Deleted(s)'
  BY <1>4 DEF UpdateLookup, Rejected, vars
<1>5. ASSUME NEW r \in Requests, NEW u \in Users, EditLookup(r, u) \/ DeleteUserLookup(r, u)
      PROVE  Deleted(s)'
  BY <1>5, ListTypes DEF EditLookup, DeleteUserLookup, Rejected, vars
<1>6. ASSUME NEW r \in Requests, UploadWrite(r) \/ FileDeleteObject(r) \/ FileDeleteToken(r)
      PROVE  Deleted(s)'
  BY <1>6 DEF UploadWrite, FileDeleteObject, FileDeleteToken
<1>7. ASSUME NEW r \in Requests, CreatePutSave(r) \/ CreateReadList(r) \/ UpdatePutSave(r)
      PROVE  Deleted(s)'
  BY <1>7 DEF CreatePutSave, CreateReadList, UpdatePutSave
<1>8. ASSUME NEW r \in Requests, CreatePutList(r)
      PROVE  Deleted(s)'
  BY <1>8, ListTypes DEF CreatePutList
<1>9. ASSUME NEW r \in Requests, EditReadSave(r) \/ EditReadToken(r) \/ EditReadContent(r)
      PROVE  Deleted(s)'
  BY <1>9 DEF EditReadSave, EditReadToken, EditReadContent
<1>10. ASSUME NEW r \in Requests, EditPutToken(r)
       PROVE  Deleted(s)'
  BY <1>10 DEF EditPutToken, FreshFiles
<1>11. ASSUME NEW r \in Requests,
              \/ EditPutObject(r) \/ EditPutSave(r)
              \/ EditDeleteObject(r) \/ EditDeleteToken(r)
       PROVE  Deleted(s)'
  BY <1>11 DEF EditPutObject, EditPutSave, EditDeleteObject, EditDeleteToken
<1>12. ASSUME NEW r \in Requests, DeleteUserNext(r)
       PROVE  Deleted(s)'
  BY <1>12, ListTypes DEF DeleteUserNext
<1>13. ASSUME NEW r \in Requests,
              DeleteUserFileLookup(r) \/ DeleteUserObject(r) \/ DeleteUserToken(r)
       PROVE  Deleted(s)'
  BY <1>13 DEF DeleteUserFileLookup, DeleteUserObject, DeleteUserToken
<1>14. ASSUME NEW r \in Requests, DeleteUserSave(r)
       PROVE  Deleted(s)'
  BY <1>14 DEF DeleteUserSave
<1>15. ASSUME NEW r \in Requests, DeleteUserList(r) \/ Abort(r)
       PROVE  Deleted(s)'
  BY <1>15 DEF DeleteUserList, Abort
<1>16. CASE UNCHANGED vars
  BY <1>16 DEF vars
<1>17. QED
  BY <1>1, <1>2, <1>3, <1>4, <1>5, <1>6, <1>7, <1>8, <1>9, <1>10, <1>11, <1>12,
     <1>13, <1>14, <1>15, <1>16
     DEF Next, Start, Step, Edit, DeleteUser

(* A deleted save is not brought back by any number of requests, racing and *)
(* stopping, unless one of them had looked it up before it was deleted.     *)
THEOREM DeletionCorrect == Spec => DeletedForGood
<1>1. TypeInv /\ [Next]_vars => [\A s \in SaveIds : Deleted(s) => Deleted(s)']_vars
  BY DeletedStep
<1>2. QED
  BY TypeInit, TypeStep, <1>1, PTL DEF Spec, DeletedForGood

-----------------------------------------------------------------------------
(* Leaked objects.  Their key was drawn, so no token is made for it again,  *)
(* and without a token no handler gets as far as deleting the object.       *)

LEMMA LeakStep ==
  ASSUME TypeInv, NamesDrawn, [Next]_vars, NEW g \in Files, Leaked(g)
  PROVE  Leaked(g)'
<1> USE NoSavesType DEF TypeInv, TypeOK, LocalsReady, Creating, Editing,
            files, saves, local, Goto, SetLocals, Begin, Finish, NamesDrawn, Leaked, RemovalPending
<1>1. ASSUME NEW r \in Requests, NEW f \in Files, CreateToken(r, f)
      PROVE  Leaked(g)'
  BY <1>1 DEF CreateToken, FreshFiles
<1>2. ASSUME NEW r \in Requests, NEW f \in Files \cap drawn,
             UploadLookup(r, f) \/ FileDeleteLookup(r, f)
      PROVE  Leaked(g)'
  BY <1>2 DEF UploadLookup, FileDeleteLookup, Rejected, vars
<1>3. ASSUME NEW r \in Requests, NEW f \in Files \cap drawn, NEW u \in Users,
             CreateLookup(r, u, f)
      PROVE  Leaked(g)'
  BY <1>3 DEF CreateLookup, Rejected, vars, FreshSaveIds
<1>4. ASSUME NEW r \in Requests, NEW f \in Files \cap drawn, NEW s \in SaveIds \cap drawn,
             UpdateLookup(r, s, f)
      PROVE  Leaked(g)'
  BY <1>4 DEF UpdateLookup, Rejected, vars
<1>5. ASSUME NEW r \in Requests, NEW u \in Users, EditLookup(r, u) \/ DeleteUserLookup(r, u)
      PROVE  Leaked(g)'
  BY <1>5, ListTypes DEF EditLookup, DeleteUserLookup, Rejected, vars
<1>6. ASSUME NEW r \in Requests, UploadWrite(r) \/ FileDeleteObject(r) \/ FileDeleteToken(r)
      PROVE  Leaked(g)'
  BY <1>6 DEF UploadWrite, FileDeleteObject, FileDeleteToken
<1>7. ASSUME NEW r \in Requests, CreatePutSave(r) \/ CreateReadList(r) \/ UpdatePutSave(r)
      PROVE  Leaked(g)'
  BY <1>7 DEF CreatePutSave, CreateReadList, UpdatePutSave
<1>8. ASSUME NEW r \in Requests, CreatePutList(r)
      PROVE  Leaked(g)'
  BY <1>8, ListTypes DEF CreatePutList
<1>9. ASSUME NEW r \in Requests, EditReadSave(r) \/ EditReadToken(r) \/ EditReadContent(r)
      PROVE  Leaked(g)'
  BY <1>9 DEF EditReadSave, EditReadToken, EditReadContent
<1>10. ASSUME NEW r \in Requests, EditPutToken(r)
       PROVE  Leaked(g)'
  BY <1>10 DEF EditPutToken, FreshFiles
<1>11. ASSUME NEW r \in Requests,
              \/ EditPutObject(r) \/ EditPutSave(r)
              \/ EditDeleteObject(r) \/ EditDeleteToken(r)
       PROVE  Leaked(g)'
  BY <1>11 DEF EditPutObject, EditPutSave, EditDeleteObject, EditDeleteToken
<1>12. ASSUME NEW r \in Requests, DeleteUserNext(r)
       PROVE  Leaked(g)'
  BY <1>12, ListTypes DEF DeleteUserNext
<1>13. ASSUME NEW r \in Requests,
              DeleteUserFileLookup(r) \/ DeleteUserObject(r) \/ DeleteUserToken(r)
       PROVE  Leaked(g)'
  BY <1>13 DEF DeleteUserFileLookup, DeleteUserObject, DeleteUserToken
<1>14. ASSUME NEW r \in Requests, DeleteUserSave(r)
       PROVE  Leaked(g)'
  BY <1>14 DEF DeleteUserSave
<1>15. ASSUME NEW r \in Requests, DeleteUserList(r) \/ Abort(r)
       PROVE  Leaked(g)'
  BY <1>15 DEF DeleteUserList, Abort
<1>16. CASE UNCHANGED vars
  BY <1>16 DEF vars
<1>17. QED
  BY <1>1, <1>2, <1>3, <1>4, <1>5, <1>6, <1>7, <1>8, <1>9, <1>10, <1>11, <1>12,
     <1>13, <1>14, <1>15, <1>16
     DEF Next, Start, Step, Edit, DeleteUser

(* An object whose token is gone before it is deleted stays in the bucket   *)
(* for good.                                                                *)
THEOREM LeakCorrect == Spec => LeaksStay
<1>1. TypeInv /\ NamesDrawn /\ [Next]_vars => [\A f \in Files : Leaked(f) => Leaked(f)']_vars
  BY LeakStep
<1>2. QED
  BY TypeInit, TypeStep, DrawnInit, DrawnStep, <1>1, PTL DEF Spec, LeaksStay

-----------------------------------------------------------------------------
(* Stranded saves.  The file's key was drawn, so its token does not come    *)
(* back, and the delete of a user that meets the save reads this very file. *)

LEMMA StrandedStep ==
  ASSUME TypeInv, NamesDrawn, [Next]_vars, NEW s \in SaveIds, Stranded(s)
  PROVE  Stranded(s)' \/ RepointPending(s)'
<1> USE NoSavesType DEF TypeInv, TypeOK, LocalsReady, Creating, Editing,
            files, saves, local, Goto, SetLocals, Begin, Finish, NamesDrawn, Stranded,
            RepointPending, DeletePending
<1>1. ASSUME NEW r \in Requests, NEW f \in Files, CreateToken(r, f)
      PROVE  Stranded(s)' \/ RepointPending(s)'
  BY <1>1 DEF CreateToken, FreshFiles
<1>2. ASSUME NEW r \in Requests, NEW f \in Files \cap drawn,
             UploadLookup(r, f) \/ FileDeleteLookup(r, f)
      PROVE  Stranded(s)' \/ RepointPending(s)'
  BY <1>2 DEF UploadLookup, FileDeleteLookup, Rejected, vars
<1>3. ASSUME NEW r \in Requests, NEW f \in Files \cap drawn, NEW u \in Users,
             CreateLookup(r, u, f)
      PROVE  Stranded(s)' \/ RepointPending(s)'
  BY <1>3 DEF CreateLookup, Rejected, vars, FreshSaveIds
<1>4. ASSUME NEW r \in Requests, NEW f \in Files \cap drawn, NEW t \in SaveIds \cap drawn,
             UpdateLookup(r, t, f)
      PROVE  Stranded(s)' \/ RepointPending(s)'
  BY <1>4 DEF UpdateLookup, Rejected, vars
<1>5. ASSUME NEW r \in Requests, NEW u \in Users, EditLookup(r, u) \/ DeleteUserLookup(r, u)
      PROVE  Stranded(s)' \/ RepointPending(s)'
  BY <1>5, ListTypes DEF EditLookup, DeleteUserLookup, Rejected, vars
<1>6. ASSUME NEW r \in Requests, UploadWrite(r) \/ FileDeleteObject(r) \/ FileDeleteToken(r)
      PROVE  Stranded(s)' \/ RepointPending(s)'
  BY <1>6 DEF UploadWrite, FileDeleteObject, FileDeleteToken
<1>7. ASSUME NEW r \in Requests, CreatePutSave(r) \/ CreateReadList(r) \/ UpdatePutSave(r)
      PROVE  Stranded(s)' \/ RepointPending(s)'
  BY <1>7 DEF CreatePutSave, CreateReadList, UpdatePutSave
<1>8. ASSUME NEW r \in Requests, CreatePutList(r)
      PROVE  Stranded(s)' \/ RepointPending(s)'
  BY <1>8, ListTypes DEF CreatePutList
<1>9. ASSUME NEW r \in Requests, EditReadSave(r) \/ EditReadToken(r) \/ EditReadContent(r)
      PROVE  Stranded(s)' \/ RepointPending(s)'
  BY <1>9 DEF EditReadSave, EditReadToken, EditReadContent
<1>10. ASSUME NEW r \in Requests, EditPutToken(r)
       PROVE  Stranded(s)' \/ RepointPending(s)'
  BY <1>10 DEF EditPutToken, FreshFiles
<1>11. ASSUME NEW r \in Requests,
              \/ EditPutObject(r) \/ EditPutSave(r)
              \/ EditDeleteObject(r) \/ EditDeleteToken(r)
       PROVE  Stranded(s)' \/ RepointPending(s)'
  BY <1>11 DEF EditPutObject, EditPutSave, EditDeleteObject, EditDeleteToken
<1>12. ASSUME NEW r \in Requests, DeleteUserNext(r)
       PROVE  Stranded(s)' \/ RepointPending(s)'
  BY <1>12, ListTypes DEF DeleteUserNext
<1>13. ASSUME NEW r \in Requests,
              DeleteUserFileLookup(r) \/ DeleteUserObject(r) \/ DeleteUserToken(r)
       PROVE  Stranded(s)' \/ RepointPending(s)'
  BY <1>13 DEF DeleteUserFileLookup, DeleteUserObject, DeleteUserToken
<1>14. ASSUME NEW r \in Requests, DeleteUserSave(r)
       PROVE  Stranded(s)' \/ RepointPending(s)'
  BY <1>14 DEF DeleteUserSave
<1>15. ASSUME NEW r \in Requests, DeleteUserList(r) \/ Abort(r)
       PROVE  Stranded(s)' \/ RepointPending(s)'
  BY <1>15 DEF DeleteUserList, Abort
<1>16. CASE UNCHANGED vars
  BY <1>16 DEF vars
<1>17. QED
  BY <1>1, <1>2, <1>3, <1>4, <1>5, <1>6, <1>7, <1>8, <1>9, <1>10, <1>11, <1>12,
     <1>13, <1>14, <1>15, <1>16
     DEF Next, Start, Step, Edit, DeleteUser

(* However often the user is deleted, a save whose file has lost its token  *)
(* stays until a handler is about to point it at another file.              *)
THEOREM StrandedCorrect == Spec => StrandedUntilRepointed
<1>1. TypeInv /\ NamesDrawn /\ [Next]_vars
        => [\A s \in SaveIds : Stranded(s) => (Stranded(s) \/ RepointPending(s))']_vars
  BY StrandedStep
<1>2. QED
  BY TypeInit, TypeStep, DrawnInit, DrawnStep, <1>1, PTL DEF Spec, StrandedUntilRepointed

-----------------------------------------------------------------------------
(* Lists.  Creates that overlap replace one another's lists, so a list is   *)
(* sound together with the copies that creates are about to extend: copies  *)
(* and lists of different users share no save, and the save a create is     *)
(* about to add is in none of them.                                         *)

Apart(l, m) == \A s \in SaveIds : ~(s \in ToSet(l) /\ s \in ToSet(m))

Copied(r) == pc[r] = "gc_push"

ListInv ==
  /\ \A u \in Users : NoRepeats(game_saves_by_user[u])
  /\ \A u, v \in Users : u # v => Apart(game_saves_by_user[u], game_saves_by_user[v])
  /\ \A r \in Requests : Copied(r) =>
       /\ NoRepeats(ids[r])
       /\ \A u \in Users : u # user[r] => Apart(ids[r], game_saves_by_user[u])
       /\ \A q \in Requests : Copied(q) /\ user[q] # user[r] => Apart(ids[r], ids[q])
  /\ \A r \in Requests : pc[r] \in Creating =>
       /\ \A u \in Users : save[r] \notin ToSet(game_saves_by_user[u])
       /\ \A q \in Requests : Copied(q) => save[r] \notin ToSet(ids[q])
       /\ \A q \in Requests : pc[q] \in Creating /\ q # r => save[q] # save[r]

LEMMA ListInit == Init => ListInv
  BY NoSavesType DEF Init, ListInv, Apart, Copied, Creating

LEMMA ListStep == TypeInv /\ NamesDrawn /\ ListInv /\ [Next]_vars => ListInv'
<1> SUFFICES ASSUME TypeInv, NamesDrawn, ListInv, [Next]_vars PROVE ListInv'
  OBVIOUS
<1> USE NoSavesType DEF TypeInv, TypeOK, LocalsReady, Creating, Editing,
            files, saves, local, Goto, SetLocals, Begin, Finish, NamesDrawn,
            ListInv, Apart, Copied
<1>1. ASSUME NEW r \in Requests, NEW f \in Files, CreateToken(r, f)
      PROVE  ListInv'
  BY <1>1 DEF CreateToken, FreshFiles
<1>2. ASSUME NEW r \in Requests, NEW f \in Files \cap drawn,
             UploadLookup(r, f) \/ FileDeleteLookup(r, f)
      PROVE  ListInv'
  BY <1>2 DEF UploadLookup, FileDeleteLookup, Rejected, vars
<1>3. ASSUME NEW r \in Requests, NEW f \in Files \cap drawn, NEW u \in Users,
             CreateLookup(r, u, f)
      PROVE  ListInv'
  BY <1>3 DEF CreateLookup, Rejected, vars, FreshSaveIds
<1>4. ASSUME NEW r \in Requests, NEW f \in Files \cap drawn, NEW s \in SaveIds \cap drawn,
             UpdateLookup(r, s, f)
      PROVE  ListInv'
  BY <1>4 DEF UpdateLookup, Rejected, vars
<1>5. ASSUME NEW r \in Requests, NEW u \in Users, EditLookup(r, u) \/ DeleteUserLookup(r, u)
      PROVE  ListInv'
  BY <1>5, ListTypes DEF EditLookup, DeleteUserLookup, Rejected, vars
<1>6. ASSUME NEW r \in Requests, UploadWrite(r) \/ FileDeleteObject(r) \/ FileDeleteToken(r)
      PROVE  ListInv'
  BY <1>6 DEF UploadWrite, FileDeleteObject, FileDeleteToken
<1>7. ASSUME NEW r \in Requests, CreatePutSave(r) \/ CreateReadList(r) \/ UpdatePutSave(r)
      PROVE  ListInv'
  BY <1>7 DEF CreatePutSave, CreateReadList, UpdatePutSave
<1>8. ASSUME NEW r \in Requests, CreatePutList(r)
      PROVE  ListInv'
  BY <1>8, ToSetAppend DEF CreatePutList
<1>9. ASSUME NEW r \in Requests, EditReadSave(r) \/ EditReadToken(r) \/ EditReadContent(r)
      PROVE  ListInv'
  BY <1>9 DEF EditReadSave, EditReadToken, EditReadContent
<1>10. ASSUME NEW r \in Requests, EditPutToken(r)
       PROVE  ListInv'
  BY <1>10 DEF EditPutToken, FreshFiles
<1>11. ASSUME NEW r \in Requests,
              \/ EditPutObject(r) \/ EditPutSave(r)
              \/ EditDeleteObject(r) \/ EditDeleteToken(r)
       PROVE  ListInv'
  <2>1. CASE EditPutObject(r)
    BY <2>1 DEF EditPutObject
  <2>2. CASE EditPutSave(r)
    BY <2>2 DEF EditPutSave
  <2>3. CASE EditDeleteObject(r)
    BY <2>3 DEF EditDeleteObject
  <2>4. CASE EditDeleteToken(r)
    BY <2>4 DEF EditDeleteToken
  <2>5. QED
    BY <1>11, <2>1, <2>2, <2>3, <2>4
<1>12. ASSUME NEW r \in Requests, DeleteUserNext(r)
       PROVE  ListInv'
  BY <1>12 DEF DeleteUserNext
<1>13. ASSUME NEW r \in Requests,
              DeleteUserFileLookup(r) \/ DeleteUserObject(r) \/ DeleteUserToken(r)
       PROVE  ListInv'
  <2>1. CASE DeleteUserFileLookup(r)
    BY <2>1 DEF DeleteUserFileLookup
  <2>2. CASE DeleteUserObject(r)
    BY <2>2 DEF DeleteUserObject
  <2>3. CASE DeleteUserToken(r)
    BY <2>3 DEF DeleteUserToken
  <2>4. QED
    BY <1>13, <2>1, <2>2, <2>3
<1>14. ASSUME NEW r \in Requests, DeleteUserSave(r)
       PROVE  ListInv'
  BY <1>14 DEF DeleteUserSave
<1>15. ASSUME NEW r \in Requests, DeleteUserList(r) \/ Abort(r)
       PROVE  ListInv'
  <2>1. CASE DeleteUserList(r)
    BY <2>1 DEF DeleteUserList
  <2>2. CASE Abort(r)
    BY <2>2 DEF Abort
  <2>3. QED
    BY <1>15, <2>1, <2>2
<1>16. CASE UNCHANGED vars
  BY <1>16 DEF vars
<1>17. QED
  BY <1>1, <1>2, <1>3, <1>4, <1>5, <1>6, <1>7, <1>8, <1>9, <1>10, <1>11, <1>12,
     <1>13, <1>14, <1>15, <1>16
     DEF Next, Start, Step, Edit, DeleteUser

(* No interleaving of creates and user deletes puts a save into two lists,  *)
(* or twice into one: the lists of two users never share a save.            *)
THEOREM ListsCorrect == Spec => []ListsAreApart
<1>1. TypeInv /\ NamesDrawn /\ ListInv => ListsAreApart
  <2> SUFFICES ASSUME TypeInv, ListInv PROVE ListsAreApart
    OBVIOUS
  <2>1. \A u \in Users : ToSet(game_saves_by_user[u]) \subseteq SaveIds
    BY DEF TypeInv, TypeOK, Lists, ToSet
  <2>2. QED
    BY <2>1 DEF ListInv, ListsAreApart, Apart, NoRepeats
<1>2. QED
  BY TypeInit, TypeStep, DrawnInit, DrawnStep, ListInit, ListStep, <1>1, PTL DEF Spec

-----------------------------------------------------------------------------
(* The clients of SaveClients: devices, editors and deletes of a user.      *)

(* A device's call works on what the device remembers: where it has come    *)
(* and the call it is in fit together.                                      *)

Deleting == {"du_next", "du_lookup", "du_object", "du_token", "du_save"}

JobInv ==
  \A r \in Requests :
    /\ stage[r] = "rest" => pc[r] \in {"idle"} \cup Editing
    /\ stage[r] \in ReadStages \cup {"token"} => pc[r] = "idle"
    /\ stage[r] \in ReadStages <=> left[r] # NoSaves
    /\ stage[r] \in ReadStages \ RowStages <=> row[r] # None
    /\ stage[r] = "upload" => pc[r] \in {"idle", "up_object"}
    /\ stage[r] = "point" => pc[r] \in {"idle", "gu_save"} \cup Creating
    /\ stage[r] = "discard" => pc[r] \in {"idle", "fd_object", "fd_token"}
    /\ stage[r] = "leave" => pc[r] \in {"idle"} \cup Deleting
    /\ stage[r] = "rest" <=> player[r] = None
    /\ stage[r] \in {"upload", "point"} => mine[r] # None
    /\ stage[r] \in {"rest", "leave"} => target[r] = None
    /\ target[r] = None <=> seen[r] = None
    /\ pc[r] \in {"up_object", "gu_save", "gc_save"} => file[r] = mine[r]
    /\ pc[r] \in Creating => target[r] = None
    /\ pc[r] = "gu_save" => save[r] = target[r]
    /\ pc[r] \in {"fd_object", "fd_token"} => file[r] = seen[r]
    /\ pc[r] \in Creating \cup Deleting => user[r] = player[r]
    /\ pc[r] \notin Editing => old[r] = None
    /\ pc[r] = "idle" => user[r] = None

(* Devices and deletes remember only ids that were drawn.                   *)
Remembered ==
  /\ \A r \in Requests :
       /\ target[r] # None => target[r] \in drawn
       /\ seen[r] # None => seen[r] \in drawn
       /\ mine[r] # None => mine[r] \in drawn
       /\ row[r] # None => row[r] \in drawn
       /\ ToSet(left[r]) \subseteq drawn
  /\ \A s \in SaveIds, f \in Files, u \in Users : <<s, f>> \in leaving[u] =>
       s \in drawn /\ f \in drawn

BaseInv == TypeInv /\ NamesDrawn /\ SyncTypeOK /\ JobInv /\ Remembered

LEMMA ListingDrawn ==
  ASSUME BaseInv, NEW u \in Users, NEW s \in Listing(u)
  PROVE  s \in SaveIds /\ s \in drawn /\ game_saves[s] \in Files /\ game_saves[s] \in drawn
<1>1. ToSet(game_saves_by_user[u]) \subseteq SaveIds
  BY DEF BaseInv, TypeInv, TypeOK, Lists, ToSet
<1>2. QED
  BY <1>1 DEF BaseInv, Listing, TypeInv, TypeOK, NamesDrawn

(* The calls that only read.                                                *)
ReadCall(r) == Read(r) \/ \E u \in Users : ListIds(r, u) \/ OpenIds(r, u)

(* What devices do, they do by calls of the API.                            *)
LEMMA SyncIsCalls == BaseInv /\ [SNext]_svars => [Next]_vars
<1> SUFFICES ASSUME BaseInv, SNext PROVE [Next]_vars
  BY DEF svars
<1> USE DEF BaseInv, SyncTypeOK, Remembered, Next, Start, Step, Edit, DeleteUser
<1>1. ASSUME NEW r \in Requests, NEW u \in Users,
             ReadCall(r) \/ EditBegin(r, u) \/ LeaveBegin(r, u) \/ Refused(r, u)
      PROVE  [Next]_vars
  BY <1>1
  DEF ReadCall, ListIds, OpenIds, ReadBegin, Read, ListRow, ListToken, OpenRow, OpenToken, OpenObject,
      EditBegin, LeaveBegin, Refused, svars
<1>2. ASSUME NEW r \in Requests, SyncToken(r)
      PROVE  [Next]_vars
  BY <1>2 DEF SyncToken
<1>3. ASSUME NEW r \in Requests, SyncUpload(r)
      PROVE  [Next]_vars
  BY <1>3 DEF SyncUpload, At, JobInv
<1>4. ASSUME NEW r \in Requests, SyncPoint(r)
      PROVE  [Next]_vars
  BY <1>4 DEF SyncPoint, At, JobInv
<1>5. ASSUME NEW r \in Requests, SyncDiscard(r)
      PROVE  [Next]_vars
  BY <1>5 DEF SyncDiscard
<1>6. ASSUME NEW r \in Requests, SyncGiveUp(r)
      PROVE  [Next]_vars
  BY <1>6 DEF SyncGiveUp
<1>7. ASSUME NEW r \in Requests, Edit(r) \/ LeaveStep(r) \/ LeaveSession(r)
      PROVE  [Next]_vars
  BY <1>7 DEF LeaveStep, LeaveSession
<1>8. ASSUME NEW r \in Requests, Read(r)
      PROVE  [Next]_vars
  BY <1>8 DEF Read, ListRow, ListToken, OpenRow, OpenToken, OpenObject
<1>9. QED
  BY <1>1, <1>2, <1>3, <1>4, <1>5, <1>6, <1>7, <1>8 DEF SNext, ReadCall

(* What a step of a read does for r: it is refused and forgets all, or goes *)
(* on with ids it had or those of the list, and with a row it had or one it *)
(* reads; and what it had may be what the device is to sync.                *)
Fails(r) ==
  /\ stage'[r] = "rest" /\ player'[r] = None /\ target'[r] = None /\ seen'[r] = None /\ mine'[r] = None
  /\ left'[r] = NoSaves /\ row'[r] = None

Chooses(r) ==
  \/ target'[r] = target[r] /\ seen'[r] = seen[r]
  \/ /\ left[r] # NoSaves /\ row[r] # None
     /\ target'[r] = Head(left[r]) /\ seen'[r] = row[r]

IdsOf(r) ==
  \/ /\ stage[r] \in ReadStages /\ player'[r] = player[r]
     /\ ToSet(left'[r]) \subseteq ToSet(left[r])
  \/ \E u \in Users :
       /\ stage[r] = "rest" /\ player'[r] = u /\ target'[r] = target[r]
       /\ CallsBegin(u) /\ (Leaving(u) => u \in unquiet')
       /\ ToSet(left'[r]) \subseteq ToSet(game_saves_by_user[u])

RowOf(r) ==
  \/ row'[r] = None
  \/ left'[r] = left[r] /\ row'[r] \in {row[r], game_saves[Head(left[r])]}

Proceeds(r) ==
  /\ stage'[r] \in ReadStages \cup {"token"} /\ mine'[r] = mine[r]
  /\ left'[r] \in Lists /\ row'[r] \in Files \cup {None}
  /\ stage'[r] \in ReadStages <=> left'[r] # NoSaves
  /\ stage'[r] \in ReadStages \ RowStages <=> row'[r] # None
  /\ Chooses(r) /\ IdsOf(r) /\ RowOf(r)

Alone(r) ==
  \A q \in Requests \ {r} :
    /\ stage'[q] = stage[q] /\ player'[q] = player[q] /\ target'[q] = target[q] /\ seen'[q] = seen[q]
    /\ mine'[q] = mine[q] /\ left'[q] = left[q] /\ row'[q] = row[q]

ReadEffect(r) ==
  /\ pc[r] = "idle" /\ stage[r] \in ReadStages \cup {"rest"}
  /\ Fails(r) \/ Proceeds(r)
  /\ Alone(r)
  /\ UNCHANGED <<vars, gone, leaving>> /\ unquiet \subseteq unquiet' /\ unquiet' \subseteq Users

LEMMA OneSaveList ==
  ASSUME NEW s \in SaveIds
  PROVE  <<s>> \in Lists /\ <<s>> # NoSaves /\ ToSet(<<s>>) = {s}
  BY DEF Lists, NoSaves, ToSet

LEMMA ReadCalls ==
  ASSUME BaseInv, NEW r \in Requests, ReadCall(r)
  PROVE  ReadEffect(r) /\ SyncTypeOK'
<1>0. TypeOK /\ SyncTypeOK /\ JobInv
  BY DEF BaseInv, TypeInv
<1>a. left[r] \in Lists /\ (left[r] # NoSaves => Head(left[r]) \in SaveIds
        /\ Tail(left[r]) \in Lists /\ ToSet(Tail(left[r])) \subseteq ToSet(left[r]))
  BY <1>0, ListTypes, ToSetTail DEF SyncTypeOK
<1>b. \A s \in SaveIds : game_saves[s] \in Files \cup {None}
  BY <1>0 DEF TypeOK
<1> USE DEF SyncTypeOK, Stages, ReadStages, RowStages, At, Restart, Rest, ReadOn, leave, reads
<1>1. ASSUME NEW u \in Users, ListIds(r, u)
      PROVE  ReadEffect(r) /\ SyncTypeOK'
  <2>1. game_saves_by_user[u] \in Lists
    BY <1>0 DEF TypeOK
  <2>2. /\ pc[r] = "idle" /\ stage[r] = "rest" /\ UNCHANGED <<vars, target, seen, mine, gone, leaving>>
        /\ CallsBegin(u) /\ (Leaving(u) => u \in unquiet') /\ unquiet' \in {unquiet, unquiet \cup {u}}
        /\ stage' = [stage EXCEPT ![r] = AfterList(game_saves_by_user[u])]
        /\ left' = [left EXCEPT ![r] = game_saves_by_user[u]]
        /\ row' = [row EXCEPT ![r] = None]
        /\ player' = [player EXCEPT ![r] = u]
    BY <1>1 DEF ListIds, ReadBegin, Disturb
  <2>3. Alone(r) /\ SyncTypeOK'
    BY <1>0, <2>1, <2>2 DEF Alone, AfterList
  <2>4. Proceeds(r)
    BY <1>0, <2>1, <2>2 DEF Proceeds, Chooses, IdsOf, RowOf, AfterList
  <2>5. QED
    BY <1>0, <2>2, <2>3, <2>4 DEF ReadEffect
<1>2. ASSUME NEW u \in Users, OpenIds(r, u)
      PROVE  ReadEffect(r) /\ SyncTypeOK'
  <2> DEFINE l == <<Head(game_saves_by_user[u])>>
  <2>1. l \in Lists /\ l # NoSaves /\ ToSet(l) \subseteq ToSet(game_saves_by_user[u])
    BY <1>0, <1>2, ListTypes, ToSetTail, OneSaveList DEF TypeOK, OpenIds
  <2> HIDE DEF l
  <2>2. /\ pc[r] = "idle" /\ stage[r] = "rest" /\ UNCHANGED <<vars, target, seen, mine, gone, leaving>>
        /\ CallsBegin(u) /\ (Leaving(u) => u \in unquiet') /\ unquiet' \in {unquiet, unquiet \cup {u}}
        /\ \E place \in {"get_row", "b30_row"} : stage' = [stage EXCEPT ![r] = place]
        /\ left' = [left EXCEPT ![r] = l]
        /\ row' = [row EXCEPT ![r] = None]
        /\ player' = [player EXCEPT ![r] = u]
    BY <1>2 DEF OpenIds, ReadBegin, Disturb, l
  <2>3. Alone(r) /\ SyncTypeOK'
    BY <1>0, <2>1, <2>2 DEF Alone
  <2>4. Proceeds(r)
    BY <1>0, <2>1, <2>2 DEF Proceeds, Chooses, IdsOf, RowOf
  <2>5. QED
    BY <1>0, <2>2, <2>3, <2>4 DEF ReadEffect
<1>3. CASE ListRow(r)
  <2>1. left[r] # NoSaves /\ stage[r] \in ReadStages
    BY <1>0, <1>3 DEF ListRow, JobInv
  <2>2. Alone(r) /\ SyncTypeOK'
    <3>1. Alone(r)
      BY <1>0, <1>3 DEF ListRow, Alone
    <3>2. \E place \in Stages, l \in Lists, f \in Files \cup {None} :
            /\ stage' = [stage EXCEPT ![r] = place]
            /\ left' = [left EXCEPT ![r] = l] /\ row' = [row EXCEPT ![r] = f]
            /\ UNCHANGED <<player, target, seen, mine, gone, leaving, unquiet>>
      BY <1>a, <1>b, <1>3, <2>1 DEF ListRow, AfterList
    <3>3. SyncTypeOK'
      BY <1>0, <3>2
    <3>4. QED
      BY <3>1, <3>3
  <2>3. Proceeds(r)
    BY <1>0, <1>a, <1>b, <1>3, <2>1 DEF ListRow, Proceeds, Chooses, IdsOf, RowOf, AfterList
  <2>4. QED
    BY <1>0, <1>3, <2>1, <2>2, <2>3 DEF ListRow, ReadEffect
<1>4. CASE ListToken(r)
  <2>1. left[r] # NoSaves /\ row[r] # None /\ row[r] \in Files /\ stage[r] \in ReadStages
    BY <1>0, <1>4 DEF ListToken, JobInv
  <2>2. Alone(r) /\ SyncTypeOK'
    <3>1. Alone(r)
      BY <1>0, <1>4 DEF ListToken, Alone
    <3>2. CASE Rest(r)
      BY <1>0, <1>4, <3>1, <3>2, NoSavesType DEF ListToken
    <3>3. CASE ~Rest(r)
      <4>1. PICK place \in {"token", "list_row"} :
              /\ stage' = [stage EXCEPT ![r] = place]
              /\ left' = [left EXCEPT ![r] = Tail(left[r])] /\ row' = [row EXCEPT ![r] = None]
              /\ UNCHANGED <<player, mine, gone, leaving, unquiet>>
        BY <1>4, <3>3 DEF ListToken, AfterList
      <4>2. \/ UNCHANGED <<target, seen>>
            \/ /\ target' = [target EXCEPT ![r] = Head(left[r])]
               /\ seen' = [seen EXCEPT ![r] = row[r]]
        BY <1>4, <3>3 DEF ListToken
      <4>3. QED
        BY <1>0, <1>a, <2>1, <3>1, <4>1, <4>2
    <3>4. QED
      BY <3>1, <3>2, <3>3
  <2>3. CASE row[r] \in file_tokens
    <3>1. Proceeds(r)
      BY <1>0, <1>a, <1>4, <2>1, <2>3 DEF ListToken, Proceeds, Chooses, IdsOf, RowOf, AfterList
    <3>2. QED
      BY <1>0, <1>4, <2>1, <2>2, <3>1 DEF ListToken, ReadEffect
  <2>4. CASE row[r] \notin file_tokens
    <3>1. Fails(r)
      BY <1>0, <1>4, <2>4 DEF ListToken, Fails
    <3>2. QED
      BY <1>0, <1>4, <2>1, <2>2, <3>1 DEF ListToken, ReadEffect
  <2>5. QED
    BY <2>3, <2>4
<1>5. CASE OpenRow(r) \/ OpenToken(r) \/ OpenObject(r)
  <2>1. left[r] # NoSaves /\ stage[r] \in ReadStages
    BY <1>0, <1>5 DEF OpenRow, OpenToken, OpenObject, JobInv
  <2>2. Alone(r) /\ SyncTypeOK'
    BY <1>0, <1>a, <1>b, <1>5, <2>1, NoSavesType DEF OpenRow, OpenToken, OpenObject, Alone
  <2>3. CASE stage'[r] = "rest"
    <3>1. Fails(r)
      BY <1>0, <1>5, <2>3 DEF OpenRow, OpenToken, OpenObject, Fails
    <3>2. QED
      BY <1>0, <1>5, <2>1, <2>2, <3>1 DEF OpenRow, OpenToken, OpenObject, ReadEffect
  <2>4. CASE stage'[r] # "rest"
    <3>1. Proceeds(r)
      BY <1>0, <1>a, <1>b, <1>5, <2>1, <2>4
         DEF OpenRow, OpenToken, OpenObject, JobInv, Proceeds, Chooses, IdsOf, RowOf
    <3>2. QED
      BY <1>0, <1>5, <2>1, <2>2, <3>1 DEF OpenRow, OpenToken, OpenObject, ReadEffect
  <2>5. QED
    BY <2>3, <2>4
<1>6. QED
  BY <1>1, <1>2, <1>3, <1>4, <1>5 DEF ReadCall, Read

LEMMA BaseInit == SInit => BaseInv
<1> SUFFICES ASSUME SInit PROVE BaseInv
  OBVIOUS
<1>1. TypeInv /\ NamesDrawn
  BY TypeInit, DrawnInit DEF SInit
<1>2. QED
  BY <1>1, NoSavesType
     DEF SInit, Init, BaseInv, SyncTypeOK, JobInv, Remembered, Stages, ReadStages, RowStages,
         Creating, Deleting

LEMMA BaseStep == BaseInv /\ [SNext]_svars => BaseInv'
<1> SUFFICES ASSUME BaseInv, [SNext]_svars PROVE BaseInv'
  OBVIOUS
<1> DEFINE Goal == SyncTypeOK' /\ JobInv' /\ Remembered'
<1>0. TypeInv' /\ NamesDrawn' /\ (Goal => BaseInv')
  BY SyncIsCalls, TypeStep, DrawnStep DEF BaseInv
<1> USE NoSavesType DEF BaseInv, TypeInv, TypeOK, LocalsReady, NamesDrawn, SyncTypeOK, JobInv,
    Remembered,
            Stages, ReadStages, RowStages, Creating, Editing, Deleting,
            files, saves, local, sync, reads, leave, Goto, SetLocals, Begin, Finish
<1>1. ASSUME NEW r \in Requests, ReadCall(r)
      PROVE  Goal
  <2>1. ReadEffect(r) /\ SyncTypeOK'
    BY <1>1, ReadCalls
  <2>2. \A u \in Users : ToSet(game_saves_by_user[u]) \subseteq drawn
    BY DEF Lists, ToSet
  <2>3. \A s \in SaveIds : game_saves[s] # None => game_saves[s] \in drawn
    OBVIOUS
  <2>4. left[r] # NoSaves => Head(left[r]) \in SaveIds /\ Head(left[r]) \in ToSet(left[r])
    BY ListTypes, ToSetTail
  <2>5. CASE Fails(r)
    BY <2>1, <2>5 DEF ReadEffect, Fails, Alone, vars
  <2>6. CASE Proceeds(r)
    <3>1. JobInv'
      <4>1. UNCHANGED <<pc, user, save, file, old>> /\ pc[r] = "idle" /\ Alone(r)
        BY <2>1 DEF ReadEffect, vars
      <4>2. /\ stage'[r] \in ReadStages \cup {"token"} /\ player'[r] # None
            /\ stage'[r] \in ReadStages <=> left'[r] # NoSaves
            /\ stage'[r] \in ReadStages \ RowStages <=> row'[r] # None
            /\ target'[r] = None <=> seen'[r] = None
        BY <2>1, <2>4, <2>6 DEF ReadEffect, Proceeds, Chooses, IdsOf
      <4>3. QED
        BY <4>1, <4>2 DEF Alone
    <3>2. Remembered'
      BY <2>1, <2>2, <2>3, <2>4, <2>6 DEF ReadEffect, Proceeds, Chooses, IdsOf, RowOf, Alone, vars
    <3>3. QED
      BY <2>1, <3>1, <3>2
  <2>7. QED
    BY <2>1, <2>5, <2>6 DEF ReadEffect
<1>2. ASSUME NEW r \in Requests, NEW u \in Users, EditBegin(r, u)
      PROVE  Goal
  BY <1>2 DEF EditBegin, EditLookup, At, Disturb, Rejected, vars
<1>3. ASSUME NEW r \in Requests, NEW u \in Users, LeaveBegin(r, u)
      PROVE  Goal
  BY <1>3, ListingDrawn DEF LeaveBegin, DeleteUserLookup, At, Restart
<1>4. ASSUME NEW r \in Requests, SyncToken(r)
      PROVE  Goal
  BY <1>4 DEF SyncToken, CreateToken, FreshFiles, At
<1>5. ASSUME NEW r \in Requests, At(r, "upload"), UploadLookup(r, mine[r]),
             UNCHANGED <<sync, leave>>
      PROVE  Goal
  BY <1>5 DEF UploadLookup, At, Rejected, vars
<1>6. ASSUME NEW r \in Requests, UploadWrite(r), Go(r, "point"), UNCHANGED leave
      PROVE  Goal
  BY <1>6 DEF UploadWrite, Go
<1>7. ASSUME NEW r \in Requests, At(r, "point"), target[r] # None,
             UpdateLookup(r, target[r], mine[r]), UNCHANGED <<sync, leave>>
      PROVE  Goal
  BY <1>7 DEF UpdateLookup, At, Rejected, vars
<1>8. ASSUME NEW r \in Requests, At(r, "point"), target[r] = None,
             CreateLookup(r, player[r], mine[r]), UNCHANGED <<sync, leave>>
      PROVE  Goal
  BY <1>8 DEF CreateLookup, FreshSaveIds, At, Rejected, vars
<1>9. ASSUME NEW r \in Requests, CreatePutSave(r) \/ CreateReadList(r),
             UNCHANGED <<sync, leave>>
      PROVE  Goal
  BY <1>9 DEF CreatePutSave, CreateReadList
<1>10. ASSUME NEW r \in Requests, UpdatePutSave(r), Go(r, "discard"), UNCHANGED leave
       PROVE  Goal
  BY <1>10 DEF UpdatePutSave, Go
<1>11. ASSUME NEW r \in Requests, CreatePutList(r), Go(r, "discard"), UNCHANGED leave
       PROVE  Goal
  BY <1>11 DEF CreatePutList, Go
<1>12. ASSUME NEW r \in Requests, At(r, "discard"), seen[r] # None, FileDeleteLookup(r,
              seen[r]),
              IF pc'[r] = "idle" THEN Rest(r) ELSE UNCHANGED sync,
              UNCHANGED leave
       PROVE  Goal
  <2>1. CASE pc'[r] = "idle"
    <3>1. /\ pc'[r] = "idle" /\ user'[r] = None /\ old'[r] = None
          /\ \A q \in Requests \ {r} :
               /\ pc'[q] = pc[q] /\ user'[q] = user[q] /\ old'[q] = old[q]
               /\ file'[q] = file[q] /\ save'[q] = save[q]
          /\ UNCHANGED <<drawn, leave>>
      BY <1>12, <2>1 DEF FileDeleteLookup, At, Restart, Rest, Rejected, vars
    <3>2. Rest(r)
      BY <1>12, <2>1
    <3>3. SyncTypeOK' /\ Remembered'
      BY <3>1, <3>2 DEF Rest, Restart
    <3>4. JobInv'
      BY <3>1, <3>2 DEF Rest, Restart
    <3>5. QED
      BY <3>3, <3>4
  <2>2. CASE pc'[r] # "idle"
    BY <1>12, <2>2 DEF FileDeleteLookup, At, Restart, Rest, Rejected, vars
  <2>3. QED
    BY <2>1, <2>2
<1>13. ASSUME NEW r \in Requests, FileDeleteObject(r) \/ FileDeleteToken(r),
              IF pc'[r] = "idle" THEN Rest(r) ELSE UNCHANGED sync,
              UNCHANGED leave
       PROVE  Goal
  <2>1. CASE pc'[r] = "idle"
    <3>1. /\ pc'[r] = "idle" /\ user'[r] = None /\ old'[r] = None
          /\ \A q \in Requests \ {r} :
               /\ pc'[q] = pc[q] /\ user'[q] = user[q] /\ old'[q] = old[q]
               /\ file'[q] = file[q] /\ save'[q] = save[q]
          /\ UNCHANGED <<drawn, leave>>
      BY <1>13, <2>1 DEF FileDeleteObject, FileDeleteToken, Restart, Rest
    <3>2. Rest(r)
      BY <1>13, <2>1
    <3>3. SyncTypeOK' /\ Remembered'
      BY <3>1, <3>2 DEF Rest, Restart
    <3>4. JobInv'
      BY <3>1, <3>2 DEF Rest, Restart
    <3>5. QED
      BY <3>3, <3>4
  <2>2. CASE pc'[r] # "idle"
    BY <1>13, <2>2 DEF FileDeleteObject, FileDeleteToken, Restart, Rest
  <2>3. QED
    BY <2>1, <2>2
<1>14. ASSUME NEW r \in Requests, SyncGiveUp(r)
       PROVE  Goal
  BY <1>14 DEF SyncGiveUp, Abort, Restart, Rest, vars
<1>15. ASSUME NEW r \in Requests, EditReadSave(r) \/ EditReadToken(r) \/ EditReadContent(r),
              UNCHANGED <<sync, leave>>
       PROVE  Goal
  BY <1>15 DEF EditReadSave, EditReadToken, EditReadContent
<1>16. ASSUME NEW r \in Requests, EditPutToken(r), UNCHANGED <<sync, leave>>
       PROVE  Goal
  BY <1>16 DEF EditPutToken, FreshFiles
<1>17. ASSUME NEW r \in Requests, EditPutObject(r), UNCHANGED <<sync, leave>>
       PROVE  Goal
  BY <1>17 DEF EditPutObject
<1>18. ASSUME NEW r \in Requests, EditPutSave(r), UNCHANGED <<sync, leave>>
       PROVE  Goal
  BY <1>18 DEF EditPutSave
<1>19. ASSUME NEW r \in Requests, EditDeleteObject(r) \/ EditDeleteToken(r),
              UNCHANGED <<sync, leave>>
       PROVE  Goal
  BY <1>19 DEF EditDeleteObject, EditDeleteToken
<1>20. ASSUME NEW r \in Requests, DeleteUserNext(r), LeaveStep(r)
       PROVE  Goal
  BY <1>20 DEF DeleteUserNext, LeaveStep
<1>21. ASSUME NEW r \in Requests,
              DeleteUserFileLookup(r) \/ DeleteUserObject(r) \/ DeleteUserToken(r),
              LeaveStep(r)
       PROVE  Goal
  <2>1. CASE pc'[r] = "idle"
    <3>1. /\ pc'[r] = "idle" /\ user'[r] = None /\ old'[r] = None
          /\ \A q \in Requests \ {r} :
               /\ pc'[q] = pc[q] /\ user'[q] = user[q] /\ old'[q] = old[q]
               /\ file'[q] = file[q] /\ save'[q] = save[q]
          /\ UNCHANGED <<drawn, leave>>
      BY <1>21, <2>1
       DEF DeleteUserFileLookup, DeleteUserObject, DeleteUserToken, LeaveStep, Restart,
          Rest
    <3>2. Rest(r)
      BY <1>21, <2>1 DEF DeleteUserFileLookup, DeleteUserObject, DeleteUserToken, LeaveStep
    <3>3. SyncTypeOK' /\ Remembered'
      BY <3>1, <3>2 DEF Rest, Restart
    <3>4. JobInv'
      BY <3>1, <3>2 DEF Rest, Restart
    <3>5. QED
      BY <3>3, <3>4
  <2>2. CASE pc'[r] # "idle"
    BY <1>21, <2>2 DEF DeleteUserFileLookup, DeleteUserObject, DeleteUserToken, LeaveStep, Restart,
          Rest
  <2>3. QED
    BY <2>1, <2>2
<1>22. ASSUME NEW r \in Requests, DeleteUserSave(r), LeaveStep(r)
       PROVE  Goal
  BY <1>22 DEF DeleteUserSave, LeaveStep
<1>23. ASSUME NEW r \in Requests, DeleteUserList(r), LeaveStep(r)
       PROVE  Goal
  BY <1>23 DEF DeleteUserList, LeaveStep
<1>24. ASSUME NEW r \in Requests, LeaveSession(r)
       PROVE  Goal
  BY <1>24 DEF LeaveSession, At, Restart, Rest, vars
<1>25. CASE UNCHANGED svars
  BY <1>25 DEF svars, vars
<1> HIDE DEF Goal, BaseInv, TypeInv, TypeOK, LocalsReady, NamesDrawn, SyncTypeOK, JobInv, Remembered
<1>26. QED
  BY <1>0, <1>1, <1>2, <1>3, <1>4, <1>5, <1>6, <1>7, <1>8, <1>9, <1>10, <1>11, <1>12, <1>13, <1>14,
     <1>15, <1>16, <1>17, <1>18, <1>19, <1>20, <1>21, <1>22, <1>23, <1>24, <1>25
     DEF SNext, ReadCall, Refused, Edit, DeleteUser, LeaveStep, SyncUpload, SyncPoint, SyncDiscard

-----------------------------------------------------------------------------
(* Drafts.  The file that a device or an editor is about to point a save at *)
(* is its own, and nothing that is deleted or was ever shown names it.      *)

Draft(r) ==
  IF stage[r] \in {"upload", "point"} /\ pc[r] \notin {"gc_list", "gc_push"} THEN mine[r]
  ELSE IF pc[r] \in {"xp_newobject", "xp_put"} THEN file[r]
  ELSE None

DraftsApart ==
  \A r \in Requests : Draft(r) # None =>
    /\ \A s \in SaveIds : game_saves[s] # Draft(r)
    /\ \A q \in Requests :
         /\ q # r => Draft(q) # Draft(r)
         /\ seen[q] # Draft(r)
         /\ old[q] # Draft(r)
         /\ row[q] # Draft(r)
         /\ pc[q] \in Deleting => file[q] # Draft(r)
    /\ \A s \in SaveIds, u \in Users : <<s, Draft(r)>> \notin leaving[u]

DraftsWritten ==
  \A r \in Requests : Draft(r) # None =>
    /\ Draft(r) \in file_tokens
    /\ stage[r] = "point" \/ pc[r] = "xp_put" => Draft(r) \in objects

DraftInv == DraftsApart /\ DraftsWritten

LEMMA DraftInit == SInit => DraftInv
  BY DEF SInit, Init, DraftInv, DraftsApart, DraftsWritten, Draft

LEMMA ApartStep == BaseInv /\ DraftInv /\ [SNext]_svars => DraftsApart'
<1> SUFFICES ASSUME BaseInv, DraftInv, [SNext]_svars PROVE DraftsApart'
  OBVIOUS
<1>0. TypeOK /\ SyncTypeOK /\ JobInv
  BY DEF BaseInv, TypeInv
<1> USE DEF Creating, Editing, Deleting, DraftInv, DraftsApart, Draft, TypeOK, SyncTypeOK, JobInv,
            files, saves, local, sync, reads, leave, Goto, SetLocals, Begin, Finish
<1>1. ASSUME NEW r \in Requests, ReadCall(r)
      PROVE  DraftsApart'
  <2>1. ReadEffect(r)
    BY <1>1, ReadCalls
  <2>2. \A q \in Requests : Draft(q)' \in {Draft(q), None}
    BY <1>0, <2>1 DEF ReadEffect, Fails, Proceeds, Alone, ReadStages, RowStages, vars
  <2>3. left[r] # NoSaves => Head(left[r]) \in SaveIds
    BY <1>0, ListTypes
  <2>4. \A q \in Requests : /\ seen'[q] \in {seen[q], row[q], None}
                            /\ row'[q] \in {row[q], None} \cup {game_saves[s] : s \in SaveIds}
    BY <1>0, <2>1, <2>3 DEF ReadEffect, Fails, Proceeds, Chooses, RowOf, Alone
  <2>5. UNCHANGED <<game_saves, old, file, pc, leaving>>
    BY <2>1 DEF ReadEffect, vars
  <2> HIDE DEF Draft
  <2>6. QED
    BY <2>2, <2>4, <2>5
<1>2. ASSUME NEW r \in Requests, NEW u \in Users, EditBegin(r, u)
      PROVE  DraftsApart'
  BY <1>0, <1>2 DEF EditBegin, EditLookup, At, Disturb, Rejected, vars
<1>3. ASSUME NEW r \in Requests, NEW u \in Users, LeaveBegin(r, u)
      PROVE  DraftsApart'
  BY <1>0, <1>3, ListingDrawn DEF LeaveBegin, DeleteUserLookup, At, Restart, Listing
<1>4. ASSUME NEW r \in Requests, SyncToken(r)
      PROVE  DraftsApart'
  BY <1>0, <1>4 DEF SyncToken, CreateToken, FreshFiles, At, NamesDrawn, Remembered, BaseInv
<1>5. ASSUME NEW r \in Requests, At(r, "upload"), UploadLookup(r, mine[r]),
             UNCHANGED <<sync, leave>>
      PROVE  DraftsApart'
  BY <1>0, <1>5 DEF UploadLookup, At, Rejected, vars
<1>6. ASSUME NEW r \in Requests, UploadWrite(r), Go(r, "point"), UNCHANGED leave
      PROVE  DraftsApart'
  <2>1. \A q \in Requests : Draft(q)' = Draft(q)
    BY <1>0, <1>6 DEF UploadWrite, Go, Stages, ReadStages, RowStages
  <2>2. QED
    BY <1>0, <1>6, <2>1 DEF UploadWrite, Go
<1>7. ASSUME NEW r \in Requests, At(r, "point"), target[r] # None,
             UpdateLookup(r, target[r], mine[r]), UNCHANGED <<sync, leave>>
      PROVE  DraftsApart'
  BY <1>0, <1>7 DEF UpdateLookup, At, Rejected, vars
<1>8. ASSUME NEW r \in Requests, At(r, "point"), target[r] = None,
             CreateLookup(r, player[r], mine[r]), UNCHANGED <<sync, leave>>
      PROVE  DraftsApart'
  BY <1>0, <1>8 DEF CreateLookup, FreshSaveIds, At, Rejected, vars
<1>9. ASSUME NEW r \in Requests, CreatePutSave(r) \/ CreateReadList(r),
             UNCHANGED <<sync, leave>>
      PROVE  DraftsApart'
  <2>1. CASE CreatePutSave(r)
    <3>1. save[r] \in SaveIds /\ file[r] = Draft(r)
      BY <1>0, <2>1 DEF CreatePutSave, BaseInv, TypeInv, LocalsReady, Stages, ReadStages, RowStages
    <3>2. \A q \in Requests : Draft(q)' = IF q = r THEN None ELSE Draft(q)
      BY <1>0, <1>9, <2>1 DEF CreatePutSave
    <3>3. QED
      BY <1>0, <1>9, <2>1, <3>1, <3>2 DEF CreatePutSave
  <2>2. CASE CreateReadList(r)
    <3>1. \A q \in Requests : Draft(q)' = Draft(q)
      BY <1>0, <1>9, <2>2 DEF CreateReadList
    <3>2. QED
      BY <1>0, <1>9, <2>2, <3>1 DEF CreateReadList
  <2>3. QED
    BY <1>9, <2>1, <2>2
<1>10. ASSUME NEW r \in Requests, UpdatePutSave(r), Go(r, "discard"), UNCHANGED leave
       PROVE  DraftsApart'
  <2>1. save[r] \in SaveIds /\ file[r] = Draft(r)
    BY <1>0, <1>10 DEF UpdatePutSave, BaseInv, TypeInv, LocalsReady, Stages, ReadStages, RowStages
  <2>2. \A q \in Requests : Draft(q)' = IF q = r THEN None ELSE Draft(q)
    BY <1>0, <1>10 DEF UpdatePutSave, Go
  <2>3. QED
    BY <1>0, <1>10, <2>1, <2>2 DEF UpdatePutSave, Go
<1>11. ASSUME NEW r \in Requests, CreatePutList(r), Go(r, "discard"), UNCHANGED leave
       PROVE  DraftsApart'
  BY <1>0, <1>11 DEF CreatePutList, Go
<1>12. ASSUME NEW r \in Requests, At(r, "discard"), seen[r] # None, FileDeleteLookup(r,
              seen[r]),
              IF pc'[r] = "idle" THEN Rest(r) ELSE UNCHANGED sync,
              UNCHANGED leave
       PROVE  DraftsApart'
  <2>1. /\ UNCHANGED <<game_saves, leaving>> /\ pc'[r] \in {"idle", "fd_object", "fd_token"}
        /\ old'[r] = None /\ seen'[r] \in {seen[r], None} /\ row'[r] \in {row[r], None}
        /\ stage'[r] \in {"rest", "discard"}
        /\ \A q \in Requests \ {r} :
             /\ pc'[q] = pc[q] /\ old'[q] = old[q] /\ file'[q] = file[q]
             /\ stage'[q] = stage[q] /\ seen'[q] = seen[q] /\ mine'[q] = mine[q] /\ row'[q] = row[q]
    BY <1>0, <1>12 DEF FileDeleteLookup, At, Restart, Rest, Rejected, vars, Stages, ReadStages,
         RowStages
  <2>2. QED
    BY <2>1
<1>13. ASSUME NEW r \in Requests, FileDeleteObject(r) \/ FileDeleteToken(r),
              IF pc'[r] = "idle" THEN Rest(r) ELSE UNCHANGED sync,
              UNCHANGED leave
       PROVE  DraftsApart'
  <2>1. /\ UNCHANGED <<game_saves, leaving>> /\ pc'[r] \in {"idle", "fd_object", "fd_token"}
        /\ old'[r] = None /\ seen'[r] \in {seen[r], None} /\ row'[r] \in {row[r], None}
        /\ stage'[r] \in {"rest", "discard"}
        /\ \A q \in Requests \ {r} :
             /\ pc'[q] = pc[q] /\ old'[q] = old[q] /\ file'[q] = file[q]
             /\ stage'[q] = stage[q] /\ seen'[q] = seen[q] /\ mine'[q] = mine[q] /\ row'[q] = row[q]
    BY <1>0, <1>13 DEF FileDeleteObject, FileDeleteToken, Restart, Rest, Stages, ReadStages, RowStages
  <2>2. QED
    BY <2>1
<1>14. ASSUME NEW r \in Requests, SyncGiveUp(r)
       PROVE  DraftsApart'
  BY <1>0, <1>14 DEF SyncGiveUp, Abort, Restart, Rest, vars
<1>15. ASSUME NEW r \in Requests, EditReadSave(r) \/ EditReadToken(r) \/ EditReadContent(r),
              UNCHANGED <<sync, leave>>
       PROVE  DraftsApart'
  <2>1. \A q \in Requests : Draft(q)' = Draft(q)
    BY <1>0, <1>15 DEF EditReadSave, EditReadToken, EditReadContent
  <2>2. /\ \A q \in Requests : old'[q] \in {None, old[q]} \cup {game_saves[s] : s \in SaveIds}
        /\ \A q \in Requests : pc'[q] \in Deleting => pc[q] \in Deleting /\ file'[q] = file[q]
        /\ UNCHANGED <<game_saves, seen, row, leaving>>
    BY <1>0, <1>15 DEF EditReadSave, EditReadToken, EditReadContent, BaseInv, TypeInv, LocalsReady
  <2> HIDE DEF Draft
  <2>3. QED
    BY <2>1, <2>2
<1>16. ASSUME NEW r \in Requests, EditPutToken(r), UNCHANGED <<sync, leave>>
       PROVE  DraftsApart'
  BY <1>0, <1>16 DEF EditPutToken, FreshFiles, NamesDrawn, Remembered, BaseInv
<1>17. ASSUME NEW r \in Requests, EditPutObject(r), UNCHANGED <<sync, leave>>
       PROVE  DraftsApart'
  BY <1>0, <1>17 DEF EditPutObject
<1>18. ASSUME NEW r \in Requests, EditPutSave(r), UNCHANGED <<sync, leave>>
       PROVE  DraftsApart'
  BY <1>0, <1>18 DEF EditPutSave
<1>19. ASSUME NEW r \in Requests, EditDeleteObject(r) \/ EditDeleteToken(r),
              UNCHANGED <<sync, leave>>
       PROVE  DraftsApart'
  BY <1>0, <1>19 DEF EditDeleteObject, EditDeleteToken
<1>20. ASSUME NEW r \in Requests, DeleteUserNext(r), LeaveStep(r)
       PROVE  DraftsApart'
  <2>1. \A q \in Requests : Draft(q)' = Draft(q)
    BY <1>0, <1>20 DEF DeleteUserNext, LeaveStep
  <2>2. Head(ids[r]) \in SaveIds
    BY <1>0, <1>20, ListTypes DEF DeleteUserNext
  <2>3. /\ \A q \in Requests : pc'[q] \in Deleting =>
             pc[q] \in Deleting /\ file'[q] \in {file[q]} \cup {game_saves[s] : s \in SaveIds}
        /\ UNCHANGED <<old, game_saves, seen, row, leaving>>
    BY <1>0, <1>20, <2>2 DEF DeleteUserNext, LeaveStep
  <2> HIDE DEF Draft
  <2>4. QED
    BY <2>1, <2>3
<1>21. ASSUME NEW r \in Requests,
              DeleteUserFileLookup(r) \/ DeleteUserObject(r) \/ DeleteUserToken(r),
              LeaveStep(r)
       PROVE  DraftsApart'
  <2>1. \A q \in Requests : Draft(q)' = Draft(q)
    BY <1>0, <1>21
     DEF DeleteUserFileLookup, DeleteUserObject, DeleteUserToken, LeaveStep, Restart, Rest
  <2>2. /\ \A q \in Requests : pc'[q] \in Deleting => pc[q] \in Deleting /\ file'[q] = file[q]
        /\ \A q \in Requests : /\ old'[q] \in {None, old[q]} /\ seen'[q] \in {None, seen[q]}
                              /\ row'[q] \in {None, row[q]}
        /\ UNCHANGED <<game_saves, leaving>>
    BY <1>0, <1>21
     DEF DeleteUserFileLookup, DeleteUserObject, DeleteUserToken, LeaveStep, Restart, Rest
  <2> HIDE DEF Draft
  <2>3. QED
    BY <2>1, <2>2
<1>22. ASSUME NEW r \in Requests, DeleteUserSave(r), LeaveStep(r)
       PROVE  DraftsApart'
  BY <1>0, <1>22 DEF DeleteUserSave, LeaveStep
<1>23. ASSUME NEW r \in Requests, DeleteUserList(r), LeaveStep(r)
       PROVE  DraftsApart'
  BY <1>0, <1>23 DEF DeleteUserList, LeaveStep
<1>24. ASSUME NEW r \in Requests, LeaveSession(r)
       PROVE  DraftsApart'
  BY <1>0, <1>24 DEF LeaveSession, At, Restart, Rest, vars
<1>25. CASE UNCHANGED svars
  BY <1>0, <1>25 DEF svars, vars
<1> HIDE DEF TypeOK, SyncTypeOK, JobInv, DraftInv, DraftsApart
<1>26. QED
  BY <1>0, <1>1, <1>2, <1>3, <1>4, <1>5, <1>6, <1>7, <1>8, <1>9, <1>10, <1>11, <1>12, <1>13, <1>14,
     <1>15, <1>16, <1>17, <1>18, <1>19, <1>20, <1>21, <1>22, <1>23, <1>24, <1>25
     DEF SNext, ReadCall, Refused, Edit, DeleteUser, LeaveStep, SyncUpload, SyncPoint, SyncDiscard

(* Nothing that is deleted is a draft, so a draft keeps its token, and its  *)
(* object once it is written.                                               *)
LEMMA WrittenStep == BaseInv /\ DraftInv /\ [SNext]_svars => DraftsWritten'
<1> SUFFICES ASSUME BaseInv, DraftInv, [SNext]_svars PROVE DraftsWritten'
  OBVIOUS
<1>0. TypeOK /\ SyncTypeOK /\ JobInv
  BY DEF BaseInv, TypeInv
<1> USE DEF Creating, Editing, Deleting, DraftInv, DraftsApart, DraftsWritten, Draft, TypeOK,
            SyncTypeOK,
            JobInv, Stages, ReadStages, RowStages, files, saves, local, sync, reads, leave, Goto,
            SetLocals, Begin, Finish
<1>1. ASSUME NEW r \in Requests, ReadCall(r)
      PROVE  DraftsWritten'
  <2>1. ReadEffect(r)
    BY <1>1, ReadCalls
  <2>2. QED
    BY <1>0, <2>1 DEF ReadEffect, Fails, Proceeds, Alone, ReadStages, RowStages, vars
<1>2. ASSUME NEW r \in Requests, NEW u \in Users, EditBegin(r, u)
      PROVE  DraftsWritten'
  BY <1>0, <1>2 DEF EditBegin, EditLookup, At, Disturb, Rejected, vars
<1>3. ASSUME NEW r \in Requests, NEW u \in Users, LeaveBegin(r, u)
      PROVE  DraftsWritten'
  BY <1>0, <1>3 DEF LeaveBegin, DeleteUserLookup, At, Restart
<1>4. ASSUME NEW r \in Requests, SyncToken(r)
      PROVE  DraftsWritten'
  BY <1>0, <1>4 DEF SyncToken, CreateToken, FreshFiles, At
<1>5. ASSUME NEW r \in Requests, At(r, "upload"), UploadLookup(r, mine[r]),
             UNCHANGED <<sync, leave>>
      PROVE  DraftsWritten'
  BY <1>0, <1>5 DEF UploadLookup, At, Rejected, vars
<1>6. ASSUME NEW r \in Requests, UploadWrite(r), Go(r, "point"), UNCHANGED leave
      PROVE  DraftsWritten'
  BY <1>0, <1>6 DEF UploadWrite, Go
<1>7. ASSUME NEW r \in Requests, At(r, "point"), target[r] # None,
             UpdateLookup(r, target[r], mine[r]), UNCHANGED <<sync, leave>>
      PROVE  DraftsWritten'
  BY <1>0, <1>7 DEF UpdateLookup, At, Rejected, vars
<1>8. ASSUME NEW r \in Requests, At(r, "point"), target[r] = None,
             CreateLookup(r, player[r], mine[r]), UNCHANGED <<sync, leave>>
      PROVE  DraftsWritten'
  BY <1>0, <1>8 DEF CreateLookup, FreshSaveIds, At, Rejected, vars
<1>9. ASSUME NEW r \in Requests, CreatePutSave(r) \/ CreateReadList(r),
             UNCHANGED <<sync, leave>>
      PROVE  DraftsWritten'
  BY <1>0, <1>9 DEF CreatePutSave, CreateReadList
<1>10. ASSUME NEW r \in Requests, UpdatePutSave(r), Go(r, "discard"), UNCHANGED leave
       PROVE  DraftsWritten'
  BY <1>0, <1>10 DEF UpdatePutSave, Go
<1>11. ASSUME NEW r \in Requests, CreatePutList(r), Go(r, "discard"), UNCHANGED leave
       PROVE  DraftsWritten'
  BY <1>0, <1>11 DEF CreatePutList, Go
<1>12. ASSUME NEW r \in Requests, At(r, "discard"), seen[r] # None, FileDeleteLookup(r,
              seen[r]),
              IF pc'[r] = "idle" THEN Rest(r) ELSE UNCHANGED sync,
              UNCHANGED leave
       PROVE  DraftsWritten'
  BY <1>0, <1>12 DEF FileDeleteLookup, At, Restart, Rest, Rejected, vars
<1>13. ASSUME NEW r \in Requests, FileDeleteObject(r) \/ FileDeleteToken(r),
              IF pc'[r] = "idle" THEN Rest(r) ELSE UNCHANGED sync,
              UNCHANGED leave
       PROVE  DraftsWritten'
  BY <1>0, <1>13 DEF FileDeleteObject, FileDeleteToken, Restart, Rest
<1>14. ASSUME NEW r \in Requests, SyncGiveUp(r)
       PROVE  DraftsWritten'
  BY <1>0, <1>14 DEF SyncGiveUp, Abort, Restart, Rest, vars
<1>15. ASSUME NEW r \in Requests, EditReadSave(r) \/ EditReadToken(r) \/ EditReadContent(r),
              UNCHANGED <<sync, leave>>
       PROVE  DraftsWritten'
  BY <1>0, <1>15 DEF EditReadSave, EditReadToken, EditReadContent
<1>16. ASSUME NEW r \in Requests, EditPutToken(r), UNCHANGED <<sync, leave>>
       PROVE  DraftsWritten'
  BY <1>0, <1>16 DEF EditPutToken, FreshFiles
<1>17. ASSUME NEW r \in Requests, EditPutObject(r), UNCHANGED <<sync, leave>>
       PROVE  DraftsWritten'
  BY <1>0, <1>17 DEF EditPutObject
<1>18. ASSUME NEW r \in Requests, EditPutSave(r), UNCHANGED <<sync, leave>>
       PROVE  DraftsWritten'
  BY <1>0, <1>18 DEF EditPutSave
<1>19. ASSUME NEW r \in Requests, EditDeleteObject(r) \/ EditDeleteToken(r),
              UNCHANGED <<sync, leave>>
       PROVE  DraftsWritten'
  BY <1>0, <1>19 DEF EditDeleteObject, EditDeleteToken
<1>20. ASSUME NEW r \in Requests, DeleteUserNext(r), LeaveStep(r)
       PROVE  DraftsWritten'
  BY <1>0, <1>20 DEF DeleteUserNext, LeaveStep
<1>21. ASSUME NEW r \in Requests,
              DeleteUserFileLookup(r) \/ DeleteUserObject(r) \/ DeleteUserToken(r),
              LeaveStep(r)
       PROVE  DraftsWritten'
  BY <1>0, <1>21
   DEF DeleteUserFileLookup, DeleteUserObject, DeleteUserToken, LeaveStep, Restart, Rest
<1>22. ASSUME NEW r \in Requests, DeleteUserSave(r), LeaveStep(r)
       PROVE  DraftsWritten'
  BY <1>0, <1>22 DEF DeleteUserSave, LeaveStep
<1>23. ASSUME NEW r \in Requests, DeleteUserList(r), LeaveStep(r)
       PROVE  DraftsWritten'
  BY <1>0, <1>23 DEF DeleteUserList, LeaveStep
<1>24. ASSUME NEW r \in Requests, LeaveSession(r)
       PROVE  DraftsWritten'
  BY <1>0, <1>24 DEF LeaveSession, At, Restart, Rest, vars
<1>25. CASE UNCHANGED svars
  BY <1>0, <1>25 DEF svars, vars
<1> HIDE DEF TypeOK, SyncTypeOK, JobInv, DraftInv, DraftsApart, DraftsWritten
<1>26. QED
  BY <1>0, <1>1, <1>2, <1>3, <1>4, <1>5, <1>6, <1>7, <1>8, <1>9, <1>10, <1>11, <1>12, <1>13, <1>14,
     <1>15, <1>16, <1>17, <1>18, <1>19, <1>20, <1>21, <1>22, <1>23, <1>24, <1>25
     DEF SNext, ReadCall, Refused, Edit, DeleteUser, LeaveStep, SyncUpload, SyncPoint, SyncDiscard

-----------------------------------------------------------------------------
(* Files.  A file has one save, the one it was stored for.  What a device,  *)
(* an editor or a delete read of a save may be out of date, but it is then  *)
(* the file of no save; and it is out of date when it is deleted.           *)

OneSavePerFile ==
  \A s, t \in SaveIds : game_saves[s] # None /\ game_saves[s] = game_saves[t] => s = t

SeenOfTarget ==
  \A r \in Requests, s \in SaveIds : seen[r] # None /\ game_saves[s] = seen[r] =>
    s = target[r] /\ stage[r] # "discard"

RowOfSave ==
  \A r \in Requests, s \in SaveIds : row[r] # None /\ game_saves[s] = row[r] => s = Head(left[r])

OldOfSave ==
  \A r \in Requests, s \in SaveIds : old[r] # None /\ game_saves[s] = old[r] =>
    s = save[r] /\ pc[r] \notin {"xp_delobject", "xp_deltoken"}

FileOfSave ==
  \A r \in Requests, s \in SaveIds :
    pc[r] \in {"du_lookup", "du_object", "du_token"} /\ game_saves[s] = file[r] => s = save[r]

FileInv == OneSavePerFile /\ SeenOfTarget /\ RowOfSave /\ OldOfSave /\ FileOfSave

LEMMA FileInit == SInit => FileInv
  BY DEF SInit, Init, FileInv, OneSavePerFile, SeenOfTarget, RowOfSave, OldOfSave, FileOfSave

LEMMA FileStep == BaseInv /\ DraftInv /\ FileInv /\ [SNext]_svars => FileInv'
<1> SUFFICES ASSUME BaseInv, DraftInv, FileInv, [SNext]_svars PROVE FileInv'
  OBVIOUS
<1>0. TypeOK /\ LocalsReady /\ SyncTypeOK /\ JobInv /\ DraftsApart
  BY DEF BaseInv, TypeInv, DraftInv
<1> USE DEF Creating, Editing, Deleting, FileInv, OneSavePerFile, SeenOfTarget, RowOfSave,
            OldOfSave, FileOfSave,
            TypeOK, SyncTypeOK, JobInv, Stages, ReadStages, RowStages,
            files, saves, local, sync, reads, leave, Goto, SetLocals, Begin, Finish
<1>1. ASSUME NEW r \in Requests, ReadCall(r)
      PROVE  FileInv'
  <2>1. ReadEffect(r)
    BY <1>1, ReadCalls
  <2>2. UNCHANGED <<game_saves, pc, save, file, old>>
    BY <2>1 DEF ReadEffect, vars
  <2>3. OneSavePerFile' /\ OldOfSave' /\ FileOfSave'
    BY <2>2
  <2>4. left[r] # NoSaves => Head(left[r]) \in SaveIds
    BY <1>0, ListTypes
  <2>5. SeenOfTarget'
    BY <1>0, <2>1, <2>2, <2>4
       DEF ReadEffect, Fails, Proceeds, Chooses, Alone, ReadStages, RowStages
  <2>6. RowOfSave'
    BY <1>0, <2>1, <2>2, <2>4
       DEF ReadEffect, Fails, Proceeds, RowOf, Alone, ReadStages, RowStages
  <2>7. QED
    BY <2>3, <2>5, <2>6
<1>2. ASSUME NEW r \in Requests, NEW u \in Users, EditBegin(r, u)
      PROVE  FileInv'
  <2>1. /\ UNCHANGED <<game_saves, old, stage, target, seen, left, row>>
        /\ \A q \in Requests :
             \/ pc'[q] = pc[q] /\ save'[q] = save[q] /\ file'[q] = file[q]
             \/ pc'[q] = "xp_save" /\ pc[q] = "idle"
    <3> HIDE DEF FileInv, JobInv
    <3>1. CASE UNCHANGED vars
      BY <1>2, <3>1 DEF EditBegin, vars
    <3>2. CASE ~UNCHANGED vars
      BY <1>0, <1>2, <3>2 DEF EditBegin, EditLookup, At, Rejected
    <3>3. QED
      BY <3>1, <3>2
  <2>2. \A q \in Requests : pc[q] = "idle" => old[q] = None
    BY <1>0
  <2>3. OneSavePerFile' /\ SeenOfTarget' /\ RowOfSave'
    BY <2>1
  <2>4. OldOfSave'
    BY <2>1, <2>2
  <2>5. FileOfSave'
    BY <2>1
  <2>6. QED
    BY <2>3, <2>4, <2>5
<1>3. ASSUME NEW r \in Requests, NEW u \in Users, LeaveBegin(r, u)
      PROVE  FileInv'
  <2>1. /\ UNCHANGED <<game_saves, old>> /\ pc[r] = "idle" /\ pc'[r] = "du_next"
        /\ seen'[r] = None /\ file'[r] = None /\ row'[r] = None
        /\ \A q \in Requests \ {r} :
             /\ pc'[q] = pc[q] /\ save'[q] = save[q] /\ file'[q] = file[q]
             /\ stage'[q] = stage[q] /\ target'[q] = target[q] /\ seen'[q] = seen[q]
             /\ left'[q] = left[q] /\ row'[q] = row[q]
    <3> HIDE DEF FileInv, JobInv
    <3>1. QED
      BY <1>0, <1>3 DEF LeaveBegin, DeleteUserLookup, At, Restart
  <2>2. old[r] = None
    BY <1>0, <2>1
  <2>3. QED
    BY <2>1, <2>2
<1>4. ASSUME NEW r \in Requests, SyncToken(r)
      PROVE  FileInv'
  BY <1>0, <1>4 DEF SyncToken, CreateToken, FreshFiles, At
<1>5. ASSUME NEW r \in Requests, At(r, "upload"), UploadLookup(r, mine[r]),
             UNCHANGED <<sync, leave>>
      PROVE  FileInv'
  BY <1>0, <1>5 DEF UploadLookup, At, Rejected, vars
<1>6. ASSUME NEW r \in Requests, UploadWrite(r), Go(r, "point"), UNCHANGED leave
      PROVE  FileInv'
  BY <1>0, <1>6 DEF UploadWrite, Go
<1>7. ASSUME NEW r \in Requests, At(r, "point"), target[r] # None,
             UpdateLookup(r, target[r], mine[r]), UNCHANGED <<sync, leave>>
      PROVE  FileInv'
  <2>1. OneSavePerFile'
    BY <1>0, <1>7 DEF UpdateLookup, At, Rejected, vars
  <2>2. SeenOfTarget'
    BY <1>0, <1>7 DEF UpdateLookup, At, Rejected, vars
  <2>r. RowOfSave'
    BY <1>0, <1>7 DEF UpdateLookup, At, Rejected, vars
  <2>3. OldOfSave'
    BY <1>0, <1>7 DEF UpdateLookup, At, Rejected, vars
  <2>4. FileOfSave'
    BY <1>0, <1>7 DEF UpdateLookup, At, Rejected, vars
  <2>5. QED
    BY <2>1, <2>2, <2>r, <2>3, <2>4
<1>8. ASSUME NEW r \in Requests, At(r, "point"), target[r] = None,
             CreateLookup(r, player[r], mine[r]), UNCHANGED <<sync, leave>>
      PROVE  FileInv'
  <2>1. OneSavePerFile'
    BY <1>0, <1>8 DEF CreateLookup, FreshSaveIds, At, Rejected, vars
  <2>2. SeenOfTarget'
    BY <1>0, <1>8 DEF CreateLookup, FreshSaveIds, At, Rejected, vars
  <2>3. RowOfSave'
    <3>1. UNCHANGED <<game_saves, left, row>>
      BY <1>8 DEF CreateLookup, Rejected, vars
    <3>2. QED
      BY <3>1
  <2>4. OldOfSave'
    <3>1. UNCHANGED game_saves
      BY <1>8 DEF CreateLookup, Rejected, vars
    <3>2. CASE UNCHANGED vars
      BY <3>2 DEF vars
    <3>3. CASE ~UNCHANGED vars
      <4>1. /\ old'[r] = None
            /\ \A q \in Requests \ {r} : pc'[q] = pc[q] /\ old'[q] = old[q] /\ save'[q] = save[q]
        BY <1>0, <1>8, <3>3 DEF CreateLookup, Rejected
      <4>2. QED
        BY <3>1, <4>1
    <3>4. QED
      BY <3>2, <3>3
  <2>5. FileOfSave'
    BY <1>0, <1>8 DEF CreateLookup, FreshSaveIds, At, Rejected, vars
  <2>6. QED
    BY <2>1, <2>2, <2>3, <2>4, <2>5
<1>9. ASSUME NEW r \in Requests, CreatePutSave(r) \/ CreateReadList(r),
             UNCHANGED <<sync, leave>>
      PROVE  FileInv'
  <2>1. OneSavePerFile'
    BY <1>0, <1>9, SMTT(30) DEF CreatePutSave, CreateReadList, DraftsApart, Draft, LocalsReady
  <2>2. SeenOfTarget'
    BY <1>0, <1>9, SMTT(30) DEF CreatePutSave, CreateReadList, DraftsApart, Draft, LocalsReady
  <2>r. RowOfSave'
    BY <1>0, <1>9, SMTT(30) DEF CreatePutSave, CreateReadList, DraftsApart, Draft, LocalsReady
  <2>3. OldOfSave'
    BY <1>0, <1>9, SMTT(30) DEF CreatePutSave, CreateReadList, DraftsApart, Draft, LocalsReady
  <2>4. FileOfSave'
    BY <1>0, <1>9, SMTT(30) DEF CreatePutSave, CreateReadList, DraftsApart, Draft, LocalsReady
  <2>5. QED
    BY <2>1, <2>2, <2>r, <2>3, <2>4
<1>10. ASSUME NEW r \in Requests, UpdatePutSave(r), Go(r, "discard"), UNCHANGED leave
       PROVE  FileInv'
  <2>1. OneSavePerFile'
    BY <1>0, <1>10, SMTT(30) DEF UpdatePutSave, Go, DraftsApart, Draft, LocalsReady
  <2>2. SeenOfTarget'
    BY <1>0, <1>10, SMTT(30) DEF UpdatePutSave, Go, DraftsApart, Draft, LocalsReady
  <2>3. RowOfSave'
    BY <1>0, <1>10, SMTT(30) DEF UpdatePutSave, Go, DraftsApart, Draft, LocalsReady
  <2>4. OldOfSave'
    BY <1>0, <1>10, SMTT(30) DEF UpdatePutSave, Go, DraftsApart, Draft, LocalsReady
  <2>5. FileOfSave'
    BY <1>0, <1>10, SMTT(30) DEF UpdatePutSave, Go, DraftsApart, Draft, LocalsReady
  <2>6. QED
    BY <2>1, <2>2, <2>3, <2>4, <2>5
<1>11. ASSUME NEW r \in Requests, CreatePutList(r), Go(r, "discard"), UNCHANGED leave
       PROVE  FileInv'
  BY <1>0, <1>11 DEF CreatePutList, Go
<1>12. ASSUME NEW r \in Requests, At(r, "discard"), seen[r] # None, FileDeleteLookup(r,
              seen[r]),
              IF pc'[r] = "idle" THEN Rest(r) ELSE UNCHANGED sync,
              UNCHANGED leave
       PROVE  FileInv'
  <2>1. OneSavePerFile'
    BY <1>0, <1>12, SMTT(30) DEF FileDeleteLookup, At, Restart, Rest, Rejected, vars
  <2>2. SeenOfTarget'
    BY <1>0, <1>12, SMTT(30) DEF FileDeleteLookup, At, Restart, Rest, Rejected, vars
  <2>r. RowOfSave'
    BY <1>0, <1>12, SMTT(30) DEF FileDeleteLookup, At, Restart, Rest, Rejected, vars
  <2>a. /\ UNCHANGED game_saves /\ pc'[r] \in {"idle", "fd_object", "fd_token"} /\ old'[r] = None
        /\ \A q \in Requests \ {r} :
             pc'[q] = pc[q] /\ old'[q] = old[q] /\ save'[q] = save[q] /\ file'[q] = file[q]
    <3> HIDE DEF FileInv
    <3>1. CASE UNCHANGED vars
      BY <1>0, <1>12, <3>1 DEF At, vars
    <3>2. CASE ~UNCHANGED vars
      BY <1>0, <1>12, <3>2 DEF FileDeleteLookup, At, Rejected
    <3>3. QED
      BY <3>1, <3>2
  <2>3. OldOfSave'
    BY <2>a
  <2>4. FileOfSave'
    BY <2>a
  <2>5. QED
    BY <2>1, <2>2, <2>r, <2>3, <2>4
<1>13. ASSUME NEW r \in Requests, FileDeleteObject(r) \/ FileDeleteToken(r),
              IF pc'[r] = "idle" THEN Rest(r) ELSE UNCHANGED sync,
              UNCHANGED leave
       PROVE  FileInv'
  <2>1. OneSavePerFile'
    BY <1>0, <1>13 DEF FileDeleteObject, FileDeleteToken, Restart, Rest
  <2>2. SeenOfTarget'
    BY <1>0, <1>13 DEF FileDeleteObject, FileDeleteToken, Restart, Rest
  <2>r. RowOfSave'
    BY <1>0, <1>13 DEF FileDeleteObject, FileDeleteToken, Restart, Rest
  <2>a. /\ UNCHANGED game_saves /\ pc'[r] \in {"idle", "fd_object", "fd_token"} /\ old'[r] = None
        /\ \A q \in Requests \ {r} :
             pc'[q] = pc[q] /\ old'[q] = old[q] /\ save'[q] = save[q] /\ file'[q] = file[q]
    BY <1>0, <1>13 DEF FileDeleteObject, FileDeleteToken, Restart, Rest
  <2>3. OldOfSave'
    BY <2>a
  <2>4. FileOfSave'
    BY <2>a
  <2>5. QED
    BY <2>1, <2>2, <2>r, <2>3, <2>4
<1>14. ASSUME NEW r \in Requests, SyncGiveUp(r)
       PROVE  FileInv'
  <2>1. OneSavePerFile'
    BY <1>0, <1>14 DEF SyncGiveUp, Abort, Restart, Rest, vars
  <2>2. SeenOfTarget'
    BY <1>0, <1>14 DEF SyncGiveUp, Abort, Restart, Rest, vars
  <2>r. RowOfSave'
    BY <1>0, <1>14 DEF SyncGiveUp, Abort, Restart, Rest, vars
  <2>3. OldOfSave'
    BY <1>0, <1>14 DEF SyncGiveUp, Abort, Restart, Rest, vars
  <2>4. FileOfSave'
    BY <1>0, <1>14 DEF SyncGiveUp, Abort, Restart, Rest, vars
  <2>5. QED
    BY <2>1, <2>2, <2>r, <2>3, <2>4
<1>15. ASSUME NEW r \in Requests, EditReadSave(r) \/ EditReadToken(r) \/ EditReadContent(r),
              UNCHANGED <<sync, leave>>
       PROVE  FileInv'
  <2>1. OneSavePerFile'
    BY <1>0, <1>15 DEF EditReadSave, EditReadToken, EditReadContent, LocalsReady
  <2>2. SeenOfTarget'
    BY <1>0, <1>15 DEF EditReadSave, EditReadToken, EditReadContent, LocalsReady
  <2>r. RowOfSave'
    BY <1>0, <1>15 DEF EditReadSave, EditReadToken, EditReadContent, LocalsReady
  <2>3. OldOfSave'
    BY <1>0, <1>15 DEF EditReadSave, EditReadToken, EditReadContent, LocalsReady
  <2>4. FileOfSave'
    BY <1>0, <1>15 DEF EditReadSave, EditReadToken, EditReadContent, LocalsReady
  <2>5. QED
    BY <2>1, <2>2, <2>r, <2>3, <2>4
<1>16. ASSUME NEW r \in Requests, EditPutToken(r), UNCHANGED <<sync, leave>>
       PROVE  FileInv'
  BY <1>0, <1>16 DEF EditPutToken, FreshFiles
<1>17. ASSUME NEW r \in Requests, EditPutObject(r), UNCHANGED <<sync, leave>>
       PROVE  FileInv'
  BY <1>0, <1>17 DEF EditPutObject
<1>18. ASSUME NEW r \in Requests, EditPutSave(r), UNCHANGED <<sync, leave>>
       PROVE  FileInv'
  BY <1>0, <1>18, SMTT(30) DEF EditPutSave, DraftsApart, Draft, LocalsReady
<1>19. ASSUME NEW r \in Requests, EditDeleteObject(r) \/ EditDeleteToken(r),
              UNCHANGED <<sync, leave>>
       PROVE  FileInv'
  BY <1>0, <1>19, SMTT(30) DEF EditDeleteObject, EditDeleteToken
<1>20. ASSUME NEW r \in Requests, DeleteUserNext(r), LeaveStep(r)
       PROVE  FileInv'
  <2>1. Head(ids[r]) \in SaveIds
    BY <1>0, <1>20, ListTypes DEF DeleteUserNext
  <2>2. UNCHANGED <<game_saves, sync>>
    BY <1>20 DEF DeleteUserNext, LeaveStep
  <2>3. OneSavePerFile'
    BY <2>2
  <2>4. SeenOfTarget'
    BY <2>2
  <2>r. RowOfSave'
    BY <2>2
  <2>5. OldOfSave'
    BY <1>0, <1>20, <2>1, SMTT(30) DEF DeleteUserNext, LeaveStep
  <2>6. FileOfSave'
    BY <1>0, <1>20, <2>1, SMTT(30) DEF DeleteUserNext, LeaveStep
  <2>7. QED
    BY <2>3, <2>4, <2>r, <2>5, <2>6
<1>21. ASSUME NEW r \in Requests,
              DeleteUserFileLookup(r) \/ DeleteUserObject(r) \/ DeleteUserToken(r),
              LeaveStep(r)
       PROVE  FileInv'
  <2>1. OneSavePerFile'
    BY <1>0, <1>21
     DEF DeleteUserFileLookup, DeleteUserObject, DeleteUserToken, LeaveStep, Restart, Rest
  <2>2. SeenOfTarget'
    BY <1>0, <1>21
     DEF DeleteUserFileLookup, DeleteUserObject, DeleteUserToken, LeaveStep, Restart, Rest
  <2>r. RowOfSave'
    BY <1>0, <1>21
     DEF DeleteUserFileLookup, DeleteUserObject, DeleteUserToken, LeaveStep, Restart, Rest
  <2>3. OldOfSave'
    BY <1>0, <1>21
     DEF DeleteUserFileLookup, DeleteUserObject, DeleteUserToken, LeaveStep, Restart, Rest
  <2>4. FileOfSave'
    BY <1>0, <1>21
     DEF DeleteUserFileLookup, DeleteUserObject, DeleteUserToken, LeaveStep, Restart, Rest
  <2>5. QED
    BY <2>1, <2>2, <2>r, <2>3, <2>4
<1>22. ASSUME NEW r \in Requests, DeleteUserSave(r), LeaveStep(r)
       PROVE  FileInv'
  <2>1. OneSavePerFile'
    BY <1>0, <1>22 DEF DeleteUserSave, LeaveStep, LocalsReady
  <2>2. SeenOfTarget'
    BY <1>0, <1>22 DEF DeleteUserSave, LeaveStep, LocalsReady
  <2>r. RowOfSave'
    BY <1>0, <1>22 DEF DeleteUserSave, LeaveStep, LocalsReady
  <2>3. OldOfSave'
    BY <1>0, <1>22 DEF DeleteUserSave, LeaveStep, LocalsReady
  <2>4. FileOfSave'
    BY <1>0, <1>22 DEF DeleteUserSave, LeaveStep, LocalsReady
  <2>5. QED
    BY <2>1, <2>2, <2>r, <2>3, <2>4
<1>23. ASSUME NEW r \in Requests, DeleteUserList(r), LeaveStep(r)
       PROVE  FileInv'
  BY <1>0, <1>23 DEF DeleteUserList, LeaveStep
<1>24. ASSUME NEW r \in Requests, LeaveSession(r)
       PROVE  FileInv'
  BY <1>0, <1>24 DEF LeaveSession, At, Restart, Rest, vars
<1>25. CASE UNCHANGED svars
  BY <1>0, <1>25 DEF svars, vars
<1> HIDE DEF TypeOK, SyncTypeOK, JobInv, FileInv
<1>26. QED
  BY <1>0, <1>1, <1>2, <1>3, <1>4, <1>5, <1>6, <1>7, <1>8, <1>9, <1>10, <1>11, <1>12, <1>13, <1>14,
     <1>15, <1>16, <1>17, <1>18, <1>19, <1>20, <1>21, <1>22, <1>23, <1>24, <1>25
     DEF SNext, ReadCall, Refused, Edit, DeleteUser, LeaveStep, SyncUpload, SyncPoint, SyncDiscard

-----------------------------------------------------------------------------
(* Deletes of users.  A delete removes only saves that were listed when it  *)
(* began and are no longer kept since; whatever is listed and kept has its  *)
(* row, and a save that is being created is not listed yet.                 *)

ListedKept ==
  \A u \in Users, s \in SaveIds :
    s \in ToSet(game_saves_by_user[u]) /\ Kept(s) => Has(game_saves, s)

CopiedKept ==
  \A r \in Requests, s \in SaveIds :
    Copied(r) /\ s \in ToSet(ids[r]) /\ Kept(s) => Has(game_saves, s)

ReadKept ==
  \A r \in Requests, s \in SaveIds :
    s \in ToSet(left[r]) /\ Kept(s) => Has(game_saves, s)

CreatedKept ==
  \A r \in Requests :
    /\ pc[r] \in Creating => Kept(save[r])
    /\ pc[r] \in {"gc_list", "gc_push"} => Has(game_saves, save[r])

DeletedNotKept ==
  \A r \in Requests :
    /\ pc[r] \in Deleting => \A s \in SaveIds : s \in ToSet(ids[r]) => ~Kept(s)
    /\ pc[r] \in {"du_lookup", "du_object", "du_token", "du_save"} => ~Kept(save[r])

KeptInv == ListedKept /\ CopiedKept /\ ReadKept /\ CreatedKept /\ DeletedNotKept

LEMMA KeptSame == ASSUME UNCHANGED leaving PROVE \A s : Kept(s)' <=> Kept(s)
  BY DEF Kept

LEMMA KeptInit == SInit => KeptInv
  BY NoSavesType DEF SInit, Init, KeptInv, ListedKept, CopiedKept, ReadKept, CreatedKept,
       DeletedNotKept,
                      Copied, Creating, Deleting

LEMMA KeptStep == BaseInv /\ ListInv /\ KeptInv /\ [SNext]_svars => KeptInv'
<1> SUFFICES ASSUME BaseInv, ListInv, KeptInv, [SNext]_svars PROVE KeptInv'
  OBVIOUS
<1>0. TypeOK /\ LocalsReady /\ SyncTypeOK /\ JobInv
  BY DEF BaseInv, TypeInv
<1> USE DEF Creating, Editing, Deleting, KeptInv, ListedKept, CopiedKept, ReadKept, CreatedKept,
            DeletedNotKept, Copied,
            TypeOK, SyncTypeOK, JobInv, Stages, ReadStages, RowStages, LocalsReady,
            files, saves, local, sync, reads, leave, Goto, SetLocals, Begin, Finish
<1>1. ASSUME NEW r \in Requests, ReadCall(r)
      PROVE  KeptInv'
  <2>1. ReadEffect(r)
    BY <1>1, ReadCalls
  <2>2. \A s : Kept(s)' <=> Kept(s)
    BY <2>1, KeptSame DEF ReadEffect
  <2>3. UNCHANGED <<game_saves, game_saves_by_user, pc, save, ids>>
    BY <2>1 DEF ReadEffect, vars
  <2>4. ListedKept' /\ CopiedKept' /\ CreatedKept' /\ DeletedNotKept'
    BY <1>0, <2>2, <2>3
  <2>5. ReadKept'
    <3>1. \A q \in Requests \ {r} : left'[q] = left[q]
      BY <2>1 DEF ReadEffect, Alone
    <3>2. CASE Fails(r)
      BY <2>2, <2>3, <3>1, <3>2, NoSavesType DEF Fails
    <3>3. CASE Proceeds(r)
      <4>1. \/ ToSet(left'[r]) \subseteq ToSet(left[r])
            \/ \E u \in Users : ToSet(left'[r]) \subseteq ToSet(game_saves_by_user[u])
        BY <3>3 DEF Proceeds, IdsOf
      <4>2. QED
        BY <2>2, <2>3, <3>1, <4>1
    <3>4. QED
      BY <2>1, <3>2, <3>3 DEF ReadEffect
  <2>6. QED
    BY <2>4, <2>5
<1>2. ASSUME NEW r \in Requests, NEW u \in Users, EditBegin(r, u)
      PROVE  KeptInv'
  BY <1>0, NoSavesType, <1>2, KeptSame DEF EditBegin, EditLookup, At, Disturb, Rejected, vars
<1>3. ASSUME NEW r \in Requests, NEW u \in Users, LeaveBegin(r, u)
      PROVE  KeptInv'
  <2>1. ASSUME NEW s \in SaveIds PROVE Kept(s)' => Kept(s)
    BY <1>0, <1>3, <2>1 DEF LeaveBegin, Kept
  <2>2. ASSUME NEW s \in SaveIds, s \in ToSet(game_saves_by_user[u]), Has(game_saves, s) PROVE ~Kept(s)'
    <3>1. s \in Listing(u) /\ game_saves[s] \in Files
      BY <1>0, <2>2 DEF Listing
    <3>2. <<s, game_saves[s]>> \in leaving'[u]
      BY <1>0, <1>3, <3>1 DEF LeaveBegin
    <3>3. QED
      BY <3>1, <3>2 DEF Kept
  <2>3. ASSUME NEW s \in SaveIds, Kept(s), s \notin ToSet(game_saves_by_user[u]) PROVE Kept(s)'
    BY <1>0, <1>3, <2>3 DEF LeaveBegin, Kept, Listing
  <2>4. /\ pc[r] = "idle" /\ pc' = [pc EXCEPT ![r] = "du_next"]
        /\ ids' = [ids EXCEPT ![r] = game_saves_by_user[u]]
        /\ save' = [save EXCEPT ![r] = None]
        /\ UNCHANGED <<game_saves, game_saves_by_user>>
    BY <1>3 DEF LeaveBegin, DeleteUserLookup, At
  <2>5. ListedKept' /\ CopiedKept'
    BY <1>0, <2>1, <2>4
  <2>r. ReadKept'
    BY <1>0, <1>3, <2>1, <2>4, NoSavesType DEF LeaveBegin, Restart
  <2>6. CreatedKept'
    BY <1>0, <2>3, <2>4 DEF ListInv
  <2>7. DeletedNotKept'
    BY <1>0, <2>1, <2>2, <2>4
  <2>8. QED
    BY <2>5, <2>r, <2>6, <2>7
<1>4. ASSUME NEW r \in Requests, SyncToken(r)
      PROVE  KeptInv'
  <2>1. UNCHANGED <<game_saves, game_saves_by_user, pc, ids, save, left, leaving>>
    BY <1>4 DEF SyncToken, CreateToken
  <2>2. QED
    BY <2>1, KeptSame
<1>5. ASSUME NEW r \in Requests, At(r, "upload"), UploadLookup(r, mine[r]),
             UNCHANGED <<sync, leave>>
      PROVE  KeptInv'
  <2>1. /\ UNCHANGED <<game_saves, game_saves_by_user, left, leaving>>
        /\ \A q \in Requests :
             pc'[q] = "up_object" \/ (pc'[q] = pc[q] /\ ids'[q] = ids[q] /\ save'[q] = save[q])
    <3> HIDE DEF KeptInv, JobInv, LocalsReady
    <3>1. CASE UNCHANGED vars
      BY <1>5, <3>1 DEF vars
    <3>2. CASE ~UNCHANGED vars
      BY <1>0, <1>5, <3>2 DEF UploadLookup, Rejected
    <3>3. QED
      BY <3>1, <3>2
  <2>2. QED
    BY <2>1, KeptSame
<1>6. ASSUME NEW r \in Requests, UploadWrite(r), Go(r, "point"), UNCHANGED leave
      PROVE  KeptInv'
  BY <1>0, NoSavesType, <1>6, KeptSame DEF UploadWrite, Go
<1>7. ASSUME NEW r \in Requests, At(r, "point"), target[r] # None,
             UpdateLookup(r, target[r], mine[r]), UNCHANGED <<sync, leave>>
      PROVE  KeptInv'
  BY <1>0, NoSavesType, <1>7, KeptSame DEF UpdateLookup, At, Rejected, vars
<1>8. ASSUME NEW r \in Requests, At(r, "point"), target[r] = None,
             CreateLookup(r, player[r], mine[r]), UNCHANGED <<sync, leave>>
      PROVE  KeptInv'
  <2>1. \A s \in SaveIds : s \notin drawn => Kept(s)
    BY DEF BaseInv, Remembered, Kept
  <2>2. QED
    <3>1. CASE UNCHANGED vars
      BY <1>8, <3>1, KeptSame DEF vars
    <3>2. CASE ~UNCHANGED vars
      <4>1. /\ UNCHANGED <<game_saves, game_saves_by_user, left, leaving>>
            /\ pc'[r] = "gc_save" /\ save'[r] \in SaveIds \ drawn
            /\ \A q \in Requests \ {r} : pc'[q] = pc[q] /\ ids'[q] = ids[q] /\ save'[q] = save[q]
        BY <1>0, <1>8, <3>2 DEF CreateLookup, FreshSaveIds, Rejected
      <4>2. \A t \in SaveIds : Kept(t)' <=> Kept(t)
        BY <4>1, KeptSame
      <4>3. ListedKept' /\ ReadKept'
        BY <4>1, <4>2
      <4>4. CopiedKept' /\ CreatedKept'
        BY <1>0, <2>1, <4>1, <4>2
      <4>5. DeletedNotKept'
        BY <1>0, <4>1, <4>2
      <4>6. QED
        BY <4>3, <4>4, <4>5
    <3>3. QED
      BY <3>1, <3>2
<1>9. ASSUME NEW r \in Requests, CreatePutSave(r) \/ CreateReadList(r),
             UNCHANGED <<sync, leave>>
      PROVE  KeptInv'
  <2>1. ListedKept'
    BY <1>0, <1>9, NoSavesType, KeptSame DEF CreatePutSave, CreateReadList
  <2>2. CopiedKept'
    BY <1>0, <1>9, NoSavesType, KeptSame DEF CreatePutSave, CreateReadList
  <2>r. ReadKept'
    BY <1>0, <1>9, NoSavesType, KeptSame DEF CreatePutSave, CreateReadList
  <2>3. CreatedKept'
    BY <1>0, <1>9, NoSavesType, KeptSame DEF CreatePutSave, CreateReadList
  <2>4. DeletedNotKept'
    BY <1>0, <1>9, NoSavesType, KeptSame DEF CreatePutSave, CreateReadList
  <2>5. QED
    BY <2>1, <2>2, <2>r, <2>3, <2>4
<1>10. ASSUME NEW r \in Requests, UpdatePutSave(r), Go(r, "discard"), UNCHANGED leave
       PROVE  KeptInv'
  BY <1>0, NoSavesType, <1>10, KeptSame DEF UpdatePutSave, Go
<1>11. ASSUME NEW r \in Requests, CreatePutList(r), Go(r, "discard"), UNCHANGED leave
       PROVE  KeptInv'
  BY <1>0, NoSavesType, <1>11, KeptSame, ToSetAppend DEF CreatePutList, Go
<1>12. ASSUME NEW r \in Requests, At(r, "discard"), seen[r] # None, FileDeleteLookup(r,
              seen[r]),
              IF pc'[r] = "idle" THEN Rest(r) ELSE UNCHANGED sync,
              UNCHANGED leave
       PROVE  KeptInv'
  <2>1. ListedKept'
    BY <1>0, <1>12, NoSavesType, KeptSame DEF FileDeleteLookup, At, Restart, Rest, Rejected, vars
  <2>2. CopiedKept'
    BY <1>0, <1>12, NoSavesType, KeptSame DEF FileDeleteLookup, At, Restart, Rest, Rejected, vars
  <2>r. ReadKept'
    BY <1>0, <1>12, NoSavesType, KeptSame DEF FileDeleteLookup, At, Restart, Rest, Rejected, vars
  <2>3. CreatedKept'
    BY <1>0, <1>12, NoSavesType, KeptSame DEF FileDeleteLookup, At, Restart, Rest, Rejected, vars
  <2>4. DeletedNotKept'
    BY <1>0, <1>12, NoSavesType, KeptSame DEF FileDeleteLookup, At, Restart, Rest, Rejected, vars
  <2>5. QED
    BY <2>1, <2>2, <2>r, <2>3, <2>4
<1>13. ASSUME NEW r \in Requests, FileDeleteObject(r) \/ FileDeleteToken(r),
              IF pc'[r] = "idle" THEN Rest(r) ELSE UNCHANGED sync,
              UNCHANGED leave
       PROVE  KeptInv'
  <2>1. ListedKept'
    BY <1>0, <1>13, NoSavesType, KeptSame DEF FileDeleteObject, FileDeleteToken, Restart, Rest
  <2>2. CopiedKept'
    BY <1>0, <1>13, NoSavesType, KeptSame DEF FileDeleteObject, FileDeleteToken, Restart, Rest
  <2>r. ReadKept'
    BY <1>0, <1>13, NoSavesType, KeptSame DEF FileDeleteObject, FileDeleteToken, Restart, Rest
  <2>3. CreatedKept'
    BY <1>0, <1>13, NoSavesType, KeptSame DEF FileDeleteObject, FileDeleteToken, Restart, Rest
  <2>4. DeletedNotKept'
    BY <1>0, <1>13, NoSavesType, KeptSame DEF FileDeleteObject, FileDeleteToken, Restart, Rest
  <2>5. QED
    BY <2>1, <2>2, <2>r, <2>3, <2>4
<1>14. ASSUME NEW r \in Requests, SyncGiveUp(r)
       PROVE  KeptInv'
  <2>1. ListedKept'
    BY <1>0, <1>14, NoSavesType, KeptSame DEF SyncGiveUp, Abort, Restart, Rest, vars
  <2>2. CopiedKept'
    BY <1>0, <1>14, NoSavesType, KeptSame DEF SyncGiveUp, Abort, Restart, Rest, vars
  <2>r. ReadKept'
    BY <1>0, <1>14, NoSavesType, KeptSame DEF SyncGiveUp, Abort, Restart, Rest, vars
  <2>3. CreatedKept'
    BY <1>0, <1>14, NoSavesType, KeptSame DEF SyncGiveUp, Abort, Restart, Rest, vars
  <2>4. DeletedNotKept'
    BY <1>0, <1>14, NoSavesType, KeptSame DEF SyncGiveUp, Abort, Restart, Rest, vars
  <2>5. QED
    BY <2>1, <2>2, <2>r, <2>3, <2>4
<1>15. ASSUME NEW r \in Requests, EditReadSave(r) \/ EditReadToken(r) \/ EditReadContent(r),
              UNCHANGED <<sync, leave>>
       PROVE  KeptInv'
  <2>1. ListedKept'
    BY <1>0, <1>15, NoSavesType, KeptSame DEF EditReadSave, EditReadToken, EditReadContent
  <2>2. CopiedKept'
    BY <1>0, <1>15, NoSavesType, KeptSame DEF EditReadSave, EditReadToken, EditReadContent
  <2>r. ReadKept'
    BY <1>0, <1>15, NoSavesType, KeptSame DEF EditReadSave, EditReadToken, EditReadContent
  <2>3. CreatedKept'
    BY <1>0, <1>15, NoSavesType, KeptSame DEF EditReadSave, EditReadToken, EditReadContent
  <2>4. DeletedNotKept'
    BY <1>0, <1>15, NoSavesType, KeptSame DEF EditReadSave, EditReadToken, EditReadContent
  <2>5. QED
    BY <2>1, <2>2, <2>r, <2>3, <2>4
<1>16. ASSUME NEW r \in Requests, EditPutToken(r), UNCHANGED <<sync, leave>>
       PROVE  KeptInv'
  BY <1>0, NoSavesType, <1>16, KeptSame DEF EditPutToken, FreshFiles
<1>17. ASSUME NEW r \in Requests, EditPutObject(r), UNCHANGED <<sync, leave>>
       PROVE  KeptInv'
  BY <1>0, NoSavesType, <1>17, KeptSame DEF EditPutObject
<1>18. ASSUME NEW r \in Requests, EditPutSave(r), UNCHANGED <<sync, leave>>
       PROVE  KeptInv'
  BY <1>0, NoSavesType, <1>18, KeptSame DEF EditPutSave
<1>19. ASSUME NEW r \in Requests, EditDeleteObject(r) \/ EditDeleteToken(r),
              UNCHANGED <<sync, leave>>
       PROVE  KeptInv'
  BY <1>0, NoSavesType, <1>19, KeptSame DEF EditDeleteObject, EditDeleteToken
<1>20. ASSUME NEW r \in Requests, DeleteUserNext(r), LeaveStep(r)
       PROVE  KeptInv'
  BY <1>0, NoSavesType, <1>20, KeptSame, ListTypes, ToSetTail DEF DeleteUserNext, LeaveStep
<1>21. ASSUME NEW r \in Requests,
              DeleteUserFileLookup(r) \/ DeleteUserObject(r) \/ DeleteUserToken(r),
              LeaveStep(r)
       PROVE  KeptInv'
  <2>1. ListedKept'
    BY <1>0, <1>21, NoSavesType, KeptSame
     DEF DeleteUserFileLookup, DeleteUserObject, DeleteUserToken, LeaveStep, Restart, Rest
  <2>2. CopiedKept'
    BY <1>0, <1>21, NoSavesType, KeptSame
     DEF DeleteUserFileLookup, DeleteUserObject, DeleteUserToken, LeaveStep, Restart, Rest
  <2>r. ReadKept'
    BY <1>0, <1>21, NoSavesType, KeptSame
     DEF DeleteUserFileLookup, DeleteUserObject, DeleteUserToken, LeaveStep, Restart, Rest
  <2>3. CreatedKept'
    BY <1>0, <1>21, NoSavesType, KeptSame
     DEF DeleteUserFileLookup, DeleteUserObject, DeleteUserToken, LeaveStep, Restart, Rest
  <2>4. DeletedNotKept'
    BY <1>0, <1>21, NoSavesType, KeptSame
     DEF DeleteUserFileLookup, DeleteUserObject, DeleteUserToken, LeaveStep, Restart, Rest
  <2>5. QED
    BY <2>1, <2>2, <2>r, <2>3, <2>4
<1>22. ASSUME NEW r \in Requests, DeleteUserSave(r), LeaveStep(r)
       PROVE  KeptInv'
  <2>1. Tail(ids[r]) \in Lists /\ ToSet(Tail(ids[r])) \subseteq ToSet(ids[r])
    BY <1>0, <1>22, ListTypes, ToSetTail DEF DeleteUserSave
  <2>2. QED
    <3>1. ListedKept'
      BY <1>0, <1>22, <2>1, KeptSame DEF DeleteUserSave, LeaveStep
    <3>2. CopiedKept'
      BY <1>0, <1>22, <2>1, KeptSame DEF DeleteUserSave, LeaveStep
    <3>3. ReadKept'
      BY <1>0, <1>22, <2>1, KeptSame DEF DeleteUserSave, LeaveStep
    <3>4. CreatedKept'
      BY <1>0, <1>22, <2>1, KeptSame DEF DeleteUserSave, LeaveStep
    <3>5. DeletedNotKept'
      BY <1>0, <1>22, <2>1, KeptSame DEF DeleteUserSave, LeaveStep
    <3>6. QED
      BY <3>1, <3>2, <3>3, <3>4, <3>5
<1>23. ASSUME NEW r \in Requests, DeleteUserList(r), LeaveStep(r)
       PROVE  KeptInv'
  BY <1>0, NoSavesType, <1>23, KeptSame DEF DeleteUserList, LeaveStep
<1>24. ASSUME NEW r \in Requests, LeaveSession(r)
       PROVE  KeptInv'
  <2>1. ListedKept'
    BY <1>0, <1>24, NoSavesType, KeptSame DEF LeaveSession, At, Restart, Rest, vars
  <2>2. CopiedKept'
    BY <1>0, <1>24, NoSavesType, KeptSame DEF LeaveSession, At, Restart, Rest, vars
  <2>r. ReadKept'
    BY <1>0, <1>24, NoSavesType, KeptSame DEF LeaveSession, At, Restart, Rest, vars
  <2>3. CreatedKept'
    BY <1>0, <1>24, NoSavesType, KeptSame DEF LeaveSession, At, Restart, Rest, vars
  <2>4. DeletedNotKept'
    BY <1>0, <1>24, NoSavesType, KeptSame DEF LeaveSession, At, Restart, Rest, vars
  <2>5. QED
    BY <2>1, <2>2, <2>r, <2>3, <2>4
<1>25. CASE UNCHANGED svars
  BY <1>0, NoSavesType, <1>25, KeptSame DEF svars, vars
<1> HIDE DEF TypeOK, SyncTypeOK, JobInv, KeptInv, LocalsReady
<1>26. QED
  BY <1>0, NoSavesType, <1>1, <1>2, <1>3, <1>4, <1>5, <1>6, <1>7, <1>8, <1>9, <1>10, <1>11, <1>12, <1>13, <1>14,
     <1>15, <1>16, <1>17, <1>18, <1>19, <1>20, <1>21, <1>22, <1>23, <1>24, <1>25
     DEF SNext, ReadCall, Refused, Edit, DeleteUser, LeaveStep, SyncUpload, SyncPoint, SyncDiscard

-----------------------------------------------------------------------------
(* Together.                                                                *)

SaveInv == BaseInv /\ ListInv /\ DraftInv /\ FileInv /\ KeptInv

LEMMA SaveInit == SInit => SaveInv
  BY BaseInit, ListInit, DraftInit, FileInit, KeptInit DEF SInit, SaveInv

LEMMA SaveStep == SaveInv /\ [SNext]_svars => SaveInv'
  BY BaseStep, SyncIsCalls, ListStep, ApartStep, WrittenStep, FileStep, KeptStep
     DEF SaveInv, BaseInv, DraftInv

(* A save loses token or object only when its user is deleted: what a       *)
(* device discards or an editor replaces is the file of no save any more,   *)
(* and a save is only ever pointed at a draft, written by then.             *)
LEMMA LoadableStep == SaveInv /\ SavesStayLoadable /\ [SNext]_svars => SavesStayLoadable'
<1> SUFFICES ASSUME SaveInv, SavesStayLoadable, [SNext]_svars PROVE SavesStayLoadable'
  OBVIOUS
<1>0. /\ TypeOK /\ LocalsReady /\ SyncTypeOK /\ JobInv /\ DraftsApart /\ DraftsWritten
      /\ SeenOfTarget /\ OldOfSave /\ FileOfSave /\ DeletedNotKept
  BY DEF SaveInv, BaseInv, TypeInv, DraftInv, FileInv, KeptInv
<1> USE DEF Creating, Editing, Deleting, SavesStayLoadable, Loadable,
            TypeOK, SyncTypeOK, JobInv, Stages, ReadStages, RowStages, LocalsReady,
            files, saves, local, sync, reads, leave, Goto, SetLocals, Begin, Finish
<1>1. ASSUME NEW r \in Requests, ReadCall(r)
      PROVE  SavesStayLoadable'
  <2>1. UNCHANGED <<vars, leaving>>
    BY <1>1, ReadCalls DEF ReadEffect, SaveInv
  <2>2. QED
    BY <1>0, <2>1, KeptSame DEF vars
<1>2. ASSUME NEW r \in Requests, NEW u \in Users, EditBegin(r, u)
      PROVE  SavesStayLoadable'
  BY <1>0, <1>2, KeptSame DEF EditBegin, EditLookup, At, Disturb, Rejected, vars
<1>3. ASSUME NEW r \in Requests, NEW u \in Users, LeaveBegin(r, u)
      PROVE  SavesStayLoadable'
  <2>1. ASSUME NEW s \in SaveIds, Kept(s)' PROVE Kept(s)
    BY <1>0, <1>3, <2>1 DEF LeaveBegin, Kept
  <2>2. QED
    BY <1>0, <1>3, <2>1 DEF LeaveBegin, DeleteUserLookup
<1>4. ASSUME NEW r \in Requests, SyncToken(r)
      PROVE  SavesStayLoadable'
  BY <1>0, <1>4, KeptSame DEF SyncToken, CreateToken, FreshFiles, At
<1>5. ASSUME NEW r \in Requests, At(r, "upload"), UploadLookup(r, mine[r]),
             UNCHANGED <<sync, leave>>
      PROVE  SavesStayLoadable'
  BY <1>0, <1>5, KeptSame DEF UploadLookup, At, Rejected, vars
<1>6. ASSUME NEW r \in Requests, UploadWrite(r), Go(r, "point"), UNCHANGED leave
      PROVE  SavesStayLoadable'
  BY <1>0, <1>6, KeptSame DEF UploadWrite, Go
<1>7. ASSUME NEW r \in Requests, At(r, "point"), target[r] # None,
             UpdateLookup(r, target[r], mine[r]), UNCHANGED <<sync, leave>>
      PROVE  SavesStayLoadable'
  BY <1>0, <1>7, KeptSame DEF UpdateLookup, At, Rejected, vars
<1>8. ASSUME NEW r \in Requests, At(r, "point"), target[r] = None,
             CreateLookup(r, player[r], mine[r]), UNCHANGED <<sync, leave>>
      PROVE  SavesStayLoadable'
  BY <1>0, <1>8, KeptSame DEF CreateLookup, FreshSaveIds, At, Rejected, vars
<1>9. ASSUME NEW r \in Requests, CreatePutSave(r) \/ CreateReadList(r),
             UNCHANGED <<sync, leave>>
      PROVE  SavesStayLoadable'
  BY <1>0, <1>9, KeptSame DEF CreatePutSave, CreateReadList, Draft, DraftsWritten
<1>10. ASSUME NEW r \in Requests, UpdatePutSave(r), Go(r, "discard"), UNCHANGED leave
       PROVE  SavesStayLoadable'
  BY <1>0, <1>10, KeptSame DEF UpdatePutSave, Go, Draft, DraftsWritten
<1>11. ASSUME NEW r \in Requests, CreatePutList(r), Go(r, "discard"), UNCHANGED leave
       PROVE  SavesStayLoadable'
  BY <1>0, <1>11, KeptSame DEF CreatePutList, Go
<1>12. ASSUME NEW r \in Requests, At(r, "discard"), seen[r] # None, FileDeleteLookup(r,
              seen[r]),
              IF pc'[r] = "idle" THEN Rest(r) ELSE UNCHANGED sync,
              UNCHANGED leave
       PROVE  SavesStayLoadable'
  BY <1>0, <1>12, KeptSame DEF FileDeleteLookup, At, Restart, Rest, Rejected, vars
<1>13. ASSUME NEW r \in Requests, FileDeleteObject(r) \/ FileDeleteToken(r),
              IF pc'[r] = "idle" THEN Rest(r) ELSE UNCHANGED sync,
              UNCHANGED leave
       PROVE  SavesStayLoadable'
  BY <1>0, <1>13, KeptSame DEF FileDeleteObject, FileDeleteToken, Restart, Rest, SeenOfTarget
<1>14. ASSUME NEW r \in Requests, SyncGiveUp(r)
       PROVE  SavesStayLoadable'
  BY <1>0, <1>14, KeptSame DEF SyncGiveUp, Abort, Restart, Rest, vars
<1>15. ASSUME NEW r \in Requests, EditReadSave(r) \/ EditReadToken(r) \/ EditReadContent(r),
              UNCHANGED <<sync, leave>>
       PROVE  SavesStayLoadable'
  BY <1>0, <1>15, KeptSame DEF EditReadSave, EditReadToken, EditReadContent
<1>16. ASSUME NEW r \in Requests, EditPutToken(r), UNCHANGED <<sync, leave>>
       PROVE  SavesStayLoadable'
  BY <1>0, <1>16, KeptSame DEF EditPutToken, FreshFiles
<1>17. ASSUME NEW r \in Requests, EditPutObject(r), UNCHANGED <<sync, leave>>
       PROVE  SavesStayLoadable'
  BY <1>0, <1>17, KeptSame DEF EditPutObject
<1>18. ASSUME NEW r \in Requests, EditPutSave(r), UNCHANGED <<sync, leave>>
       PROVE  SavesStayLoadable'
  BY <1>0, <1>18, KeptSame DEF EditPutSave, Draft, DraftsWritten
<1>19. ASSUME NEW r \in Requests, EditDeleteObject(r) \/ EditDeleteToken(r),
              UNCHANGED <<sync, leave>>
       PROVE  SavesStayLoadable'
  BY <1>0, <1>19, KeptSame DEF EditDeleteObject, EditDeleteToken, OldOfSave
<1>20. ASSUME NEW r \in Requests, DeleteUserNext(r), LeaveStep(r)
       PROVE  SavesStayLoadable'
  BY <1>0, <1>20, KeptSame DEF DeleteUserNext, LeaveStep
<1>21. ASSUME NEW r \in Requests,
              DeleteUserFileLookup(r) \/ DeleteUserObject(r) \/ DeleteUserToken(r),
              LeaveStep(r)
       PROVE  SavesStayLoadable'
  BY <1>0, <1>21, KeptSame
     DEF DeleteUserFileLookup, DeleteUserObject, DeleteUserToken, LeaveStep, Restart, Rest,
         FileOfSave, DeletedNotKept
<1>22. ASSUME NEW r \in Requests, DeleteUserSave(r), LeaveStep(r)
       PROVE  SavesStayLoadable'
  BY <1>0, <1>22, KeptSame DEF DeleteUserSave, LeaveStep
<1>23. ASSUME NEW r \in Requests, DeleteUserList(r), LeaveStep(r)
       PROVE  SavesStayLoadable'
  BY <1>0, <1>23, KeptSame DEF DeleteUserList, LeaveStep
<1>24. ASSUME NEW r \in Requests, LeaveSession(r)
       PROVE  SavesStayLoadable'
  BY <1>0, <1>24, KeptSame DEF LeaveSession, At, Restart, Rest, vars
<1>25. CASE UNCHANGED svars
  BY <1>0, <1>25, KeptSame DEF svars, vars
<1> HIDE DEF TypeOK, SyncTypeOK, JobInv, LocalsReady, SavesStayLoadable
<1>26. QED
  BY <1>0, <1>1, <1>2, <1>3, <1>4, <1>5, <1>6, <1>7, <1>8, <1>9, <1>10, <1>11, <1>12, <1>13, <1>14,
     <1>15, <1>16, <1>17, <1>18, <1>19, <1>20, <1>21, <1>22, <1>23, <1>24, <1>25
     DEF SNext, ReadCall, Refused, Edit, DeleteUser, LeaveStep, SyncUpload, SyncPoint, SyncDiscard

(* Whatever devices and editors point the same save at new files and clean  *)
(* up after themselves or one another, a save nobody has set out to delete  *)
(* has a file with token and object.                                        *)
THEOREM SavesLoadable == SSpec => []SavesStayLoadable
<1>1. SInit => SavesStayLoadable
  BY DEF SInit, Init, SavesStayLoadable
<1>2. QED
  BY SaveInit, SaveStep, LoadableStep, <1>1, PTL DEF SSpec

-----------------------------------------------------------------------------
(* Reads.  A list, a get of the editor and a b30 card fail, or leave a save *)
(* out, only when somebody pointed the save at another file in between, or  *)
(* set out to delete it.                                                    *)
THEOREM ReadsCorrect == SSpec => []ReadsFailOnlyOvertaken
<1>1. SaveInv /\ SavesStayLoadable => ReadsFailOnlyOvertaken
  <2> SUFFICES ASSUME SaveInv, SavesStayLoadable,
                      NEW r \in Requests, stage[r] \in ReadStages, ~Overtaken(r)
               PROVE  /\ stage[r] \in RowStages => Has(game_saves, Head(left[r]))
                      /\ stage[r] \in {"list_token", "get_token"} => row[r] \in file_tokens
                      /\ stage[r] = "open_object" => row[r] \in objects
    BY DEF ReadsFailOnlyOvertaken
  <2> DEFINE s == Head(left[r])
  <2>1. left[r] \in Lists /\ left[r] # NoSaves
    BY DEF SaveInv, BaseInv, SyncTypeOK, JobInv
  <2>2. s \in SaveIds /\ s \in ToSet(left[r])
    BY <2>1, ListTypes, ToSetTail
  <2>3. Kept(s) /\ (row[r] # None => game_saves[s] = row[r])
    BY DEF Overtaken
  <2> HIDE DEF s
  <2>4. Has(game_saves, s) /\ Loadable(Get(game_saves, s))
    BY <2>2, <2>3 DEF SaveInv, KeptInv, ReadKept, SavesStayLoadable
  <2>5. stage[r] \notin RowStages => row[r] # None
    BY DEF SaveInv, BaseInv, JobInv
  <2>6. QED
    BY <2>3, <2>4, <2>5 DEF s, Loadable, RowStages
<1>2. SInit => SavesStayLoadable
  BY DEF SInit, Init, SavesStayLoadable
<1>3. QED
  BY SaveInit, SaveStep, LoadableStep, <1>1, <1>2, PTL DEF SSpec

-----------------------------------------------------------------------------
(* Versions.  What a step of SaveClients does to the versions of saves: one *)
(* lemma for each kind of step of SaveVersions.                             *)

Current == [s \in SaveIds |-> Content(s)]
Drawn == drawn \cap Files
Closing == {s \in SaveIds : ~Kept(s)}

VersionsStep == Abstract!Next \/ UNCHANGED Abstract!vars

LEMMA SaysNothing ==
  ASSUME Current' = Current, Drafts' = Drafts, Drawn' = Drawn, Closing' = Closing
  PROVE  VersionsStep
  BY DEF VersionsStep, Abstract!vars, Current, Drawn, Closing

LEMMA SaysDraft ==
  ASSUME NEW f \in Files, f \notin drawn, Drawn' = Drawn \cup {f},
         Drafts' = Drafts \cup {f}, Current' = Current, Closing' = Closing
  PROVE  VersionsStep
  BY DEF VersionsStep, Abstract!Next, Abstract!Draft, Current, Drawn, Closing

LEMMA SaysDiscard ==
  ASSUME NEW f \in Drafts, Drafts' = Drafts \ {f},
         Drawn' = Drawn, Current' = Current, Closing' = Closing
  PROVE  VersionsStep
  BY DEF VersionsStep, Abstract!Next, Abstract!Discard, Current, Drawn, Closing

LEMMA SaysStore ==
  ASSUME NEW s \in SaveIds, NEW f \in Drafts, Drafts' = Drafts \ {f},
         Current' = [Current EXCEPT ![s] = f], Drawn' = Drawn, Closing' = Closing
  PROVE  VersionsStep
  BY DEF VersionsStep, Abstract!Next, Abstract!Store, Current, Drawn, Closing

LEMMA SaysClose ==
  ASSUME Closing \subseteq Closing',
         Drafts' = Drafts, Drawn' = Drawn, Current' = Current
  PROVE  VersionsStep
  BY DEF VersionsStep, Abstract!Next, Abstract!Close, Current, Drawn, Closing

LEMMA SaysRemove ==
  ASSUME NEW s \in Closing, Current' = [Current EXCEPT ![s] = None],
         Drafts' = Drafts, Drawn' = Drawn, Closing' = Closing
  PROVE  VersionsStep
  BY DEF VersionsStep, Abstract!Next, Abstract!Remove, Current, Drawn, Closing

(* The drafts of SaveVersions, request by request.                          *)
LEMMA DraftsByRequest ==
  /\ BaseInv => /\ Drafts = {f \in Files : \E q \in Requests : Draft(q) = f}
                /\ \A q \in Requests : Draft(q) \in Files \cup {None}
  /\ BaseInv' => Drafts' = {f \in Files : \E q \in Requests : Draft(q)' = f}
<1>1. BaseInv => /\ Drafts = {f \in Files : \E q \in Requests : Draft(q) = f}
                 /\ \A q \in Requests : Draft(q) \in Files \cup {None}
  BY DEF BaseInv, TypeInv, TypeOK, SyncTypeOK, JobInv, Drafts, Draft, Creating, Editing
<1>2. BaseInv' => Drafts' = {f \in Files : \E q \in Requests : Draft(q)' = f}
  BY DEF BaseInv, TypeInv, TypeOK, SyncTypeOK, JobInv, Drafts, Draft, Creating, Editing
<1>3. QED
  BY <1>1, <1>2

LEMMA FileKeysApart == Files \cap SaveIds = {}
  BY GameSavesAssumption

LEMMA VersionsInit == SInit => Abstract!Init
<1> SUFFICES ASSUME SInit PROVE Abstract!Init
  OBVIOUS
<1>1. \A s \in SaveIds : Content(s) = None
  BY DEF SInit, Init, Content
<1>2. Drafts = {} /\ drawn \cap Files = {}
  BY DEF SInit, Init, Drafts
<1>3. \A s \in SaveIds : Kept(s)
  BY DEF SInit, Init, Kept
<1>4. QED
  BY <1>1, <1>2, <1>3 DEF Abstract!Init

(* Each call takes effect as one step on versions, or as none.              *)
LEMMA SaveImplements == SaveInv /\ [SNext]_svars => VersionsStep
<1> SUFFICES ASSUME SaveInv, [SNext]_svars PROVE VersionsStep
  OBVIOUS
<1> DEFINE SameDrafts == \A q \in Requests : Draft(q)' = Draft(q)
           SameContents == \A s \in SaveIds : Content(s)' = Content(s)
           Drops(r) == Draft(r) # None /\ \A q \in Requests :
                         Draft(q)' = IF q = r THEN None ELSE Draft(q)
<1>0. /\ TypeOK /\ LocalsReady /\ SyncTypeOK /\ JobInv /\ DraftsApart /\ DraftsWritten
      /\ SeenOfTarget /\ OldOfSave /\ FileOfSave /\ DeletedNotKept
  BY DEF SaveInv, BaseInv, TypeInv, DraftInv, FileInv, KeptInv
<1>a. BaseInv /\ BaseInv'
  BY BaseStep DEF SaveInv
<1>b. ASSUME SameDrafts PROVE Drafts' = Drafts
  BY <1>a, <1>b, DraftsByRequest
<1>c. ASSUME NEW r \in Requests, Drops(r)
      PROVE  Draft(r) \in Drafts /\ Drafts' = Drafts \ {Draft(r)}
  <2>1. \A q \in Requests \ {r} : Draft(q) # Draft(r)
    BY <1>0, <1>c DEF DraftsApart
  <2>2. QED
    BY <1>a, <1>c, <2>1, DraftsByRequest
<1>d. ASSUME SameContents PROVE Current' = Current
  BY <1>d DEF Current
<1>e. UNCHANGED leaving => Closing' = Closing
  BY DEF Closing, Kept
<1>f. UNCHANGED drawn => Drawn' = Drawn
  BY DEF Drawn
<1> HIDE DEF SameDrafts, SameContents, Drops
<1>g. ASSUME SameDrafts, SameContents, UNCHANGED leaving, Drawn' = Drawn PROVE VersionsStep
  BY <1>b, <1>d, <1>e, <1>g, SaysNothing
<1> USE DEF SameDrafts, SameContents, Creating, Editing, Deleting,
            TypeOK, SyncTypeOK, JobInv, Stages, ReadStages, RowStages,
            files, saves, local, sync, reads, leave, Goto, SetLocals, Begin, Finish
<1>1. ASSUME NEW r \in Requests, ReadCall(r)
      PROVE  VersionsStep
  <2>1. ReadEffect(r)
    BY <1>a, <1>1, ReadCalls
  <2>2. SameDrafts
    BY <1>0, <2>1 DEF ReadEffect, Fails, Proceeds, Alone, ReadStages, RowStages, vars, Draft
  <2>3. SameContents
    BY <2>1 DEF ReadEffect, vars, Content, Loadable
  <2>4. UNCHANGED leaving /\ UNCHANGED drawn
    BY <2>1 DEF ReadEffect, vars
  <2>5. QED
    BY <2>2, <2>3, <2>4, <1>f, <1>g
<1>2. ASSUME NEW r \in Requests, NEW u \in Users, EditBegin(r, u)
      PROVE  VersionsStep
  <2>1. SameDrafts
    BY <1>0, <1>2 DEF EditBegin, EditLookup, At, Disturb, Rejected, vars, Draft
  <2>2. SameContents
    BY <1>0, <1>2 DEF EditBegin, EditLookup, At, Disturb, Rejected, vars, Content, Loadable
  <2>3. UNCHANGED leaving /\ UNCHANGED drawn
    BY <1>2 DEF EditBegin, EditLookup, At, Disturb, Rejected, vars
  <2>4. QED
    BY <2>1, <2>2, <2>3, <1>f, <1>g
<1>3. ASSUME NEW r \in Requests, NEW u \in Users, LeaveBegin(r, u)
      PROVE  VersionsStep
  <2>1. SameDrafts
    BY <1>0, <1>3 DEF LeaveBegin, DeleteUserLookup, At, Restart, Draft
  <2>2. SameContents
    BY <1>3 DEF LeaveBegin, DeleteUserLookup, Content, Loadable
  <2>3. UNCHANGED drawn
    BY <1>3 DEF LeaveBegin, DeleteUserLookup
  <2>4. Closing \subseteq Closing'
    BY <1>0, <1>3 DEF LeaveBegin, Closing, Kept
  <2>5. QED
    BY <2>1, <2>2, <2>3, <2>4, <1>b, <1>d, <1>f, SaysClose
<1>4. ASSUME NEW r \in Requests, SyncToken(r)
      PROVE  VersionsStep
  <2>1. PICK f \in Files : /\ f \notin drawn
                           /\ drawn' = drawn \cup {f}
                           /\ file_tokens' = file_tokens \cup {f}
                           /\ mine' = [mine EXCEPT ![r] = f]
    BY <1>4 DEF SyncToken, CreateToken, FreshFiles, At
  <2>2. UNCHANGED <<objects, game_saves, leaving>>
    BY <1>4 DEF SyncToken, CreateToken, FreshFiles, At
  <2>3. Current' = Current
    <3>1. SameContents
      BY <1>0, <2>1, <2>2 DEF Content, Loadable, SaveInv, BaseInv, NamesDrawn
    <3>2. QED
      BY <3>1, <1>d
  <2>4. Drafts' = Drafts \cup {f}
    <3>1. Draft(r) = None /\ Draft(r)' = f /\ \A q \in Requests \ {r} : Draft(q)' = Draft(q)
      BY <1>0, <1>4, <2>1 DEF SyncToken, CreateToken, FreshFiles, At, Draft
    <3>2. QED
      BY <3>1, <1>a, <2>1, DraftsByRequest
  <2>5. Drawn' = Drawn \cup {f}
    BY <2>1 DEF Drawn
  <2>6. QED
    BY <2>1, <2>2, <2>3, <2>4, <2>5, <1>e, SaysDraft
<1>5. ASSUME NEW r \in Requests, At(r, "upload"), UploadLookup(r, mine[r]),
             UNCHANGED <<sync, leave>>
      PROVE  VersionsStep
  <2>1. SameDrafts
    BY <1>0, <1>5 DEF UploadLookup, At, Rejected, vars, Draft
  <2>2. SameContents
    BY <1>0, <1>5 DEF UploadLookup, At, Rejected, vars, Content, Loadable
  <2>3. UNCHANGED leaving /\ UNCHANGED drawn
    BY <1>5 DEF UploadLookup, At, Rejected, vars
  <2>4. QED
    BY <2>1, <2>2, <2>3, <1>f, <1>g
<1>6. ASSUME NEW r \in Requests, UploadWrite(r), Go(r, "point"), UNCHANGED leave
      PROVE  VersionsStep
  <2>1. SameDrafts
    BY <1>0, <1>6 DEF UploadWrite, Go, Draft
  <2>2. SameContents
    BY <1>0, <1>6 DEF UploadWrite, Go, Content, Loadable, DraftsApart, Draft
  <2>3. UNCHANGED leaving /\ UNCHANGED drawn
    BY <1>6 DEF UploadWrite, Go
  <2>4. QED
    BY <2>1, <2>2, <2>3, <1>f, <1>g
<1>7. ASSUME NEW r \in Requests, At(r, "point"), target[r] # None,
             UpdateLookup(r, target[r], mine[r]), UNCHANGED <<sync, leave>>
      PROVE  VersionsStep
  <2>1. SameDrafts
    BY <1>0, <1>7 DEF UpdateLookup, At, Rejected, vars, Draft
  <2>2. SameContents
    BY <1>0, <1>7 DEF UpdateLookup, At, Rejected, vars, Content, Loadable
  <2>3. UNCHANGED leaving /\ UNCHANGED drawn
    BY <1>7 DEF UpdateLookup, At, Rejected, vars
  <2>4. QED
    BY <2>1, <2>2, <2>3, <1>f, <1>g
<1>8. ASSUME NEW r \in Requests, At(r, "point"), target[r] = None,
             CreateLookup(r, player[r], mine[r]), UNCHANGED <<sync, leave>>
      PROVE  VersionsStep
  <2>1. SameDrafts
    BY <1>0, <1>8 DEF CreateLookup, FreshSaveIds, At, Rejected, vars, Draft
  <2>2. SameContents
    BY <1>0, <1>8 DEF CreateLookup, FreshSaveIds, At, Rejected, vars, Content, Loadable
  <2>3. UNCHANGED leaving /\ Drawn' = Drawn
    BY <1>8, FileKeysApart DEF CreateLookup, FreshSaveIds, At, Rejected, vars, Drawn
  <2>4. QED
    BY <2>1, <2>2, <2>3, <1>f, <1>g
<1>9. ASSUME NEW r \in Requests, CreatePutSave(r) \/ CreateReadList(r),
             UNCHANGED <<sync, leave>>
      PROVE  VersionsStep
  <2>1. CASE CreatePutSave(r)
    <3>1. save[r] \in SaveIds /\ file[r] \in Files /\ file[r] = Draft(r)
      BY <1>0, <1>9, <2>1 DEF CreatePutSave, LocalsReady, Draft
    <3>2. Drops(r)
      BY <1>0, <1>9, <2>1, <3>1 DEF CreatePutSave, Draft, Drops
    <3>3. Loadable(file[r])
      BY <1>0, <1>9, <2>1, <3>1 DEF CreatePutSave, DraftsWritten, Draft, Loadable
    <3>4. game_saves' = [game_saves EXCEPT ![save[r]] = file[r]]
          /\ UNCHANGED <<files, drawn, leaving>>
      BY <1>9, <2>1 DEF CreatePutSave
    <3>5. Current' = [Current EXCEPT ![save[r]] = file[r]]
      BY <1>0, <3>1, <3>3, <3>4 DEF Current, Content, Loadable
    <3>6. QED
      BY <3>1, <3>2, <3>4, <3>5, <1>c, <1>e, <1>f, SaysStore
  <2>2. CASE CreateReadList(r)
    <3>1. SameDrafts
      BY <1>0, <1>9, <2>2 DEF CreateReadList, Draft
    <3>2. SameContents
      BY <1>0, <1>9, <2>2 DEF CreateReadList, Content, Loadable
    <3>3. UNCHANGED leaving /\ UNCHANGED drawn
      BY <1>9, <2>2 DEF CreateReadList
    <3>4. QED
      BY <3>1, <3>2, <3>3, <1>f, <1>g
  <2>3. QED
    BY <1>9, <2>1, <2>2
<1>10. ASSUME NEW r \in Requests, UpdatePutSave(r), Go(r, "discard"), UNCHANGED leave
       PROVE  VersionsStep
  <2>1. save[r] \in SaveIds /\ file[r] \in Files /\ file[r] = Draft(r)
    BY <1>0, <1>10 DEF UpdatePutSave, Go, LocalsReady, Draft
  <2>2. Drops(r)
    BY <1>0, <1>10, <2>1 DEF UpdatePutSave, Go, Draft, Drops
  <2>3. Loadable(file[r])
    BY <1>0, <1>10, <2>1 DEF UpdatePutSave, Go, DraftsWritten, Draft, Loadable
  <2>4. game_saves' = [game_saves EXCEPT ![save[r]] = file[r]]
        /\ UNCHANGED <<files, drawn, leaving>>
    BY <1>10 DEF UpdatePutSave, Go
  <2>5. Current' = [Current EXCEPT ![save[r]] = file[r]]
    BY <1>0, <2>1, <2>3, <2>4 DEF Current, Content, Loadable
  <2>6. QED
    BY <2>1, <2>2, <2>4, <2>5, <1>c, <1>e, <1>f, SaysStore
<1>11. ASSUME NEW r \in Requests, CreatePutList(r), Go(r, "discard"), UNCHANGED leave
       PROVE  VersionsStep
  <2>1. SameDrafts
    BY <1>0, <1>11 DEF CreatePutList, Go, Draft
  <2>2. SameContents
    BY <1>0, <1>11 DEF CreatePutList, Go, Content, Loadable
  <2>3. UNCHANGED leaving /\ UNCHANGED drawn
    BY <1>11 DEF CreatePutList, Go
  <2>4. QED
    BY <2>1, <2>2, <2>3, <1>f, <1>g
<1>12. ASSUME NEW r \in Requests, At(r, "discard"), seen[r] # None, FileDeleteLookup(r,
              seen[r]),
              IF pc'[r] = "idle" THEN Rest(r) ELSE UNCHANGED sync,
              UNCHANGED leave
       PROVE  VersionsStep
  <2>1. SameDrafts
    BY <1>0, <1>12 DEF FileDeleteLookup, At, Restart, Rest, Rejected, vars, Draft
  <2>2. SameContents
    BY <1>0, <1>12 DEF FileDeleteLookup, At, Restart, Rest, Rejected, vars, Content, Loadable
  <2>3. UNCHANGED leaving /\ UNCHANGED drawn
    BY <1>12 DEF FileDeleteLookup, At, Restart, Rest, Rejected, vars
  <2>4. QED
    BY <2>1, <2>2, <2>3, <1>f, <1>g
<1>13. ASSUME NEW r \in Requests, FileDeleteObject(r) \/ FileDeleteToken(r),
              IF pc'[r] = "idle" THEN Rest(r) ELSE UNCHANGED sync,
              UNCHANGED leave
       PROVE  VersionsStep
  <2>1. SameDrafts
    BY <1>0, <1>13 DEF FileDeleteObject, FileDeleteToken, Restart, Rest, Draft
  <2>2. SameContents
    BY <1>0, <1>13
       DEF FileDeleteObject, FileDeleteToken, Restart, Rest, Content, Loadable, SeenOfTarget
  <2>3. UNCHANGED leaving /\ UNCHANGED drawn
    BY <1>13 DEF FileDeleteObject, FileDeleteToken, Restart, Rest
  <2>4. QED
    BY <2>1, <2>2, <2>3, <1>f, <1>g
<1>14. ASSUME NEW r \in Requests, SyncGiveUp(r)
       PROVE  VersionsStep
  <2>1. SameContents
    BY <1>0, <1>14 DEF SyncGiveUp, Abort, vars, Content, Loadable
  <2>2. UNCHANGED <<leaving, drawn>>
    BY <1>14 DEF SyncGiveUp, Abort, vars
  <2>3. \A q \in Requests : Draft(q)' = IF q = r THEN None ELSE Draft(q)
    BY <1>0, <1>14 DEF SyncGiveUp, Abort, Rest, Restart, vars, Draft
  <2>4. CASE Draft(r) = None
    <3>1. SameDrafts
      BY <2>3, <2>4
    <3>2. QED
      BY <3>1, <2>1, <2>2, <1>f, <1>g
  <2>5. CASE Draft(r) # None
    <3>1. Drops(r)
      BY <2>3, <2>5 DEF Drops
    <3>2. QED
      BY <3>1, <2>1, <2>2, <1>c, <1>d, <1>e, <1>f, SaysDiscard
  <2>6. QED
    BY <2>4, <2>5
<1>15. ASSUME NEW r \in Requests, EditReadSave(r) \/ EditReadToken(r) \/ EditReadContent(r),
              UNCHANGED <<sync, leave>>
       PROVE  VersionsStep
  <2>1. SameDrafts
    BY <1>0, <1>15 DEF EditReadSave, EditReadToken, EditReadContent, Draft
  <2>2. SameContents
    BY <1>0, <1>15 DEF EditReadSave, EditReadToken, EditReadContent, Content, Loadable
  <2>3. UNCHANGED leaving /\ UNCHANGED drawn
    BY <1>15 DEF EditReadSave, EditReadToken, EditReadContent
  <2>4. QED
    BY <2>1, <2>2, <2>3, <1>f, <1>g
<1>16. ASSUME NEW r \in Requests, EditPutToken(r), UNCHANGED <<sync, leave>>
       PROVE  VersionsStep
  <2>1. PICK f \in Files : /\ f \notin drawn
                           /\ drawn' = drawn \cup {f}
                           /\ file_tokens' = file_tokens \cup {f}
                           /\ file' = [file EXCEPT ![r] = f]
    BY <1>16 DEF EditPutToken, FreshFiles
  <2>2. UNCHANGED <<objects, game_saves, leaving>>
    BY <1>16 DEF EditPutToken, FreshFiles
  <2>3. Current' = Current
    <3>1. SameContents
      BY <1>0, <2>1, <2>2 DEF Content, Loadable, SaveInv, BaseInv, NamesDrawn
    <3>2. QED
      BY <3>1, <1>d
  <2>4. Drafts' = Drafts \cup {f}
    <3>1. Draft(r) = None /\ Draft(r)' = f /\ \A q \in Requests \ {r} : Draft(q)' = Draft(q)
      BY <1>0, <1>16, <2>1 DEF EditPutToken, FreshFiles, Draft
    <3>2. QED
      BY <3>1, <1>a, <2>1, DraftsByRequest
  <2>5. Drawn' = Drawn \cup {f}
    BY <2>1 DEF Drawn
  <2>6. QED
    BY <2>1, <2>2, <2>3, <2>4, <2>5, <1>e, SaysDraft
<1>17. ASSUME NEW r \in Requests, EditPutObject(r), UNCHANGED <<sync, leave>>
       PROVE  VersionsStep
  <2>1. SameDrafts
    BY <1>0, <1>17 DEF EditPutObject, Draft
  <2>2. SameContents
    BY <1>0, <1>17 DEF EditPutObject, Content, Loadable, DraftsApart, Draft
  <2>3. UNCHANGED leaving /\ UNCHANGED drawn
    BY <1>17 DEF EditPutObject
  <2>4. QED
    BY <2>1, <2>2, <2>3, <1>f, <1>g
<1>18. ASSUME NEW r \in Requests, EditPutSave(r), UNCHANGED <<sync, leave>>
       PROVE  VersionsStep
  <2>1. save[r] \in SaveIds /\ file[r] \in Files /\ file[r] = Draft(r)
    BY <1>0, <1>18 DEF EditPutSave, LocalsReady, Draft
  <2>2. Drops(r)
    BY <1>0, <1>18, <2>1 DEF EditPutSave, Draft, Drops
  <2>3. Loadable(file[r])
    BY <1>0, <1>18, <2>1 DEF EditPutSave, DraftsWritten, Draft, Loadable
  <2>4. game_saves' = [game_saves EXCEPT ![save[r]] = file[r]]
        /\ UNCHANGED <<files, drawn, leaving>>
    BY <1>18 DEF EditPutSave
  <2>5. Current' = [Current EXCEPT ![save[r]] = file[r]]
    BY <1>0, <2>1, <2>3, <2>4 DEF Current, Content, Loadable
  <2>6. QED
    BY <2>1, <2>2, <2>4, <2>5, <1>c, <1>e, <1>f, SaysStore
<1>19. ASSUME NEW r \in Requests, EditDeleteObject(r) \/ EditDeleteToken(r),
              UNCHANGED <<sync, leave>>
       PROVE  VersionsStep
  <2>1. SameDrafts
    BY <1>0, <1>19 DEF EditDeleteObject, EditDeleteToken, Draft
  <2>2. SameContents
    BY <1>0, <1>19 DEF EditDeleteObject, EditDeleteToken, Content, Loadable, OldOfSave
  <2>3. UNCHANGED leaving /\ UNCHANGED drawn
    BY <1>19 DEF EditDeleteObject, EditDeleteToken
  <2>4. QED
    BY <2>1, <2>2, <2>3, <1>f, <1>g
<1>20. ASSUME NEW r \in Requests, DeleteUserNext(r), LeaveStep(r)
       PROVE  VersionsStep
  <2>1. SameDrafts
    BY <1>0, <1>20 DEF DeleteUserNext, LeaveStep, Draft
  <2>2. SameContents
    BY <1>0, <1>20 DEF DeleteUserNext, LeaveStep, Content, Loadable
  <2>3. UNCHANGED leaving /\ UNCHANGED drawn
    BY <1>20 DEF DeleteUserNext, LeaveStep
  <2>4. QED
    BY <2>1, <2>2, <2>3, <1>f, <1>g
<1>21. ASSUME NEW r \in Requests,
              DeleteUserFileLookup(r) \/ DeleteUserObject(r) \/ DeleteUserToken(r),
              LeaveStep(r)
       PROVE  VersionsStep
  <2>1. save[r] \in SaveIds /\ save[r] \in Closing
    BY <1>0, <1>21
     DEF DeleteUserFileLookup, DeleteUserObject, DeleteUserToken, LeaveStep, Restart, Rest,
         LocalsReady, DeletedNotKept, Closing
  <2>2. SameDrafts
    BY <1>0, <1>21
     DEF DeleteUserFileLookup, DeleteUserObject, DeleteUserToken, LeaveStep, Restart, Rest, Draft
  <2>3. UNCHANGED <<leaving, drawn>>
    BY <1>21 DEF DeleteUserFileLookup, DeleteUserObject, DeleteUserToken, LeaveStep, Restart, Rest
  <2>4. \A s \in SaveIds : Content(s)' = Content(s) \/ (s = save[r] /\ Content(s)' = None)
    <3>1. /\ UNCHANGED game_saves
          /\ file_tokens' \in {file_tokens, file_tokens \ {file[r]}}
          /\ objects' \in {objects, objects \ {file[r]}}
      BY <1>21 DEF DeleteUserFileLookup, DeleteUserObject, DeleteUserToken
    <3>2. \A s \in SaveIds : game_saves[s] = file[r] => s = save[r]
      BY <1>21, <1>0 DEF DeleteUserFileLookup, DeleteUserObject, DeleteUserToken, FileOfSave
    <3>3. QED
      BY <1>0, <3>1, <3>2 DEF Content, Loadable
  <2>5. CASE SameContents
    BY <2>2, <2>3, <2>5, <1>f, <1>g
  <2>6. CASE ~SameContents
    <3>1. Current' = [Current EXCEPT ![save[r]] = None]
      BY <2>4, <2>6 DEF Current
    <3>2. QED
      BY <3>1, <2>1, <2>2, <2>3, <1>b, <1>e, <1>f, SaysRemove
  <2>7. QED
    BY <2>5, <2>6
<1>22. ASSUME NEW r \in Requests, DeleteUserSave(r), LeaveStep(r)
       PROVE  VersionsStep
  <2>1. save[r] \in SaveIds /\ save[r] \in Closing
    BY <1>0, <1>22 DEF DeleteUserSave, LeaveStep, LocalsReady, DeletedNotKept, Closing
  <2>2. SameDrafts
    BY <1>0, <1>22 DEF DeleteUserSave, LeaveStep, Draft
  <2>3. UNCHANGED <<leaving, drawn>>
    BY <1>22 DEF DeleteUserSave, LeaveStep
  <2>4. \A s \in SaveIds : Content(s)' = Content(s) \/ (s = save[r] /\ Content(s)' = None)
    <3>1. game_saves' = [game_saves EXCEPT ![save[r]] = None] /\ UNCHANGED files
      BY <1>22 DEF DeleteUserSave
    <3>2. \A s \in SaveIds \ {save[r]} : game_saves'[s] = game_saves[s]
      BY <1>0, <3>1
    <3>3. game_saves'[save[r]] = None
      BY <1>0, <2>1, <3>1
    <3>4. QED
      BY <3>1, <3>2, <3>3 DEF Content, Loadable
  <2>5. CASE SameContents
    BY <2>2, <2>3, <2>5, <1>f, <1>g
  <2>6. CASE ~SameContents
    <3>1. Current' = [Current EXCEPT ![save[r]] = None]
      BY <2>4, <2>6 DEF Current
    <3>2. QED
      BY <3>1, <2>1, <2>2, <2>3, <1>b, <1>e, <1>f, SaysRemove
  <2>7. QED
    BY <2>5, <2>6
<1>23. ASSUME NEW r \in Requests, DeleteUserList(r), LeaveStep(r)
       PROVE  VersionsStep
  <2>1. SameDrafts
    BY <1>0, <1>23 DEF DeleteUserList, LeaveStep, Draft
  <2>2. SameContents
    BY <1>0, <1>23 DEF DeleteUserList, LeaveStep, Content, Loadable
  <2>3. UNCHANGED leaving /\ UNCHANGED drawn
    BY <1>23 DEF DeleteUserList, LeaveStep
  <2>4. QED
    BY <2>1, <2>2, <2>3, <1>f, <1>g
<1>24. ASSUME NEW r \in Requests, LeaveSession(r)
       PROVE  VersionsStep
  <2>1. SameDrafts
    BY <1>0, <1>24 DEF LeaveSession, At, Restart, Rest, vars, Draft
  <2>2. SameContents
    BY <1>0, <1>24 DEF LeaveSession, At, Restart, Rest, vars, Content, Loadable
  <2>3. UNCHANGED leaving /\ UNCHANGED drawn
    BY <1>24 DEF LeaveSession, At, Restart, Rest, vars
  <2>4. QED
    BY <2>1, <2>2, <2>3, <1>f, <1>g
<1>25. CASE UNCHANGED svars
  <2>1. SameDrafts /\ SameContents /\ UNCHANGED <<leaving, drawn>>
    BY <1>25 DEF svars, vars, Draft, Content, Loadable
  <2>2. QED
    BY <2>1, <1>f, <1>g
<1> HIDE DEF TypeOK, SyncTypeOK, JobInv, SameDrafts, SameContents
<1>26. QED
  BY <1>1, <1>2, <1>3, <1>4, <1>5, <1>6, <1>7, <1>8, <1>9, <1>10, <1>11, <1>12, <1>13, <1>14,
     <1>15, <1>16, <1>17, <1>18, <1>19, <1>20, <1>21, <1>22, <1>23, <1>24, <1>25
     DEF SNext, ReadCall, Refused, Edit, DeleteUser, LeaveStep, SyncUpload, SyncPoint, SyncDiscard

(* SaveClients implements SaveVersions: whatever calls of devices, editors  *)
(* and deletes interleave, each sync and each edit takes effect at one      *)
(* instant or not at all.                                                   *)
THEOREM VersionsCorrect == SSpec => ImplementsVersions
  BY SaveInit, SaveStep, VersionsInit, SaveImplements, PTL
     DEF SSpec, ImplementsVersions, VersionsStep, Abstract!Spec

-----------------------------------------------------------------------------
(* Whose saves.  A save is a user's when it is on the user's list, a delete *)
(* of the user set out to remove it, or a call for the user is about it.    *)
(* It is then nobody else's.                                                *)

WorksFor(q, u) == player[q] = u \/ user[q] = u

Owned(s, u) ==
  \/ s \in ToSet(game_saves_by_user[u])
  \/ \E f \in Files : <<s, f>> \in leaving[u]
  \/ \E q \in Requests :
       /\ WorksFor(q, u)
       /\ target[q] = s \/ save[q] = s \/ s \in ToSet(ids[q]) \/ s \in ToSet(left[q])

OneOwner == \A s \in SaveIds, u, v \in Users : Owned(s, u) /\ Owned(s, v) => u = v

(* A call works for one user, and between calls nothing is left of one.     *)
EmployerInv ==
  \A q \in Requests :
    /\ player[q] # None /\ user[q] # None => player[q] = user[q]
    /\ pc[q] \in Editing => user[q] # None
    /\ pc[q] = "idle" => save[q] = None /\ ids[q] = NoSaves

OwnerInv == OneOwner /\ EmployerInv

LEMMA OwnerInit == SInit => OwnerInv
<1> SUFFICES ASSUME SInit PROVE OwnerInv
  OBVIOUS
<1>1. \A s \in SaveIds, u \in Users : ~Owned(s, u)
  BY NoSavesType DEF SInit, Init, Owned
<1>2. QED
  BY <1>1 DEF OwnerInv, OneOwner, EmployerInv, SInit, Init, Editing

LEMMA EmployerStep == SaveInv /\ EmployerInv /\ [SNext]_svars => EmployerInv'
<1> SUFFICES ASSUME SaveInv, EmployerInv, [SNext]_svars PROVE EmployerInv'
  OBVIOUS
<1>0. TypeOK /\ LocalsReady /\ SyncTypeOK /\ JobInv
  BY DEF SaveInv, BaseInv, TypeInv
<1> USE DEF Creating, Editing, Deleting, TypeOK, SyncTypeOK, JobInv, Stages, ReadStages,
            RowStages, LocalsReady, EmployerInv,
            files, saves, local, sync, reads, leave, Goto, SetLocals, Begin, Finish
<1>1. ASSUME NEW r \in Requests, ReadCall(r)
      PROVE  EmployerInv'
  <2>1. ReadEffect(r)
    BY <1>1, ReadCalls DEF SaveInv
  <2>2. UNCHANGED <<pc, user, save, ids>> /\ user[r] = None /\ \A q \in Requests \ {r} : player'[q] = player[q]
    BY <1>0, <2>1 DEF ReadEffect, Alone, vars
  <2>3. QED
    BY <2>2
<1>2. ASSUME NEW r \in Requests, NEW u \in Users, EditBegin(r, u)
      PROVE  EmployerInv'
  BY <1>0, <1>2 DEF EditBegin, EditLookup, At, Disturb, Rejected, vars
<1>3. ASSUME NEW r \in Requests, NEW u \in Users, LeaveBegin(r, u)
      PROVE  EmployerInv'
  BY <1>0, <1>3 DEF LeaveBegin, DeleteUserLookup, At, Restart
<1>4. ASSUME NEW r \in Requests, SyncToken(r)
      PROVE  EmployerInv'
  BY <1>0, <1>4 DEF SyncToken, CreateToken, FreshFiles, At
<1>5. ASSUME NEW r \in Requests, At(r, "upload"), UploadLookup(r, mine[r]),
             UNCHANGED <<sync, leave>>
      PROVE  EmployerInv'
  BY <1>0, <1>5 DEF UploadLookup, At, Rejected, vars
<1>6. ASSUME NEW r \in Requests, UploadWrite(r), Go(r, "point"), UNCHANGED leave
      PROVE  EmployerInv'
  BY <1>0, <1>6 DEF UploadWrite, Go
<1>7. ASSUME NEW r \in Requests, At(r, "point"), target[r] # None,
             UpdateLookup(r, target[r], mine[r]), UNCHANGED <<sync, leave>>
      PROVE  EmployerInv'
  BY <1>0, <1>7 DEF UpdateLookup, At, Rejected, vars
<1>8. ASSUME NEW r \in Requests, At(r, "point"), target[r] = None,
             CreateLookup(r, player[r], mine[r]), UNCHANGED <<sync, leave>>
      PROVE  EmployerInv'
  BY <1>0, <1>8 DEF CreateLookup, FreshSaveIds, At, Rejected, vars
<1>9. ASSUME NEW r \in Requests, CreatePutSave(r) \/ CreateReadList(r),
             UNCHANGED <<sync, leave>>
      PROVE  EmployerInv'
  BY <1>0, <1>9 DEF CreatePutSave, CreateReadList
<1>10. ASSUME NEW r \in Requests, UpdatePutSave(r), Go(r, "discard"), UNCHANGED leave
       PROVE  EmployerInv'
  BY <1>0, <1>10 DEF UpdatePutSave, Go
<1>11. ASSUME NEW r \in Requests, CreatePutList(r), Go(r, "discard"), UNCHANGED leave
       PROVE  EmployerInv'
  BY <1>0, <1>11 DEF CreatePutList, Go
<1>12. ASSUME NEW r \in Requests, At(r, "discard"), seen[r] # None,
              FileDeleteLookup(r, seen[r]),
              IF pc'[r] = "idle" THEN Rest(r) ELSE UNCHANGED sync, UNCHANGED leave
       PROVE  EmployerInv'
  BY <1>0, <1>12 DEF FileDeleteLookup, At, Restart, Rest, Rejected, vars
<1>13. ASSUME NEW r \in Requests, FileDeleteObject(r) \/ FileDeleteToken(r),
              IF pc'[r] = "idle" THEN Rest(r) ELSE UNCHANGED sync, UNCHANGED leave
       PROVE  EmployerInv'
  BY <1>0, <1>13 DEF FileDeleteObject, FileDeleteToken, Restart, Rest
<1>14. ASSUME NEW r \in Requests, SyncGiveUp(r)
       PROVE  EmployerInv'
  BY <1>0, <1>14 DEF SyncGiveUp, Abort, Restart, Rest, vars
<1>15. ASSUME NEW r \in Requests, EditReadSave(r) \/ EditReadToken(r) \/ EditReadContent(r),
              UNCHANGED <<sync, leave>>
       PROVE  EmployerInv'
  BY <1>0, <1>15 DEF EditReadSave, EditReadToken, EditReadContent
<1>16. ASSUME NEW r \in Requests, EditPutToken(r), UNCHANGED <<sync, leave>>
       PROVE  EmployerInv'
  BY <1>0, <1>16 DEF EditPutToken, FreshFiles
<1>17. ASSUME NEW r \in Requests, EditPutObject(r), UNCHANGED <<sync, leave>>
       PROVE  EmployerInv'
  BY <1>0, <1>17 DEF EditPutObject
<1>18. ASSUME NEW r \in Requests, EditPutSave(r), UNCHANGED <<sync, leave>>
       PROVE  EmployerInv'
  BY <1>0, <1>18 DEF EditPutSave
<1>19. ASSUME NEW r \in Requests, EditDeleteObject(r) \/ EditDeleteToken(r),
              UNCHANGED <<sync, leave>>
       PROVE  EmployerInv'
  BY <1>0, <1>19 DEF EditDeleteObject, EditDeleteToken
<1>20. ASSUME NEW r \in Requests, DeleteUserNext(r), LeaveStep(r)
       PROVE  EmployerInv'
  BY <1>0, <1>20 DEF DeleteUserNext, LeaveStep
<1>21. ASSUME NEW r \in Requests, DeleteUserFileLookup(r) \/ DeleteUserObject(r) \/ DeleteUserToken(r),
              LeaveStep(r)
       PROVE  EmployerInv'
  BY <1>0, <1>21
   DEF DeleteUserFileLookup, DeleteUserObject, DeleteUserToken, LeaveStep, Restart, Rest
<1>22. ASSUME NEW r \in Requests, DeleteUserSave(r), LeaveStep(r)
       PROVE  EmployerInv'
  BY <1>0, <1>22 DEF DeleteUserSave, LeaveStep
<1>23. ASSUME NEW r \in Requests, DeleteUserList(r), LeaveStep(r)
       PROVE  EmployerInv'
  BY <1>0, <1>23 DEF DeleteUserList, LeaveStep
<1>24. ASSUME NEW r \in Requests, LeaveSession(r)
       PROVE  EmployerInv'
  BY <1>0, <1>24 DEF LeaveSession, At, Restart, Rest, vars
<1>25. CASE UNCHANGED svars
  BY <1>0, <1>25 DEF svars, vars
<1> HIDE DEF TypeOK, SyncTypeOK, JobInv, LocalsReady, EmployerInv
<1>26. QED
  BY <1>1, <1>2, <1>3, <1>4, <1>5, <1>6, <1>7, <1>8, <1>9, <1>10, <1>11, <1>12, <1>13, <1>14,
     <1>15, <1>16, <1>17, <1>18, <1>19, <1>20, <1>21, <1>22, <1>23, <1>24, <1>25
     DEF SNext, ReadCall, Refused, Edit, DeleteUser, LeaveStep, SyncUpload, SyncPoint, SyncDiscard

(* A fresh id is nobody's.                                                  *)
LEMMA FreshUnowned ==
  ASSUME BaseInv, NEW s \in SaveIds, s \notin drawn
  PROVE  \A u \in Users : ~Owned(s, u)
<1> SUFFICES ASSUME NEW u \in Users, Owned(s, u) PROVE FALSE
  OBVIOUS
<1>1. s \notin ToSet(game_saves_by_user[u])
  BY DEF BaseInv, NamesDrawn
<1>2. \A f \in Files : <<s, f>> \notin leaving[u]
  BY DEF BaseInv, Remembered
<1>3. \A q \in Requests : /\ target[q] # s /\ save[q] # s
                         /\ s \notin ToSet(ids[q]) /\ s \notin ToSet(left[q])
  BY DEF BaseInv, NamesDrawn, Remembered
<1>4. QED
  BY <1>1, <1>2, <1>3 DEF Owned

(* No step makes a user's a save that was not, but the draw of a fresh id.  *)
Away(r) ==
  \A q \in Requests \ {r} :
    /\ pc'[q] = pc[q] /\ stage'[q] = stage[q] /\ player'[q] = player[q] /\ target'[q] = target[q]
    /\ user'[q] = user[q] /\ save'[q] = save[q] /\ file'[q] = file[q] /\ ids'[q] = ids[q]
    /\ left'[q] = left[q]

Owns(r, s, u) ==
  /\ WorksFor(r, u)
  /\ target[r] = s \/ save[r] = s \/ s \in ToSet(ids[r]) \/ s \in ToSet(left[r])

OwnsNoMore(r) == \A s \in SaveIds, u \in Users : Owns(r, s, u)' => Owned(s, u)

LEMMA OwnedBefore ==
  ASSUME NEW r \in Requests, Away(r), UNCHANGED <<game_saves_by_user, leaving>>,
         NEW s \in SaveIds, NEW u \in Users, Owned(s, u)', ~Owned(s, u)
  PROVE  Owns(r, s, u)'
<1>1. \/ s \in ToSet(game_saves_by_user[u])
      \/ \E f \in Files : <<s, f>> \in leaving[u]
      \/ \E q \in Requests : Owns(q, s, u)'
  BY DEF Owned, Owns
<1>2. ASSUME NEW q \in Requests \ {r}, Owns(q, s, u)' PROVE Owns(q, s, u)
  BY <1>2 DEF Away, Owns, WorksFor
<1>3. QED
  BY <1>1, <1>2 DEF Owned, Owns

LEMMA OwnersStay ==
  ASSUME NEW r \in Requests, Away(r), UNCHANGED <<game_saves_by_user, leaving>>, OwnsNoMore(r), OneOwner
  PROVE  OneOwner'
  BY OwnedBefore DEF OneOwner, OwnsNoMore

(* What r works on it had before, or it is done.                            *)
WorksOn(r) ==
  \/ /\ player'[r] = player[r] /\ user'[r] = user[r] /\ target'[r] = target[r]
     /\ save'[r] = save[r] /\ ids'[r] = ids[r] /\ left'[r] = left[r]
  \/ /\ player'[r] \in {player[r], None} /\ user'[r] = None
     /\ target'[r] \in {target[r], None} /\ save'[r] = None /\ ids'[r] = NoSaves
     /\ left'[r] \in {left[r], NoSaves}

LEMMA SameWork ==
  ASSUME NEW r \in Requests, WorksOn(r)
  PROVE  OwnsNoMore(r)
  BY NoSavesType DEF WorksOn, OwnsNoMore, Owned, Owns, WorksFor

LEMMA OwnerStep == SaveInv /\ OwnerInv /\ [SNext]_svars => OneOwner'
<1> SUFFICES ASSUME SaveInv, OwnerInv, [SNext]_svars PROVE OneOwner'
  OBVIOUS
<1>0. TypeOK /\ LocalsReady /\ SyncTypeOK /\ JobInv /\ OneOwner /\ EmployerInv /\ BaseInv
  BY DEF SaveInv, BaseInv, TypeInv, OwnerInv
<1> DEFINE Same(r) == Away(r) /\ UNCHANGED <<game_saves_by_user, leaving>> /\ WorksOn(r)
           Goal == OneOwner'
<1>a. ASSUME NEW r \in Requests, Same(r) PROVE Goal
  BY <1>0, <1>a, OwnersStay, SameWork
<1>b. ASSUME NEW r \in Requests, Away(r), UNCHANGED <<game_saves_by_user, leaving>>, OwnsNoMore(r)
      PROVE  Goal
  BY <1>0, <1>b, OwnersStay
<1>c. \A q \in Requests : pc[q] = "idle" => user[q] = None /\ save[q] = None /\ ids[q] = NoSaves
  BY <1>0 DEF EmployerInv, JobInv
<1> SUFFICES Goal
  OBVIOUS
<1> HIDE DEF Goal
<1> USE DEF TypeOK, SyncTypeOK, files, saves, local, sync, reads, leave, Goto, SetLocals, Begin, Finish
<1>1. ASSUME NEW r \in Requests, ReadCall(r)
      PROVE  Goal
  <2>1. ReadEffect(r)
    BY <1>0, <1>1, ReadCalls
  <2>2. Away(r) /\ UNCHANGED <<game_saves_by_user, leaving>>
    BY <1>0, <2>1 DEF ReadEffect, Alone, Away, vars
  <2>3. user'[r] = None /\ save'[r] = None /\ ids'[r] = NoSaves
    BY <1>0, <1>c, <2>1 DEF ReadEffect, vars
  <2>4. CASE Fails(r)
    <3>1. \A s \in SaveIds, v \in Users : ~Owns(r, s, v)'
      BY <2>3, <2>4, NoneApart DEF Fails, Owns, WorksFor
    <3>2. QED
      BY <2>2, <3>1, <1>b DEF OwnsNoMore
  <2>5. CASE Proceeds(r)
    <3>1. left[r] # NoSaves => Head(left[r]) \in ToSet(left[r])
      BY <1>0, ToSetTail
    <3>2. CASE stage[r] = "rest"
      <4>1. target[r] = None /\ row[r] = None
        BY <1>0, <3>2 DEF JobInv, ReadStages, RowStages
      <4>2. \A s \in SaveIds, v \in Users : Owns(r, s, v)' => s \in ToSet(game_saves_by_user[v])
        BY <2>3, <2>5, <3>2, <4>1, NoSavesType
           DEF Proceeds, Chooses, IdsOf, Owns, WorksFor, ReadStages, RowStages
      <4>3. QED
        BY <2>2, <4>2, <1>b DEF OwnsNoMore, Owned
    <3>3. CASE stage[r] # "rest"
      <4>1. \A s \in SaveIds, v \in Users : Owns(r, s, v)' => Owns(r, s, v)
        BY <2>3, <2>5, <3>1, <3>3, NoSavesType
           DEF Proceeds, Chooses, IdsOf, Owns, WorksFor, ReadStages, RowStages
      <4>2. QED
        BY <2>2, <4>1, <1>b DEF OwnsNoMore, Owned, Owns
    <3>4. QED
      BY <3>2, <3>3
  <2>6. QED
    BY <2>1, <2>4, <2>5 DEF ReadEffect
<1>2. ASSUME NEW r \in Requests, NEW u \in Users, EditBegin(r, u)
      PROVE  Goal
  <2>1. CASE UNCHANGED vars
    <3>1. Same(r)
      BY <1>0, <1>2, <2>1 DEF EditBegin, Disturb, vars, Away, WorksOn
    <3>2. QED
      BY <3>1, <1>a
  <2>2. CASE ~UNCHANGED vars
    <3>1. /\ Away(r) /\ UNCHANGED <<game_saves_by_user, leaving>> /\ stage[r] = "rest" /\ player'[r] = player[r]
          /\ user'[r] = u /\ save'[r] = Head(game_saves_by_user[u]) /\ ids'[r] = NoSaves
          /\ target'[r] = target[r] /\ left'[r] = left[r]
          /\ game_saves_by_user[u] \in Lists /\ game_saves_by_user[u] # NoSaves
      BY <1>0, <1>2, <2>2 DEF EditBegin, EditLookup, At, Disturb, Rejected, Away
    <3>2. player[r] = None /\ target[r] = None /\ left[r] = NoSaves
      BY <1>0, <3>1 DEF JobInv, ReadStages, RowStages
    <3>3. \A s \in SaveIds, v \in Users : Owns(r, s, v)' => v = u /\ s = Head(game_saves_by_user[u])
      BY <3>1, <3>2, NoSavesType DEF Owns, WorksFor
    <3>4. OwnsNoMore(r)
      BY <3>1, <3>3, ToSetTail DEF OwnsNoMore, Owned
    <3>5. QED
      BY <3>1, <3>4, <1>b
  <2>3. QED
    BY <2>1, <2>2
<1>3. ASSUME NEW r \in Requests, NEW u \in Users, LeaveBegin(r, u)
      PROVE  Goal
  <2>1. /\ Away(r) /\ UNCHANGED game_saves_by_user
        /\ player'[r] = u /\ user'[r] = u /\ save'[r] = None /\ target'[r] = None
        /\ ids'[r] = game_saves_by_user[u] /\ left'[r] = NoSaves
        /\ leaving' = [leaving EXCEPT ![u] = leaving[u] \cup {<<t, game_saves[t]>> : t \in Listing(u)}]
    BY <1>0, <1>3 DEF LeaveBegin, DeleteUserLookup, At, Restart, Away
  <2>2. ASSUME NEW s \in SaveIds, NEW v \in Users, Owned(s, v)' PROVE Owned(s, v)
    <3>1. CASE s \in ToSet(game_saves_by_user[v])
      BY <3>1 DEF Owned
    <3>2. CASE \E f \in Files : <<s, f>> \in leaving'[v]
      <4>1. PICK f \in Files : <<s, f>> \in leaving'[v]
        BY <3>2
      <4>2. CASE <<s, f>> \in leaving[v]
        BY <4>2 DEF Owned
      <4>3. CASE <<s, f>> \notin leaving[v]
        <5>1. v = u /\ <<s, f>> \in {<<t, game_saves[t]>> : t \in Listing(u)}
          BY <1>0, <2>1, <4>1, <4>3
        <5>2. s \in Listing(u)
          BY <5>1
        <5>3. QED
          BY <5>1, <5>2 DEF Listing, Owned
      <4>4. QED
        BY <4>2, <4>3
    <3>3. CASE \E q \in Requests : Owns(q, s, v)'
      <4>1. PICK q \in Requests : Owns(q, s, v)'
        BY <3>3
      <4>2. CASE q = r
        <5>1. v = u /\ s \in ToSet(game_saves_by_user[u])
          BY <2>1, <4>1, <4>2, NoSavesType DEF Owns, WorksFor
        <5>2. QED
          BY <5>1 DEF Owned
      <4>3. CASE q # r
        <5>1. Owns(q, s, v)
          BY <2>1, <4>1, <4>3 DEF Away, Owns, WorksFor
        <5>2. QED
          BY <5>1 DEF Owned, Owns
      <4>4. QED
        BY <4>2, <4>3
    <3>4. QED
      BY <2>1, <2>2, <3>1, <3>2, <3>3 DEF Owned, Owns
  <2>3. QED
    BY <1>0, <2>2 DEF OneOwner, Goal
<1>4. ASSUME NEW r \in Requests, SyncToken(r)
      PROVE  Goal
  <2>1. Same(r)
    BY <1>0, <1>4 DEF SyncToken, CreateToken, FreshFiles, At, Away, WorksOn
  <2>2. QED
    BY <2>1, <1>a
<1>5. ASSUME NEW r \in Requests, At(r, "upload"), UploadLookup(r, mine[r]),
             UNCHANGED <<sync, leave>>
      PROVE  Goal
  <2>1. Same(r)
    BY <1>0, <1>5 DEF UploadLookup, At, Rejected, vars, Away, WorksOn
  <2>2. QED
    BY <2>1, <1>a
<1>6. ASSUME NEW r \in Requests, UploadWrite(r), Go(r, "point"), UNCHANGED leave
      PROVE  Goal
  <2>1. Same(r)
    BY <1>0, <1>6 DEF UploadWrite, Go, Away, WorksOn
  <2>2. QED
    BY <2>1, <1>a
<1>7. ASSUME NEW r \in Requests, At(r, "point"), target[r] # None,
             UpdateLookup(r, target[r], mine[r]), UNCHANGED <<sync, leave>>
      PROVE  Goal
  <2>1. CASE UNCHANGED vars
    <3>1. Same(r)
      BY <1>7, <2>1 DEF vars, Away, WorksOn
    <3>2. QED
      BY <3>1, <1>a
  <2>2. CASE ~UNCHANGED vars
    <3>1. /\ Away(r) /\ UNCHANGED <<game_saves_by_user, leaving>>
          /\ player'[r] = player[r] /\ user'[r] = None /\ target'[r] = target[r]
          /\ save'[r] = target[r] /\ ids'[r] = NoSaves /\ left'[r] = left[r]
      BY <1>0, <1>7, <2>2 DEF UpdateLookup, At, Rejected, Away
    <3>2. OwnsNoMore(r)
      BY <3>1, NoSavesType DEF OwnsNoMore, Owned, Owns, WorksFor
    <3>3. QED
      BY <3>1, <3>2, <1>b
  <2>3. QED
    BY <2>1, <2>2
<1>8. ASSUME NEW r \in Requests, At(r, "point"), target[r] = None,
             CreateLookup(r, player[r], mine[r]), UNCHANGED <<sync, leave>>
      PROVE  Goal
  <2>1. CASE UNCHANGED vars
    <3>1. Same(r)
      BY <1>8, <2>1 DEF vars, Away, WorksOn
    <3>2. QED
      BY <3>1, <1>a
  <2>2. CASE ~UNCHANGED vars
    <3>1. PICK t \in SaveIds \ drawn :
            /\ Away(r) /\ UNCHANGED <<game_saves_by_user, leaving>>
            /\ player'[r] = player[r] /\ user'[r] = player[r] /\ target'[r] = None
            /\ save'[r] = t /\ ids'[r] = NoSaves /\ left'[r] = NoSaves
      BY <1>0, <1>8, <2>2
         DEF CreateLookup, FreshSaveIds, At, Rejected, Away, JobInv, ReadStages, RowStages
    <3>2. \A s \in SaveIds, v \in Users : Owns(r, s, v)' => s = t /\ v = player[r]
      BY <3>1, NoSavesType DEF Owns, WorksFor
    <3>3. \A s \in SaveIds, v \in Users : Owned(s, v)' => Owned(s, v) \/ (s = t /\ v = player[r])
      BY <3>1, <3>2, OwnedBefore
    <3>4. \A v \in Users : ~Owned(t, v)
      BY <1>0, <3>1, FreshUnowned
    <3>5. QED
      BY <1>0, <3>3, <3>4 DEF OneOwner, Goal
  <2>3. QED
    BY <2>1, <2>2
<1>9. ASSUME NEW r \in Requests, CreatePutSave(r) \/ CreateReadList(r),
             UNCHANGED <<sync, leave>>
      PROVE  Goal
  <2>1. CASE CreatePutSave(r)
    <3>1. Same(r)
      BY <1>0, <1>9, <2>1 DEF CreatePutSave, Away, WorksOn
    <3>2. QED
      BY <3>1, <1>a
  <2>2. CASE CreateReadList(r)
    <3>1. /\ Away(r) /\ UNCHANGED <<game_saves_by_user, leaving>>
          /\ player'[r] = player[r] /\ user'[r] = user[r] /\ target'[r] = target[r]
          /\ save'[r] = save[r] /\ ids'[r] = game_saves_by_user[user[r]] /\ left'[r] = left[r]
      BY <1>0, <1>9, <2>2 DEF CreateReadList, Away
    <3>2. player[r] = user[r]
      BY <1>0, <1>9, <2>2 DEF CreateReadList, JobInv, Creating
    <3>3. OwnsNoMore(r)
      BY <3>1, <3>2 DEF OwnsNoMore, Owned, Owns, WorksFor
    <3>4. QED
      BY <3>1, <3>3, <1>b
  <2>3. QED
    BY <1>9, <2>1, <2>2
<1>10. ASSUME NEW r \in Requests, UpdatePutSave(r), Go(r, "discard"), UNCHANGED leave
       PROVE  Goal
  <2>1. Same(r)
    BY <1>0, <1>10 DEF UpdatePutSave, Go, Away, WorksOn
  <2>2. QED
    BY <2>1, <1>a
<1>11. ASSUME NEW r \in Requests, CreatePutList(r), Go(r, "discard"), UNCHANGED leave
       PROVE  Goal
  <2>1. /\ user[r] \in Users /\ save[r] \in SaveIds /\ ids[r] \in Lists
        /\ Away(r) /\ UNCHANGED leaving /\ WorksOn(r)
        /\ game_saves_by_user' = [game_saves_by_user EXCEPT ![user[r]] = Append(ids[r], save[r])]
    BY <1>0, <1>11 DEF CreatePutList, Go, LocalsReady, Creating, Away, WorksOn
  <2>2. ToSet(Append(ids[r], save[r])) = ToSet(ids[r]) \cup {save[r]}
    BY <2>1, ToSetAppend
  <2>3. ASSUME NEW s \in SaveIds, NEW v \in Users, Owned(s, v)' PROVE Owned(s, v)
    <3>1. CASE s \in ToSet(game_saves_by_user'[v])
      BY <1>0, <2>1, <2>2, <3>1 DEF Owned, WorksFor
    <3>2. CASE \E f \in Files : <<s, f>> \in leaving'[v]
      BY <2>1, <3>2 DEF Owned
    <3>3. CASE \E q \in Requests : Owns(q, s, v)'
      <4>1. PICK q \in Requests : Owns(q, s, v)'
        BY <3>3
      <4>2. CASE q = r
        BY <2>1, <4>1, <4>2, SameWork DEF OwnsNoMore
      <4>3. CASE q # r
        <5>1. Owns(q, s, v)
          BY <2>1, <4>1, <4>3 DEF Away, Owns, WorksFor
        <5>2. QED
          BY <5>1 DEF Owned, Owns
      <4>4. QED
        BY <4>2, <4>3
    <3>4. QED
      BY <2>3, <3>1, <3>2, <3>3 DEF Owned, Owns
  <2>4. QED
    BY <1>0, <2>3 DEF OneOwner, Goal
<1>12. ASSUME NEW r \in Requests, At(r, "discard"), seen[r] # None,
              FileDeleteLookup(r, seen[r]),
              IF pc'[r] = "idle" THEN Rest(r) ELSE UNCHANGED sync, UNCHANGED leave
       PROVE  Goal
  <2>1. Same(r)
    BY <1>0, <1>c, <1>12 DEF FileDeleteLookup, At, Restart, Rest, Rejected, vars, Away, WorksOn
  <2>2. QED
    BY <2>1, <1>a
<1>13. ASSUME NEW r \in Requests, FileDeleteObject(r) \/ FileDeleteToken(r),
              IF pc'[r] = "idle" THEN Rest(r) ELSE UNCHANGED sync, UNCHANGED leave
       PROVE  Goal
  <2>1. Same(r)
    BY <1>0, <1>13 DEF FileDeleteObject, FileDeleteToken, Restart, Rest, Away, WorksOn
  <2>2. QED
    BY <2>1, <1>a
<1>14. ASSUME NEW r \in Requests, SyncGiveUp(r)
       PROVE  Goal
  <2>1. Same(r)
    BY <1>0, <1>c, <1>14 DEF SyncGiveUp, Abort, Restart, Rest, vars, Away, WorksOn
  <2>2. QED
    BY <2>1, <1>a
<1>15. ASSUME NEW r \in Requests, EditReadSave(r) \/ EditReadToken(r) \/ EditReadContent(r),
              UNCHANGED <<sync, leave>>
       PROVE  Goal
  <2>1. Same(r)
    BY <1>0, <1>15 DEF EditReadSave, EditReadToken, EditReadContent, Away, WorksOn
  <2>2. QED
    BY <2>1, <1>a
<1>16. ASSUME NEW r \in Requests, EditPutToken(r), UNCHANGED <<sync, leave>>
       PROVE  Goal
  <2>1. Same(r)
    BY <1>0, <1>16 DEF EditPutToken, FreshFiles, Away, WorksOn
  <2>2. QED
    BY <2>1, <1>a
<1>17. ASSUME NEW r \in Requests, EditPutObject(r), UNCHANGED <<sync, leave>>
       PROVE  Goal
  <2>1. Same(r)
    BY <1>0, <1>17 DEF EditPutObject, Away, WorksOn
  <2>2. QED
    BY <2>1, <1>a
<1>18. ASSUME NEW r \in Requests, EditPutSave(r), UNCHANGED <<sync, leave>>
       PROVE  Goal
  <2>1. Same(r)
    BY <1>0, <1>18 DEF EditPutSave, Away, WorksOn
  <2>2. QED
    BY <2>1, <1>a
<1>19. ASSUME NEW r \in Requests, EditDeleteObject(r) \/ EditDeleteToken(r),
              UNCHANGED <<sync, leave>>
       PROVE  Goal
  <2>1. Same(r)
    BY <1>0, <1>19 DEF EditDeleteObject, EditDeleteToken, Away, WorksOn
  <2>2. QED
    BY <2>1, <1>a
<1>20. ASSUME NEW r \in Requests, DeleteUserNext(r), LeaveStep(r)
       PROVE  Goal
  <2>1. /\ Away(r) /\ UNCHANGED <<game_saves_by_user, leaving>>
        /\ player'[r] = player[r] /\ user'[r] = user[r] /\ target'[r] = target[r]
        /\ save'[r] = Head(ids[r]) /\ ids'[r] = ids[r] /\ ids[r] \in Lists /\ ids[r] # NoSaves
        /\ left'[r] = left[r]
    BY <1>0, <1>20 DEF DeleteUserNext, LeaveStep, Away
  <2>2. OwnsNoMore(r)
    BY <2>1, ToSetTail DEF OwnsNoMore, Owned, Owns, WorksFor
  <2>3. QED
    BY <2>1, <2>2, <1>b
<1>21. ASSUME NEW r \in Requests, DeleteUserFileLookup(r) \/ DeleteUserObject(r) \/ DeleteUserToken(r),
              LeaveStep(r)
       PROVE  Goal
  <2>1. Same(r)
    BY <1>0, <1>21
     DEF DeleteUserFileLookup, DeleteUserObject, DeleteUserToken, LeaveStep, Restart, Rest, Away,
         WorksOn
  <2>2. QED
    BY <2>1, <1>a
<1>22. ASSUME NEW r \in Requests, DeleteUserSave(r), LeaveStep(r)
       PROVE  Goal
  <2>1. /\ Away(r) /\ UNCHANGED <<game_saves_by_user, leaving>>
        /\ player'[r] = player[r] /\ user'[r] = user[r] /\ target'[r] = target[r]
        /\ save'[r] = save[r] /\ ids'[r] = Tail(ids[r]) /\ ids[r] \in Lists /\ ids[r] # NoSaves
        /\ left'[r] = left[r]
    BY <1>0, <1>22 DEF DeleteUserSave, LeaveStep, LocalsReady, Away
  <2>2. OwnsNoMore(r)
    BY <2>1, ToSetTail DEF OwnsNoMore, Owned, Owns, WorksFor
  <2>3. QED
    BY <2>1, <2>2, <1>b
<1>23. ASSUME NEW r \in Requests, DeleteUserList(r), LeaveStep(r)
       PROVE  Goal
  <2>1. /\ user[r] \in Users /\ Away(r) /\ UNCHANGED leaving /\ WorksOn(r)
        /\ game_saves_by_user' = [game_saves_by_user EXCEPT ![user[r]] = NoSaves]
    BY <1>0, <1>23 DEF DeleteUserList, LeaveStep, LocalsReady, Away, WorksOn
  <2>2. ASSUME NEW s \in SaveIds, NEW v \in Users, Owned(s, v)' PROVE Owned(s, v)
    <3>1. CASE s \in ToSet(game_saves_by_user'[v])
      BY <1>0, <2>1, <3>1, NoSavesType DEF Owned
    <3>2. CASE \E f \in Files : <<s, f>> \in leaving'[v]
      BY <2>1, <3>2 DEF Owned
    <3>3. CASE \E q \in Requests : Owns(q, s, v)'
      <4>1. PICK q \in Requests : Owns(q, s, v)'
        BY <3>3
      <4>2. CASE q = r
        BY <2>1, <4>1, <4>2, SameWork DEF OwnsNoMore
      <4>3. CASE q # r
        <5>1. Owns(q, s, v)
          BY <2>1, <4>1, <4>3 DEF Away, Owns, WorksFor
        <5>2. QED
          BY <5>1 DEF Owned, Owns
      <4>4. QED
        BY <4>2, <4>3
    <3>4. QED
      BY <2>2, <3>1, <3>2, <3>3 DEF Owned, Owns
  <2>3. QED
    BY <1>0, <2>2 DEF OneOwner, Goal
<1>24. ASSUME NEW r \in Requests, LeaveSession(r)
       PROVE  Goal
  <2>1. Same(r)
    BY <1>0, <1>c, <1>24 DEF LeaveSession, At, Restart, Rest, vars, Away, WorksOn
  <2>2. QED
    BY <2>1, <1>a
<1>25. CASE UNCHANGED svars
  <2>1. \A s \in SaveIds, u \in Users : Owned(s, u)' <=> Owned(s, u)
    BY <1>25 DEF svars, vars, Owned, WorksFor
  <2>2. QED
    BY <1>0, <2>1 DEF OneOwner, Goal
<1> HIDE DEF TypeOK, SyncTypeOK, Same
<1>26. QED
  BY <1>1, <1>2, <1>3, <1>4, <1>5, <1>6, <1>7, <1>8, <1>9, <1>10, <1>11, <1>12, <1>13, <1>14,
     <1>15, <1>16, <1>17, <1>18, <1>19, <1>20, <1>21, <1>22, <1>23, <1>24, <1>25
     DEF SNext, ReadCall, Refused, Edit, DeleteUser, LeaveStep, SyncUpload, SyncPoint, SyncDiscard

-----------------------------------------------------------------------------
(* Deletes of users.  A delete that has its user to itself finds each save  *)
(* it has yet to remove as it was when the delete began, and nothing of     *)
(* those it has removed.                                                    *)

Cleared(s, f) == ~Has(game_saves, s) /\ f \notin file_tokens /\ f \notin objects

Leaver(r, u) == stage[r] = "leave" /\ player[r] = u

(* How far the delete r has come with file f of save s.                     *)
Removing(r, s, f) ==
  /\ game_saves[s] = f
  /\ f \in file_tokens <=> ~(save[r] = s /\ pc[r] = "du_save")
  /\ f \in objects <=> ~(save[r] = s /\ pc[r] \in {"du_token", "du_save"})

LeaverOK(r, u) ==
  /\ \A q \in Requests : WorksFor(q, u) => q = r
  /\ NoRepeats(ids[r])
  /\ pc[r] \in {"du_lookup", "du_object", "du_token", "du_save"} => save[r] = Head(ids[r])
  /\ pc[r] \in {"du_lookup", "du_object", "du_token"} => <<save[r], file[r]>> \in leaving[u]
  /\ \A s \in ToSet(ids[r]) : Has(game_saves, s) => <<s, game_saves[s]>> \in leaving[u]
  /\ pc[r] = "idle" => game_saves_by_user[u] = NoSaves
  /\ \A s \in SaveIds, f \in Files : <<s, f>> \in leaving[u] =>
       IF s \in ToSet(ids[r]) THEN Removing(r, s, f) ELSE Cleared(s, f)

GoneOK(u) ==
  /\ \A q \in Requests : ~WorksFor(q, u)
  /\ game_saves_by_user[u] = NoSaves
  /\ \A s \in SaveIds, f \in Files : <<s, f>> \in leaving[u] => Cleared(s, f)

QuietOK(u) ==
  /\ u \in gone => GoneOK(u)
  /\ \A r \in Requests : Leaver(r, u) => u \notin gone /\ LeaverOK(r, u)
  /\ u \notin gone /\ (\A r \in Requests : ~Leaver(r, u)) => leaving[u] = {}

QuietInv == \A u \in Users : u \notin unquiet => QuietOK(u)

LEMMA QuietInit == SInit => QuietInv
  BY DEF SInit, Init, QuietInv, QuietOK, Leaver

(* What a step for others leaves as it is for u.                            *)
Tables(u) ==
  /\ \A s \in SaveIds : Owned(s, u) => game_saves'[s] = game_saves[s]
  /\ \A s \in SaveIds, f \in Files : <<s, f>> \in leaving[u] =>
       /\ f \in file_tokens' => f \in file_tokens
       /\ f \in objects' => f \in objects
       /\ game_saves[s] = f => /\ f \in file_tokens => f \in file_tokens'
                               /\ f \in objects => f \in objects'

Foreign(u) ==
  /\ u \in gone' <=> u \in gone
  /\ leaving'[u] = leaving[u]
  /\ game_saves_by_user'[u] = game_saves_by_user[u]
  /\ Tables(u)

Idle(r, u) == ~WorksFor(r, u) /\ ~WorksFor(r, u)'

LEMMA ForeignKeeps ==
  ASSUME TypeOK, NEW r \in Requests, Away(r), NEW u \in Users, Idle(r, u), Foreign(u), QuietOK(u)
  PROVE  QuietOK(u)'
<1>1. \A q \in Requests : WorksFor(q, u)' <=> WorksFor(q, u)
  BY DEF Away, Idle, WorksFor
<1>2. \A q \in Requests : Leaver(q, u)' <=> Leaver(q, u)
  BY DEF Away, Idle, WorksFor, Leaver
<1>3. \A s \in SaveIds, f \in Files : <<s, f>> \in leaving[u] =>
        /\ Cleared(s, f) => Cleared(s, f)'
        /\ game_saves[s] = f => game_saves'[s] = f
  BY DEF Foreign, Tables, Owned, Cleared
<1>4. ASSUME NEW q \in Requests, Leaver(q, u) PROVE LeaverOK(q, u)'
  <2>1. /\ q # r /\ LeaverOK(q, u)
        /\ pc'[q] = pc[q] /\ save'[q] = save[q] /\ file'[q] = file[q] /\ ids'[q] = ids[q]
    BY <1>4 DEF Away, Idle, WorksFor, Leaver, QuietOK
  <2>2. ASSUME NEW s \in SaveIds, NEW f \in Files, <<s, f>> \in leaving[u], Removing(q, s, f)
        PROVE  Removing(q, s, f)'
    BY <1>3, <2>1, <2>2 DEF Foreign, Tables, Removing
  <2>3. \A s \in ToSet(ids[q]) \cap SaveIds : game_saves'[s] = game_saves[s]
    BY <1>4 DEF Foreign, Tables, Owned, WorksFor, Leaver
  <2>a. ToSet(ids[q]) \subseteq SaveIds
    BY DEF TypeOK, Lists, ToSet
  <2>4. \A s \in ToSet(ids[q]) : Has(game_saves, s)' => <<s, game_saves'[s]>> \in leaving[u]
    BY <2>1, <2>3, <2>a DEF LeaverOK
  <2>5. QED
    BY <1>1, <1>3, <2>1, <2>2, <2>4 DEF LeaverOK, Foreign
<1>5. GoneOK(u) => GoneOK(u)'
  BY <1>1, <1>3 DEF GoneOK, Foreign
<1>6. QED
  BY <1>2, <1>4, <1>5 DEF QuietOK, Foreign

(* The four ways a step changes files and saves.                            *)
Elsewhere(r) == \A u \in Users : ~WorksFor(r, u) => Tables(u)

LEMMA TablesSame ==
  ASSUME NEW r \in Requests, UNCHANGED <<game_saves, file_tokens, objects>>
  PROVE  Elsewhere(r)
  BY DEF Elsewhere, Tables

LEMMA TablesAdd ==
  ASSUME NEW r \in Requests, NEW f, \A s \in SaveIds, u \in Users : <<s, f>> \notin leaving[u],
         UNCHANGED game_saves,
         file_tokens' \in {file_tokens, file_tokens \cup {f}}, objects' \in {objects, objects \cup {f}}
  PROVE  Elsewhere(r)
  BY DEF Elsewhere, Tables

LEMMA TablesPut ==
  ASSUME TypeOK, OneOwner, NEW r \in Requests, NEW v \in Users, WorksFor(r, v), save[r] \in SaveIds,
         NEW f, game_saves' = [game_saves EXCEPT ![save[r]] = f], UNCHANGED <<file_tokens, objects>>
  PROVE  Elsewhere(r)
<1>1. Owned(save[r], v)
  BY DEF Owned
<1>2. QED
  BY <1>1 DEF Elsewhere, Tables, OneOwner, TypeOK

LEMMA TablesRemove ==
  ASSUME OneOwner, NEW r \in Requests, NEW f,
         \A s \in SaveIds : game_saves[s] = f => \E v \in Users : WorksFor(r, v) /\ s = save[r],
         UNCHANGED game_saves,
         file_tokens' \in {file_tokens, file_tokens \ {f}}, objects' \in {objects, objects \ {f}}
  PROVE  Elsewhere(r)
<1>1. ASSUME NEW u \in Users, ~WorksFor(r, u), NEW s \in SaveIds, Owned(s, u), game_saves[s] = f PROVE FALSE
  <2>1. PICK v \in Users : WorksFor(r, v) /\ s = save[r]
    BY <1>1
  <2>2. Owned(s, v)
    BY <2>1 DEF Owned
  <2>3. QED
    BY <1>1, <2>1, <2>2 DEF OneOwner
<1>2. \A u \in Users, s \in SaveIds, g \in Files : <<s, g>> \in leaving[u] => Owned(s, u)
  BY DEF Owned
<1>3. QED
  BY <1>1, <1>2 DEF Elsewhere, Tables

LEMMA FreshNotLeft ==
  ASSUME BaseInv, NEW f \in Files, f \notin drawn
  PROVE  \A s \in SaveIds, u \in Users : <<s, f>> \notin leaving[u]
  BY DEF BaseInv, Remembered

LEMMA DraftNotLeft ==
  ASSUME DraftsApart, NEW r \in Requests, Draft(r) # None
  PROVE  \A s \in SaveIds, u \in Users : <<s, Draft(r)>> \notin leaving[u]
  BY DEF DraftsApart

(* A step of r, what it leaves alone, and which kind it is.                 *)
Device(r) ==
  /\ stage[r] # "leave" /\ stage'[r] # "leave"
  /\ UNCHANGED <<gone, leaving>>
  /\ \A u \in Users : WorksFor(r, u)' /\ ~WorksFor(r, u) =>
       CallsBegin(u) /\ (Leaving(u) => u \in unquiet')

GivesUp(r) ==
  /\ stage[r] = "leave" /\ player[r] \in unquiet'
  /\ player'[r] = None /\ user'[r] = None

StepOf(r) ==
  /\ Away(r)
  /\ unquiet \subseteq unquiet'
  /\ \A u \in Users : Idle(r, u) =>
       (u \in gone' <=> u \in gone) /\ leaving'[u] = leaving[u]
         /\ game_saves_by_user'[u] = game_saves_by_user[u]
  /\ \/ Device(r) \/ GivesUp(r)
     \/ \E u \in Users : LeaveBegin(r, u)
     \/ LeaveStep(r) \/ LeaveSession(r)

LEMMA StepForeign ==
  SaveInv /\ OwnerInv /\ SNext => UNCHANGED svars \/ \E r \in Requests : StepOf(r) /\ Elsewhere(r)
<1> SUFFICES ASSUME SaveInv, OwnerInv, SNext, ~UNCHANGED svars
             PROVE  \E r \in Requests : StepOf(r) /\ Elsewhere(r)
  OBVIOUS
<1>0. /\ TypeOK /\ LocalsReady /\ SyncTypeOK /\ JobInv /\ BaseInv /\ DraftsApart
      /\ SeenOfTarget /\ OldOfSave /\ FileOfSave /\ OneOwner /\ EmployerInv
  BY DEF SaveInv, BaseInv, TypeInv, OwnerInv, DraftInv, FileInv
<1>b. file_tokens \subseteq Files /\ objects \subseteq Files
  BY <1>0 DEF TypeOK
<1>c. \A q \in Requests : pc[q] = "idle" => user[q] = None
  BY <1>0 DEF JobInv
<1> USE DEF files, saves, local, sync, reads, leave
<1>1. ASSUME NEW r \in Requests, ReadCall(r)
      PROVE  StepOf(r) /\ Elsewhere(r)
  <2>1. ReadEffect(r)
    BY <1>0, <1>1, ReadCalls
  <2>2. UNCHANGED <<game_saves, file_tokens, objects, game_saves_by_user>>
    BY <2>1 DEF ReadEffect, vars
  <2>3. Elsewhere(r)
    BY <2>2, TablesSame
  <2>4. Away(r)
    BY <2>1 DEF ReadEffect, Alone, Away, vars
  <2>5. Device(r)
    BY <1>0, <1>c, <2>1
       DEF ReadEffect, Fails, Proceeds, IdsOf, Device, WorksFor, ReadStages, RowStages, vars
  <2>6. QED
    BY <2>1, <2>2, <2>3, <2>4, <2>5 DEF ReadEffect, StepOf
<1>2. ASSUME NEW r \in Requests, NEW u \in Users, EditBegin(r, u)
      PROVE  StepOf(r) /\ Elsewhere(r)
  <2>1. Elsewhere(r)
    <3>1. UNCHANGED <<game_saves, file_tokens, objects>>
      BY <1>2 DEF EditBegin, EditLookup, At, Disturb, Rejected, vars
    <3>2. QED
      BY <3>1, TablesSame
  <2>2. /\ Away(r) /\ unquiet \subseteq unquiet'
        /\ \A v \in Users : Idle(r, v) =>
             (v \in gone' <=> v \in gone) /\ leaving'[v] = leaving[v]
               /\ game_saves_by_user'[v] = game_saves_by_user[v]
    BY <1>0, <1>2
     DEF TypeOK, SyncTypeOK, Goto, SetLocals, Begin, Finish, EditBegin, EditLookup, At, Disturb,
         Rejected, vars, Away, Idle, WorksFor, LocalsReady, Creating
  <2>3. Device(r)
    BY <1>0, <1>c, <1>2
     DEF TypeOK, SyncTypeOK, Goto, SetLocals, Begin, Finish, EditBegin, EditLookup, At, Disturb,
         Rejected, vars, Away, Idle, WorksFor, JobInv, Stages, ReadStages, RowStages, Creating,
         Editing, Deleting,
         Device
  <2>4. QED
    BY <2>1, <2>2, <2>3 DEF StepOf
<1>3. ASSUME NEW r \in Requests, NEW u \in Users, LeaveBegin(r, u)
      PROVE  StepOf(r) /\ Elsewhere(r)
  <2>1. Elsewhere(r)
    <3>1. UNCHANGED <<game_saves, file_tokens, objects>>
      BY <1>3 DEF LeaveBegin, DeleteUserLookup, At, Restart
    <3>2. QED
      BY <3>1, TablesSame
  <2>2. /\ Away(r) /\ unquiet \subseteq unquiet'
        /\ \A v \in Users : Idle(r, v) =>
             (v \in gone' <=> v \in gone) /\ leaving'[v] = leaving[v]
               /\ game_saves_by_user'[v] = game_saves_by_user[v]
    BY <1>0, <1>3
     DEF TypeOK, SyncTypeOK, Goto, SetLocals, Begin, Finish, LeaveBegin, DeleteUserLookup, At,
         Restart, Away, Idle, WorksFor, LocalsReady, Creating
  <2>3. QED
    BY <1>3, <2>1, <2>2 DEF StepOf
<1>4. ASSUME NEW r \in Requests, SyncToken(r)
      PROVE  StepOf(r) /\ Elsewhere(r)
  <2>1. Elsewhere(r)
    <3>1. PICK f \in Files \ drawn :
            UNCHANGED <<game_saves, objects>> /\ file_tokens' = file_tokens \cup {f}
      BY <1>4 DEF SyncToken, CreateToken, FreshFiles
    <3>2. QED
      BY <1>0, <3>1, FreshNotLeft, TablesAdd
  <2>2. /\ Away(r) /\ unquiet \subseteq unquiet'
        /\ \A v \in Users : Idle(r, v) =>
             (v \in gone' <=> v \in gone) /\ leaving'[v] = leaving[v]
               /\ game_saves_by_user'[v] = game_saves_by_user[v]
    BY <1>0, <1>4
     DEF TypeOK, SyncTypeOK, Goto, SetLocals, Begin, Finish, SyncToken, CreateToken, FreshFiles,
         At, Away, Idle, WorksFor, LocalsReady, Creating
  <2>3. Device(r)
    BY <1>0, <1>c, <1>4
     DEF TypeOK, SyncTypeOK, Goto, SetLocals, Begin, Finish, SyncToken, CreateToken, FreshFiles,
         At, Away, Idle, WorksFor, JobInv, Stages, ReadStages, RowStages, Creating, Editing,
         Deleting, Device
  <2>4. QED
    BY <2>1, <2>2, <2>3 DEF StepOf
<1>5. ASSUME NEW r \in Requests, At(r, "upload"), UploadLookup(r, mine[r]),
             UNCHANGED <<sync, leave>>
      PROVE  StepOf(r) /\ Elsewhere(r)
  <2>1. Elsewhere(r)
    <3>1. UNCHANGED <<game_saves, file_tokens, objects>>
      BY <1>5 DEF UploadLookup, At, Rejected, vars
    <3>2. QED
      BY <3>1, TablesSame
  <2>2. /\ Away(r) /\ unquiet \subseteq unquiet'
        /\ \A v \in Users : Idle(r, v) =>
             (v \in gone' <=> v \in gone) /\ leaving'[v] = leaving[v]
               /\ game_saves_by_user'[v] = game_saves_by_user[v]
    BY <1>0, <1>5
     DEF TypeOK, SyncTypeOK, Goto, SetLocals, Begin, Finish, UploadLookup, At, Rejected, vars,
         Away, Idle, WorksFor, LocalsReady, Creating
  <2>3. Device(r)
    BY <1>0, <1>c, <1>5
     DEF TypeOK, SyncTypeOK, Goto, SetLocals, Begin, Finish, UploadLookup, At, Rejected, vars,
         Away, Idle, WorksFor, JobInv, Stages, ReadStages, RowStages, Creating, Editing,
         Deleting, Device
  <2>4. QED
    BY <2>1, <2>2, <2>3 DEF StepOf
<1>6. ASSUME NEW r \in Requests, UploadWrite(r), Go(r, "point"), UNCHANGED leave
      PROVE  StepOf(r) /\ Elsewhere(r)
  <2>1. Elsewhere(r)
    <3>1. UNCHANGED <<game_saves, file_tokens>> /\ objects' = objects \cup {file[r]}
      BY <1>6 DEF UploadWrite
    <3>2. file[r] = Draft(r) /\ Draft(r) # None
      BY <1>0, <1>6 DEF UploadWrite, JobInv, SyncTypeOK, Stages, ReadStages, RowStages, Creating,
           Editing, Deleting, Draft
    <3>3. QED
      BY <1>0, <3>1, <3>2, DraftNotLeft, TablesAdd
  <2>2. /\ Away(r) /\ unquiet \subseteq unquiet'
        /\ \A v \in Users : Idle(r, v) =>
             (v \in gone' <=> v \in gone) /\ leaving'[v] = leaving[v]
               /\ game_saves_by_user'[v] = game_saves_by_user[v]
    BY <1>0, <1>6
     DEF TypeOK, SyncTypeOK, Goto, SetLocals, Begin, Finish, UploadWrite, Go, Away, Idle,
         WorksFor, LocalsReady, Creating
  <2>3. Device(r)
    BY <1>0, <1>c, <1>6
     DEF TypeOK, SyncTypeOK, Goto, SetLocals, Begin, Finish, UploadWrite, Go, Away, Idle,
         WorksFor, JobInv, Stages, ReadStages, RowStages, Creating, Editing, Deleting, Device
  <2>4. QED
    BY <2>1, <2>2, <2>3 DEF StepOf
<1>7. ASSUME NEW r \in Requests, At(r, "point"), target[r] # None,
             UpdateLookup(r, target[r], mine[r]), UNCHANGED <<sync, leave>>
      PROVE  StepOf(r) /\ Elsewhere(r)
  <2>1. Elsewhere(r)
    <3>1. UNCHANGED <<game_saves, file_tokens, objects>>
      BY <1>7 DEF UpdateLookup, At, Rejected, vars
    <3>2. QED
      BY <3>1, TablesSame
  <2>2. /\ Away(r) /\ unquiet \subseteq unquiet'
        /\ \A v \in Users : Idle(r, v) =>
             (v \in gone' <=> v \in gone) /\ leaving'[v] = leaving[v]
               /\ game_saves_by_user'[v] = game_saves_by_user[v]
    BY <1>0, <1>7
     DEF TypeOK, SyncTypeOK, Goto, SetLocals, Begin, Finish, UpdateLookup, At, Rejected, vars,
         Away, Idle, WorksFor, LocalsReady, Creating
  <2>3. Device(r)
    BY <1>0, <1>c, <1>7
     DEF TypeOK, SyncTypeOK, Goto, SetLocals, Begin, Finish, UpdateLookup, At, Rejected, vars,
         Away, Idle, WorksFor, JobInv, Stages, ReadStages, RowStages, Creating, Editing,
         Deleting, Device
  <2>4. QED
    BY <2>1, <2>2, <2>3 DEF StepOf
<1>8. ASSUME NEW r \in Requests, At(r, "point"), target[r] = None,
             CreateLookup(r, player[r], mine[r]), UNCHANGED <<sync, leave>>
      PROVE  StepOf(r) /\ Elsewhere(r)
  <2>1. Elsewhere(r)
    <3>1. UNCHANGED <<game_saves, file_tokens, objects>>
      BY <1>8 DEF CreateLookup, FreshSaveIds, At, Rejected, vars
    <3>2. QED
      BY <3>1, TablesSame
  <2>2. /\ Away(r) /\ unquiet \subseteq unquiet'
        /\ \A v \in Users : Idle(r, v) =>
             (v \in gone' <=> v \in gone) /\ leaving'[v] = leaving[v]
               /\ game_saves_by_user'[v] = game_saves_by_user[v]
    BY <1>0, <1>8
     DEF TypeOK, SyncTypeOK, Goto, SetLocals, Begin, Finish, CreateLookup, FreshSaveIds, At,
         Rejected, vars, Away, Idle, WorksFor, LocalsReady, Creating
  <2>3. Device(r)
    BY <1>0, <1>c, <1>8
     DEF TypeOK, SyncTypeOK, Goto, SetLocals, Begin, Finish, CreateLookup, FreshSaveIds, At,
         Rejected, vars, Away, Idle, WorksFor, JobInv, Stages, ReadStages, RowStages, Creating,
         Editing, Deleting,
         Device
  <2>4. QED
    BY <2>1, <2>2, <2>3 DEF StepOf
<1>9. ASSUME NEW r \in Requests, CreatePutSave(r) \/ CreateReadList(r),
             UNCHANGED <<sync, leave>>
      PROVE  StepOf(r) /\ Elsewhere(r)
  <2>1. Elsewhere(r)
    <3>1. CASE CreatePutSave(r)
      <4>1. /\ game_saves' = [game_saves EXCEPT ![save[r]] = file[r]] /\ UNCHANGED <<file_tokens, objects>>
            /\ save[r] \in SaveIds /\ user[r] \in Users
        BY <1>0, <3>1 DEF CreatePutSave, LocalsReady, TypeOK, Creating
      <4>2. QED
        BY <1>0, <4>1, TablesPut DEF WorksFor
    <3>2. CASE CreateReadList(r)
      BY <3>2, TablesSame DEF CreateReadList
    <3>3. QED
      BY <1>9, <3>1, <3>2
  <2>2. /\ Away(r) /\ unquiet \subseteq unquiet'
        /\ \A v \in Users : Idle(r, v) =>
             (v \in gone' <=> v \in gone) /\ leaving'[v] = leaving[v]
               /\ game_saves_by_user'[v] = game_saves_by_user[v]
    BY <1>0, <1>9
     DEF TypeOK, SyncTypeOK, Goto, SetLocals, Begin, Finish, CreatePutSave, CreateReadList, Away,
         Idle, WorksFor, LocalsReady, Creating
  <2>3. Device(r)
    BY <1>0, <1>c, <1>9
     DEF TypeOK, SyncTypeOK, Goto, SetLocals, Begin, Finish, CreatePutSave, CreateReadList, Away,
         Idle, WorksFor, JobInv, Stages, ReadStages, RowStages, Creating, Editing, Deleting, Device
  <2>4. QED
    BY <2>1, <2>2, <2>3 DEF StepOf
<1>10. ASSUME NEW r \in Requests, UpdatePutSave(r), Go(r, "discard"), UNCHANGED leave
       PROVE  StepOf(r) /\ Elsewhere(r)
  <2>1. Elsewhere(r)
    <3>1. /\ game_saves' = [game_saves EXCEPT ![save[r]] = file[r]] /\ UNCHANGED <<file_tokens, objects>>
          /\ save[r] \in SaveIds /\ pc[r] = "gu_save"
      BY <1>0, <1>10 DEF UpdatePutSave, LocalsReady, TypeOK
    <3>2. player[r] \in Users
      BY <1>0, <3>1 DEF JobInv, SyncTypeOK, Stages, ReadStages, RowStages, Creating, Editing, Deleting
    <3>3. QED
      BY <1>0, <3>1, <3>2, TablesPut DEF WorksFor
  <2>2. /\ Away(r) /\ unquiet \subseteq unquiet'
        /\ \A v \in Users : Idle(r, v) =>
             (v \in gone' <=> v \in gone) /\ leaving'[v] = leaving[v]
               /\ game_saves_by_user'[v] = game_saves_by_user[v]
    BY <1>0, <1>10
     DEF TypeOK, SyncTypeOK, Goto, SetLocals, Begin, Finish, UpdatePutSave, Go, Away, Idle,
         WorksFor, LocalsReady, Creating
  <2>3. Device(r)
    BY <1>0, <1>c, <1>10
     DEF TypeOK, SyncTypeOK, Goto, SetLocals, Begin, Finish, UpdatePutSave, Go, Away, Idle,
         WorksFor, JobInv, Stages, ReadStages, RowStages, Creating, Editing, Deleting, Device
  <2>4. QED
    BY <2>1, <2>2, <2>3 DEF StepOf
<1>11. ASSUME NEW r \in Requests, CreatePutList(r), Go(r, "discard"), UNCHANGED leave
       PROVE  StepOf(r) /\ Elsewhere(r)
  <2>1. Elsewhere(r)
    <3>1. UNCHANGED <<game_saves, file_tokens, objects>>
      BY <1>11 DEF CreatePutList, Go
    <3>2. QED
      BY <3>1, TablesSame
  <2>2. /\ Away(r) /\ unquiet \subseteq unquiet'
        /\ \A v \in Users : Idle(r, v) =>
             (v \in gone' <=> v \in gone) /\ leaving'[v] = leaving[v]
               /\ game_saves_by_user'[v] = game_saves_by_user[v]
    BY <1>0, <1>11
     DEF TypeOK, SyncTypeOK, Goto, SetLocals, Begin, Finish, CreatePutList, Go, Away, Idle,
         WorksFor, LocalsReady, Creating
  <2>3. Device(r)
    BY <1>0, <1>c, <1>11
     DEF TypeOK, SyncTypeOK, Goto, SetLocals, Begin, Finish, CreatePutList, Go, Away, Idle,
         WorksFor, JobInv, Stages, ReadStages, RowStages, Creating, Editing, Deleting, Device
  <2>4. QED
    BY <2>1, <2>2, <2>3 DEF StepOf
<1>12. ASSUME NEW r \in Requests, At(r, "discard"), seen[r] # None,
              FileDeleteLookup(r, seen[r]),
              IF pc'[r] = "idle" THEN Rest(r) ELSE UNCHANGED sync, UNCHANGED leave
       PROVE  StepOf(r) /\ Elsewhere(r)
  <2>1. Elsewhere(r)
    <3>1. UNCHANGED <<game_saves, file_tokens, objects>>
      BY <1>12 DEF FileDeleteLookup, At, Restart, Rest, Rejected, vars
    <3>2. QED
      BY <3>1, TablesSame
  <2>2. /\ Away(r) /\ unquiet \subseteq unquiet'
        /\ \A v \in Users : Idle(r, v) =>
             (v \in gone' <=> v \in gone) /\ leaving'[v] = leaving[v]
               /\ game_saves_by_user'[v] = game_saves_by_user[v]
    BY <1>0, <1>12
     DEF TypeOK, SyncTypeOK, Goto, SetLocals, Begin, Finish, FileDeleteLookup, At, Restart, Rest,
         Rejected, vars, Away, Idle, WorksFor, LocalsReady, Creating
  <2>3. Device(r)
    BY <1>0, <1>c, <1>12
     DEF TypeOK, SyncTypeOK, Goto, SetLocals, Begin, Finish, FileDeleteLookup, At, Restart, Rest,
         Rejected, vars, Away, Idle, WorksFor, JobInv, Stages, ReadStages, RowStages, Creating,
         Editing, Deleting,
         Device
  <2>4. QED
    BY <2>1, <2>2, <2>3 DEF StepOf
<1>13. ASSUME NEW r \in Requests, FileDeleteObject(r) \/ FileDeleteToken(r),
              IF pc'[r] = "idle" THEN Rest(r) ELSE UNCHANGED sync, UNCHANGED leave
       PROVE  StepOf(r) /\ Elsewhere(r)
  <2>1. Elsewhere(r)
    <3>1. pc[r] \in {"fd_object", "fd_token"}
      BY <1>13 DEF FileDeleteObject, FileDeleteToken
    <3>2. stage[r] = "discard" /\ file[r] = seen[r]
      BY <1>0, <3>1 DEF JobInv, SyncTypeOK, Stages, ReadStages, RowStages, Creating, Editing, Deleting
    <3>3. \A s \in SaveIds : seen[r] # None => game_saves[s] # file[r]
      BY <1>0, <3>2 DEF SeenOfTarget
    <3>4. CASE seen[r] = None
      <4>1. file[r] \notin Files
        BY <3>2, <3>4
      <4>2. UNCHANGED <<game_saves, file_tokens, objects>>
        BY <1>b, <1>13, <4>1 DEF FileDeleteObject, FileDeleteToken
      <4>3. QED
        BY <4>2, TablesSame
    <3>5. CASE seen[r] # None
      <4>1. /\ UNCHANGED game_saves
            /\ file_tokens' \in {file_tokens, file_tokens \ {file[r]}}
            /\ objects' \in {objects, objects \ {file[r]}}
        BY <1>13 DEF FileDeleteObject, FileDeleteToken
      <4>2. QED
        BY <1>0, <3>3, <3>5, <4>1, TablesRemove
    <3>6. QED
      BY <3>4, <3>5
  <2>2. /\ Away(r) /\ unquiet \subseteq unquiet'
        /\ \A v \in Users : Idle(r, v) =>
             (v \in gone' <=> v \in gone) /\ leaving'[v] = leaving[v]
               /\ game_saves_by_user'[v] = game_saves_by_user[v]
    BY <1>0, <1>13
     DEF TypeOK, SyncTypeOK, Goto, SetLocals, Begin, Finish, FileDeleteObject, FileDeleteToken,
         Restart, Rest, Away, Idle, WorksFor, LocalsReady, Creating
  <2>3. Device(r)
    BY <1>0, <1>c, <1>13
     DEF TypeOK, SyncTypeOK, Goto, SetLocals, Begin, Finish, FileDeleteObject, FileDeleteToken,
         Restart, Rest, Away, Idle, WorksFor, JobInv, Stages, ReadStages, RowStages, Creating,
         Editing, Deleting, Device
  <2>4. QED
    BY <2>1, <2>2, <2>3 DEF StepOf
<1>14. ASSUME NEW r \in Requests, SyncGiveUp(r)
       PROVE  StepOf(r) /\ Elsewhere(r)
  <2>1. Elsewhere(r)
    <3>1. UNCHANGED <<game_saves, file_tokens, objects>>
      BY <1>14 DEF SyncGiveUp, Abort, Restart, Rest, vars
    <3>2. QED
      BY <3>1, TablesSame
  <2>2. /\ Away(r) /\ unquiet \subseteq unquiet'
        /\ \A v \in Users : Idle(r, v) =>
             (v \in gone' <=> v \in gone) /\ leaving'[v] = leaving[v]
               /\ game_saves_by_user'[v] = game_saves_by_user[v]
    BY <1>0, <1>14
     DEF TypeOK, SyncTypeOK, Goto, SetLocals, Begin, Finish, SyncGiveUp, Abort, Restart, Rest,
         vars, Away, Idle, WorksFor, LocalsReady, Creating
  <2>3. Device(r) \/ GivesUp(r)
    BY <1>0, <1>c, <1>14
     DEF TypeOK, SyncTypeOK, Goto, SetLocals, Begin, Finish, SyncGiveUp, Abort, Restart, Rest,
         vars, Away, Idle, WorksFor, Device, GivesUp
  <2>4. QED
    BY <2>1, <2>2, <2>3 DEF StepOf
<1>15. ASSUME NEW r \in Requests, EditReadSave(r) \/ EditReadToken(r) \/ EditReadContent(r),
              UNCHANGED <<sync, leave>>
       PROVE  StepOf(r) /\ Elsewhere(r)
  <2>1. Elsewhere(r)
    <3>1. UNCHANGED <<game_saves, file_tokens, objects>>
      BY <1>15 DEF EditReadSave, EditReadToken, EditReadContent
    <3>2. QED
      BY <3>1, TablesSame
  <2>2. /\ Away(r) /\ unquiet \subseteq unquiet'
        /\ \A v \in Users : Idle(r, v) =>
             (v \in gone' <=> v \in gone) /\ leaving'[v] = leaving[v]
               /\ game_saves_by_user'[v] = game_saves_by_user[v]
    BY <1>0, <1>15
     DEF TypeOK, SyncTypeOK, Goto, SetLocals, Begin, Finish, EditReadSave, EditReadToken,
         EditReadContent, Away, Idle, WorksFor, LocalsReady, Creating
  <2>3. Device(r)
    BY <1>0, <1>c, <1>15
     DEF TypeOK, SyncTypeOK, Goto, SetLocals, Begin, Finish, EditReadSave, EditReadToken,
         EditReadContent, Away, Idle, WorksFor, JobInv, Stages, ReadStages, RowStages, Creating,
         Editing, Deleting,
         Device
  <2>4. QED
    BY <2>1, <2>2, <2>3 DEF StepOf
<1>16. ASSUME NEW r \in Requests, EditPutToken(r), UNCHANGED <<sync, leave>>
       PROVE  StepOf(r) /\ Elsewhere(r)
  <2>1. Elsewhere(r)
    <3>1. PICK f \in Files \ drawn :
            UNCHANGED <<game_saves, objects>> /\ file_tokens' = file_tokens \cup {f}
      BY <1>16 DEF EditPutToken, FreshFiles
    <3>2. QED
      BY <1>0, <3>1, FreshNotLeft, TablesAdd
  <2>2. /\ Away(r) /\ unquiet \subseteq unquiet'
        /\ \A v \in Users : Idle(r, v) =>
             (v \in gone' <=> v \in gone) /\ leaving'[v] = leaving[v]
               /\ game_saves_by_user'[v] = game_saves_by_user[v]
    BY <1>0, <1>16
     DEF TypeOK, SyncTypeOK, Goto, SetLocals, Begin, Finish, EditPutToken, FreshFiles, Away, Idle,
         WorksFor, LocalsReady, Creating
  <2>3. Device(r)
    BY <1>0, <1>c, <1>16
     DEF TypeOK, SyncTypeOK, Goto, SetLocals, Begin, Finish, EditPutToken, FreshFiles, Away, Idle,
         WorksFor, JobInv, Stages, ReadStages, RowStages, Creating, Editing, Deleting, Device
  <2>4. QED
    BY <2>1, <2>2, <2>3 DEF StepOf
<1>17. ASSUME NEW r \in Requests, EditPutObject(r), UNCHANGED <<sync, leave>>
       PROVE  StepOf(r) /\ Elsewhere(r)
  <2>1. Elsewhere(r)
    <3>1. /\ UNCHANGED <<game_saves, file_tokens>> /\ objects' = objects \cup {file[r]}
          /\ pc[r] = "xp_newobject"
      BY <1>17 DEF EditPutObject
    <3>2. file[r] = Draft(r) /\ Draft(r) # None
      BY <1>0, <3>1 DEF JobInv, SyncTypeOK, Stages, ReadStages, RowStages, LocalsReady, Creating,
           Editing, Deleting, Draft
    <3>3. QED
      BY <1>0, <3>1, <3>2, DraftNotLeft, TablesAdd
  <2>2. /\ Away(r) /\ unquiet \subseteq unquiet'
        /\ \A v \in Users : Idle(r, v) =>
             (v \in gone' <=> v \in gone) /\ leaving'[v] = leaving[v]
               /\ game_saves_by_user'[v] = game_saves_by_user[v]
    BY <1>0, <1>17
     DEF TypeOK, SyncTypeOK, Goto, SetLocals, Begin, Finish, EditPutObject, Away, Idle, WorksFor,
         LocalsReady, Creating
  <2>3. Device(r)
    BY <1>0, <1>c, <1>17
     DEF TypeOK, SyncTypeOK, Goto, SetLocals, Begin, Finish, EditPutObject, Away, Idle, WorksFor,
         JobInv, Stages, ReadStages, RowStages, Creating, Editing, Deleting, Device
  <2>4. QED
    BY <2>1, <2>2, <2>3 DEF StepOf
<1>18. ASSUME NEW r \in Requests, EditPutSave(r), UNCHANGED <<sync, leave>>
       PROVE  StepOf(r) /\ Elsewhere(r)
  <2>1. Elsewhere(r)
    <3>1. /\ game_saves' = [game_saves EXCEPT ![save[r]] = file[r]] /\ UNCHANGED <<file_tokens, objects>>
          /\ save[r] \in SaveIds /\ user[r] \in Users
      BY <1>0, <1>18 DEF EditPutSave, LocalsReady, TypeOK, EmployerInv, Editing
    <3>2. QED
      BY <1>0, <3>1, TablesPut DEF WorksFor
  <2>2. /\ Away(r) /\ unquiet \subseteq unquiet'
        /\ \A v \in Users : Idle(r, v) =>
             (v \in gone' <=> v \in gone) /\ leaving'[v] = leaving[v]
               /\ game_saves_by_user'[v] = game_saves_by_user[v]
    BY <1>0, <1>18
     DEF TypeOK, SyncTypeOK, Goto, SetLocals, Begin, Finish, EditPutSave, Away, Idle, WorksFor,
         LocalsReady, Creating
  <2>3. Device(r)
    BY <1>0, <1>c, <1>18
     DEF TypeOK, SyncTypeOK, Goto, SetLocals, Begin, Finish, EditPutSave, Away, Idle, WorksFor,
         JobInv, Stages, ReadStages, RowStages, Creating, Editing, Deleting, Device
  <2>4. QED
    BY <2>1, <2>2, <2>3 DEF StepOf
<1>19. ASSUME NEW r \in Requests, EditDeleteObject(r) \/ EditDeleteToken(r),
              UNCHANGED <<sync, leave>>
       PROVE  StepOf(r) /\ Elsewhere(r)
  <2>1. Elsewhere(r)
    <3>1. pc[r] \in {"xp_delobject", "xp_deltoken"}
      BY <1>19 DEF EditDeleteObject, EditDeleteToken
    <3>2. \A s \in SaveIds : old[r] # None => game_saves[s] # old[r]
      BY <1>0, <3>1 DEF OldOfSave
    <3>3. /\ UNCHANGED game_saves
          /\ file_tokens' \in {file_tokens, file_tokens \ {old[r]}}
          /\ objects' \in {objects, objects \ {old[r]}}
      BY <1>19 DEF EditDeleteObject, EditDeleteToken
    <3>4. CASE old[r] = None
      <4>1. UNCHANGED <<game_saves, file_tokens, objects>>
        BY <1>b, <3>3, <3>4, NoneApart
      <4>2. QED
        BY <4>1, TablesSame
    <3>5. CASE old[r] # None
      BY <1>0, <3>2, <3>3, <3>5, TablesRemove
    <3>6. QED
      BY <3>4, <3>5
  <2>2. /\ Away(r) /\ unquiet \subseteq unquiet'
        /\ \A v \in Users : Idle(r, v) =>
             (v \in gone' <=> v \in gone) /\ leaving'[v] = leaving[v]
               /\ game_saves_by_user'[v] = game_saves_by_user[v]
    BY <1>0, <1>19
     DEF TypeOK, SyncTypeOK, Goto, SetLocals, Begin, Finish, EditDeleteObject, EditDeleteToken,
         Away, Idle, WorksFor, LocalsReady, Creating
  <2>3. Device(r)
    BY <1>0, <1>c, <1>19
     DEF TypeOK, SyncTypeOK, Goto, SetLocals, Begin, Finish, EditDeleteObject, EditDeleteToken,
         Away, Idle, WorksFor, JobInv, Stages, ReadStages, RowStages, Creating, Editing,
         Deleting, Device
  <2>4. QED
    BY <2>1, <2>2, <2>3 DEF StepOf
<1>20. ASSUME NEW r \in Requests, DeleteUserNext(r), LeaveStep(r)
       PROVE  StepOf(r) /\ Elsewhere(r)
  <2>1. Elsewhere(r)
    <3>1. UNCHANGED <<game_saves, file_tokens, objects>>
      BY <1>20 DEF DeleteUserNext, LeaveStep
    <3>2. QED
      BY <3>1, TablesSame
  <2>2. /\ Away(r) /\ unquiet \subseteq unquiet'
        /\ \A v \in Users : Idle(r, v) =>
             (v \in gone' <=> v \in gone) /\ leaving'[v] = leaving[v]
               /\ game_saves_by_user'[v] = game_saves_by_user[v]
    BY <1>0, <1>20
     DEF TypeOK, SyncTypeOK, Goto, SetLocals, Begin, Finish, DeleteUserNext, LeaveStep, Away,
         Idle, WorksFor, LocalsReady, Creating
  <2>3. QED
    BY <1>20, <2>1, <2>2 DEF StepOf
<1>21. ASSUME NEW r \in Requests, DeleteUserFileLookup(r) \/ DeleteUserObject(r) \/ DeleteUserToken(r),
              LeaveStep(r)
       PROVE  StepOf(r) /\ Elsewhere(r)
  <2>1. Elsewhere(r)
    <3>1. /\ pc[r] \in {"du_lookup", "du_object", "du_token"} /\ UNCHANGED game_saves
          /\ file_tokens' \in {file_tokens, file_tokens \ {file[r]}}
          /\ objects' \in {objects, objects \ {file[r]}}
      BY <1>21 DEF DeleteUserFileLookup, DeleteUserObject, DeleteUserToken
    <3>2. user[r] \in Users
      BY <1>0, <3>1 DEF LocalsReady, TypeOK
    <3>3. \A s \in SaveIds : game_saves[s] = file[r] => s = save[r]
      BY <1>0, <3>1 DEF FileOfSave
    <3>4. QED
      BY <1>0, <3>1, <3>2, <3>3, TablesRemove DEF WorksFor
  <2>2. /\ Away(r) /\ unquiet \subseteq unquiet'
        /\ \A v \in Users : Idle(r, v) =>
             (v \in gone' <=> v \in gone) /\ leaving'[v] = leaving[v]
               /\ game_saves_by_user'[v] = game_saves_by_user[v]
    BY <1>0, <1>21
     DEF TypeOK, SyncTypeOK, Goto, SetLocals, Begin, Finish, DeleteUserFileLookup,
         DeleteUserObject, DeleteUserToken, LeaveStep, Restart, Rest, Away, Idle, WorksFor,
         LocalsReady, Creating
  <2>3. QED
    BY <1>21, <2>1, <2>2 DEF StepOf
<1>22. ASSUME NEW r \in Requests, DeleteUserSave(r), LeaveStep(r)
       PROVE  StepOf(r) /\ Elsewhere(r)
  <2>1. Elsewhere(r)
    <3>1. /\ game_saves' = [game_saves EXCEPT ![save[r]] = None] /\ UNCHANGED <<file_tokens, objects>>
          /\ save[r] \in SaveIds /\ user[r] \in Users
      BY <1>0, <1>22 DEF DeleteUserSave, LocalsReady, TypeOK
    <3>2. QED
      BY <1>0, <3>1, TablesPut DEF WorksFor
  <2>2. /\ Away(r) /\ unquiet \subseteq unquiet'
        /\ \A v \in Users : Idle(r, v) =>
             (v \in gone' <=> v \in gone) /\ leaving'[v] = leaving[v]
               /\ game_saves_by_user'[v] = game_saves_by_user[v]
    BY <1>0, <1>22
     DEF TypeOK, SyncTypeOK, Goto, SetLocals, Begin, Finish, DeleteUserSave, LeaveStep, Away,
         Idle, WorksFor, LocalsReady, Creating
  <2>3. QED
    BY <1>22, <2>1, <2>2 DEF StepOf
<1>23. ASSUME NEW r \in Requests, DeleteUserList(r), LeaveStep(r)
       PROVE  StepOf(r) /\ Elsewhere(r)
  <2>1. Elsewhere(r)
    <3>1. UNCHANGED <<game_saves, file_tokens, objects>>
      BY <1>23 DEF DeleteUserList, LeaveStep
    <3>2. QED
      BY <3>1, TablesSame
  <2>2. /\ Away(r) /\ unquiet \subseteq unquiet'
        /\ \A v \in Users : Idle(r, v) =>
             (v \in gone' <=> v \in gone) /\ leaving'[v] = leaving[v]
               /\ game_saves_by_user'[v] = game_saves_by_user[v]
    BY <1>0, <1>23
     DEF TypeOK, SyncTypeOK, Goto, SetLocals, Begin, Finish, DeleteUserList, LeaveStep, Away,
         Idle, WorksFor, LocalsReady, Creating
  <2>3. QED
    BY <1>23, <2>1, <2>2 DEF StepOf
<1>24. ASSUME NEW r \in Requests, LeaveSession(r)
       PROVE  StepOf(r) /\ Elsewhere(r)
  <2>1. Elsewhere(r)
    <3>1. UNCHANGED <<game_saves, file_tokens, objects>>
      BY <1>24 DEF LeaveSession, At, Restart, Rest, vars
    <3>2. QED
      BY <3>1, TablesSame
  <2>2. /\ Away(r) /\ unquiet \subseteq unquiet'
        /\ \A v \in Users : Idle(r, v) =>
             (v \in gone' <=> v \in gone) /\ leaving'[v] = leaving[v]
               /\ game_saves_by_user'[v] = game_saves_by_user[v]
    BY <1>0, <1>24
     DEF TypeOK, SyncTypeOK, Goto, SetLocals, Begin, Finish, LeaveSession, At, Restart, Rest,
         vars, Away, Idle, WorksFor, LocalsReady, Creating
  <2>3. QED
    BY <1>24, <2>1, <2>2 DEF StepOf
<1>25. QED
  BY <1>1, <1>2, <1>3, <1>4, <1>5, <1>6, <1>7, <1>8, <1>9, <1>10, <1>11, <1>12, <1>13, <1>14,
     <1>15, <1>16, <1>17, <1>18, <1>19, <1>20, <1>21, <1>22, <1>23, <1>24
     DEF SNext, ReadCall, Refused, Edit, DeleteUser, LeaveStep, SyncUpload, SyncPoint, SyncDiscard

LEMMA TailOfDistinct ==
  ASSUME NEW l \in Lists, l # NoSaves, NoRepeats(l)
  PROVE  NoRepeats(Tail(l)) /\ ToSet(Tail(l)) = ToSet(l) \ {Head(l)}
<1>1. l \in Seq(SaveIds) /\ l # <<>> /\ Len(l) \in Nat \ {0} /\ DOMAIN l = 1 .. Len(l) /\ Head(l) = l[1]
  BY DEF Lists, NoSaves
<1>2. DOMAIN Tail(l) = 1 .. Len(l) - 1 /\ \A i \in 1 .. Len(l) - 1 : Tail(l)[i] = l[i + 1]
  BY <1>1
<1>3. NoRepeats(Tail(l))
  <2>1. ASSUME NEW i \in 1 .. Len(l) - 1, NEW j \in 1 .. Len(l) - 1, Tail(l)[i] = Tail(l)[j] PROVE i = j
    <3>1. i + 1 \in DOMAIN l /\ j + 1 \in DOMAIN l /\ l[i + 1] = l[j + 1]
      BY <1>1, <1>2, <2>1
    <3>2. i + 1 = j + 1
      BY <3>1 DEF NoRepeats
    <3>3. QED
      BY <3>2
  <2>2. QED
    BY <1>2, <2>1 DEF NoRepeats
<1>4. ASSUME NEW x \in ToSet(Tail(l)) PROVE x \in ToSet(l) /\ x # Head(l)
  <2>1. PICK i \in 1 .. Len(l) - 1 : x = l[i + 1]
    BY <1>2, <1>4 DEF ToSet
  <2>2. i + 1 \in DOMAIN l /\ 1 \in DOMAIN l /\ i + 1 # 1
    BY <1>1
  <2>3. QED
    BY <1>1, <2>1, <2>2 DEF ToSet, NoRepeats
<1>5. ASSUME NEW x \in ToSet(l), x # Head(l) PROVE x \in ToSet(Tail(l))
  <2>1. PICK i \in 1 .. Len(l) : x = l[i]
    BY <1>1, <1>5 DEF ToSet
  <2>2. i - 1 \in 1 .. Len(l) - 1 /\ (i - 1) + 1 = i
    BY <1>1, <1>5, <2>1
  <2>3. Tail(l)[i - 1] = x
    BY <1>2, <2>1, <2>2
  <2>4. QED
    BY <1>2, <2>2, <2>3 DEF ToSet
<1>6. QED
  BY <1>3, <1>4, <1>5

(* A user whose delete begins with nobody else at work.                     *)
LEMMA BeginQuiet ==
  ASSUME SaveInv, OwnerInv, SavesStayLoadable, NEW r \in Requests, NEW u \in Users, LeaveBegin(r, u),
         QuietOK(u), u \notin unquiet'
  PROVE  QuietOK(u)'
<1>0. TypeOK /\ SyncTypeOK /\ JobInv /\ OneOwner
  BY DEF SaveInv, BaseInv, TypeInv, OwnerInv
<1>1. /\ pc[r] = "idle" /\ stage[r] = "rest" /\ u \notin gone /\ u \notin unquiet
      /\ Others(r, u) = {} /\ gone' = gone
      /\ UNCHANGED <<game_saves, game_saves_by_user, file_tokens, objects>>
      /\ leaving'[u] = leaving[u] \cup {<<s, game_saves[s]>> : s \in Listing(u)}
  BY <1>0 DEF LeaveBegin, CallsBegin, At, DeleteUserLookup, files, saves, SyncTypeOK
<1>2. /\ pc'[r] = "du_next" /\ stage'[r] = "leave" /\ player'[r] = u /\ user'[r] = u /\ save'[r] = None
      /\ ids'[r] = game_saves_by_user[u]
      /\ \A q \in Requests \ {r} : player'[q] = player[q] /\ user'[q] = user[q] /\ stage'[q] = stage[q]
  BY <1>0 DEF LeaveBegin, DeleteUserLookup, Restart, Begin, Goto, SetLocals, TypeOK, SyncTypeOK
<1>3. \A q \in Requests \ {r} : ~WorksFor(q, u) /\ ~WorksFor(q, u)'
  BY <1>1, <1>2 DEF Others, WorksFor
<1>4. leaving[u] = {}
  BY <1>1, <1>3 DEF QuietOK, Leaver, WorksFor
<1>5. game_saves_by_user[u] \in Lists /\ ToSet(game_saves_by_user[u]) \subseteq SaveIds
  BY <1>0 DEF TypeOK, Lists, ToSet
<1>6. ASSUME NEW s \in Listing(u)
      PROVE  s \in ToSet(game_saves_by_user[u]) /\ Has(game_saves, s) /\ Loadable(game_saves[s])
  <2>1. s \in SaveIds /\ s \in ToSet(game_saves_by_user[u]) /\ Has(game_saves, s)
    BY <1>5 DEF Listing
  <2>2. Kept(s)
    BY <1>0, <1>4, <2>1 DEF Kept, Owned, OneOwner
  <2>3. QED
    BY <2>1, <2>2 DEF SavesStayLoadable
<1>7. LeaverOK(r, u)'
  <2>1. NoRepeats(ids'[r])
    BY <1>2 DEF SaveInv, ListInv
  <2>2. \A s \in ToSet(ids'[r]) : Has(game_saves', s) => <<s, game_saves'[s]>> \in leaving'[u]
    BY <1>1, <1>2 DEF Listing
  <2>3. ASSUME NEW s \in SaveIds, NEW f \in Files, <<s, f>> \in leaving'[u]
        PROVE  s \in ToSet(ids'[r]) /\ Removing(r, s, f)'
    <3>1. s \in Listing(u) /\ f = game_saves[s]
      BY <1>1, <1>4, <2>3
    <3>2. QED
      BY <1>1, <1>2, <1>6, <3>1 DEF Removing, Loadable
  <2>4. QED
    BY <1>2, <1>3, <2>1, <2>2, <2>3 DEF LeaverOK
<1>8. QED
  BY <1>1, <1>2, <1>3, <1>7 DEF QuietOK, Leaver, WorksFor

(* A delete that has its user to itself finds what it looks for and goes on *)
(* removing.                                                                *)
LEMMA DeleteGoesOn ==
  ASSUME SaveInv, EmployerInv, NEW r \in Requests, NEW u \in Users, Leaver(r, u), LeaverOK(r, u), LeaveStep(r)
  PROVE  /\ LeaverOK(r, u)' /\ Leaver(r, u)' /\ (pc'[r] = "idle" => pc[r] = "du_next")
         /\ UNCHANGED <<leave, sync>>
<1>0. TypeOK /\ LocalsReady /\ SyncTypeOK /\ JobInv /\ OneSavePerFile
  BY DEF SaveInv, BaseInv, TypeInv, FileInv
<1>1. /\ pc[r] \in Deleting /\ user[r] = u /\ player[r] = u /\ stage[r] = "leave" /\ UNCHANGED leave
      /\ ids[r] \in Lists /\ ToSet(ids[r]) \subseteq SaveIds
  BY <1>0 DEF LeaveStep, Leaver, DeleteUser, DeleteUserNext, DeleteUserFileLookup, DeleteUserObject,
              DeleteUserToken, DeleteUserSave, DeleteUserList, Deleting, JobInv, TypeOK, Lists, ToSet
<1>2. /\ \A q \in Requests : WorksFor(q, u) => q = r
      /\ NoRepeats(ids[r])
  BY DEF LeaverOK
<1>3. \A s \in SaveIds, f \in Files : <<s, f>> \in leaving[u] =>
        IF s \in ToSet(ids[r]) THEN Removing(r, s, f) ELSE Cleared(s, f)
  BY DEF LeaverOK
<1>4. pc[r] \in {"du_lookup", "du_object", "du_token", "du_save"} =>
        /\ ids[r] # NoSaves /\ save[r] = Head(ids[r]) /\ save[r] \in ToSet(ids[r]) /\ save[r] \in SaveIds
  BY <1>0, <1>1, ToSetTail DEF LeaverOK, LocalsReady, TypeOK
<1>5. pc[r] \in {"du_lookup", "du_object", "du_token"} =>
        file[r] \in Files /\ <<save[r], file[r]>> \in leaving[u] /\ Removing(r, save[r], file[r])
  BY <1>0, <1>3, <1>4 DEF LeaverOK, LocalsReady, TypeOK
<1>6. ASSUME UNCHANGED sync, \A q \in Requests : user'[q] \in {user[q], None}
      PROVE  /\ Leaver(r, u)' /\ UNCHANGED <<leave, sync>>
             /\ \A q \in Requests : WorksFor(q, u)' => q = r
  BY <1>1, <1>2, <1>6 DEF Leaver, WorksFor, sync
<1>7. CASE DeleteUserNext(r)
  <2>1. /\ UNCHANGED sync /\ UNCHANGED <<user, ids, game_saves, game_saves_by_user, file_tokens, objects>>
        /\ ids[r] # NoSaves /\ pc[r] = "du_next"
        /\ save'[r] = Head(ids[r]) /\ file'[r] = game_saves[Head(ids[r])]
        /\ pc'[r] = IF Has(game_saves, Head(ids[r])) THEN "du_lookup" ELSE "du_save"
        /\ leaving' = leaving
    BY <1>0, <1>1, <1>7 DEF DeleteUserNext, LeaveStep, Goto, TypeOK, files, saves, leave
  <2>2. Head(ids[r]) \in ToSet(ids[r]) /\ Head(ids[r]) \in SaveIds
    BY <1>1, <2>1, ToSetTail
  <2>3. Has(game_saves, Head(ids[r])) => <<Head(ids[r]), game_saves[Head(ids[r])]>> \in leaving[u]
    BY <2>2 DEF LeaverOK
  <2>4. \A s \in SaveIds, f \in Files : <<s, f>> \in leaving[u] =>
          IF s \in ToSet(ids[r]) THEN Removing(r, s, f)' ELSE Cleared(s, f)'
    BY <1>3, <2>1, <2>2 DEF Removing, Cleared
  <2>5. LeaverOK(r, u)'
    BY <1>2, <1>6, <2>1, <2>3, <2>4 DEF LeaverOK
  <2>6. QED
    BY <1>6, <2>1, <2>5
<1>8. CASE DeleteUserFileLookup(r)
  <2>1. file[r] \in file_tokens
    BY <1>5, <1>8 DEF DeleteUserFileLookup, Removing
  <2>2. /\ UNCHANGED <<user, ids, save, file, game_saves, game_saves_by_user, file_tokens, objects>>
        /\ pc[r] = "du_lookup" /\ pc'[r] = "du_object" /\ UNCHANGED sync /\ leaving' = leaving
    BY <1>0, <1>1, <1>8, <2>1
     DEF DeleteUserFileLookup, LeaveStep, Goto, TypeOK, files, saves, local, leave
  <2>3. \A s \in SaveIds, f \in Files : <<s, f>> \in leaving[u] =>
          IF s \in ToSet(ids[r]) THEN Removing(r, s, f)' ELSE Cleared(s, f)'
    BY <1>3, <2>2 DEF Removing, Cleared
  <2>4. LeaverOK(r, u)'
    BY <1>2, <1>6, <2>2, <2>3 DEF LeaverOK
  <2>5. QED
    BY <1>6, <2>2, <2>4
<1>9. CASE DeleteUserObject(r)
  <2>1. pc[r] = "du_object" /\ file[r] \in objects
    BY <1>5, <1>9 DEF DeleteUserObject, Removing
  <2>2. /\ UNCHANGED <<user, ids, save, file, game_saves, game_saves_by_user, file_tokens>>
        /\ objects' = objects \ {file[r]}
        /\ pc'[r] = "du_token" /\ UNCHANGED sync /\ leaving' = leaving
    BY <1>0, <1>1, <1>9, <2>1
       DEF DeleteUserObject, CanDelete, LeaveStep, Goto, TypeOK, files, saves, local, leave
  <2>3. \A s \in SaveIds, f \in Files : <<s, f>> \in leaving[u] =>
          IF s \in ToSet(ids[r]) THEN Removing(r, s, f)' ELSE Cleared(s, f)'
    <3>1. ASSUME NEW s \in SaveIds, NEW f \in Files, <<s, f>> \in leaving[u], s \in ToSet(ids[r])
          PROVE  Removing(r, s, f)'
      <4>1. Removing(r, s, f)
        BY <1>3, <3>1
      <4>2. s = save[r] <=> f = file[r]
        BY <1>0, <1>4, <1>5, <2>1, <4>1 DEF Removing, OneSavePerFile
      <4>3. QED
        BY <2>1, <2>2, <4>1, <4>2 DEF Removing
    <3>2. QED
      BY <1>3, <2>2, <3>1 DEF Cleared
  <2>4. LeaverOK(r, u)'
    BY <1>2, <1>4, <1>5, <1>6, <2>1, <2>2, <2>3 DEF LeaverOK
  <2>5. QED
    BY <1>6, <2>2, <2>4
<1>10. CASE DeleteUserToken(r)
  <2>1. /\ UNCHANGED <<user, ids, save, file, game_saves, game_saves_by_user, objects>>
        /\ file_tokens' = file_tokens \ {file[r]} /\ pc[r] = "du_token"
        /\ pc'[r] = "du_save" /\ UNCHANGED sync /\ leaving' = leaving
    BY <1>0, <1>1, <1>10
       DEF DeleteUserToken, LeaveStep, Goto, TypeOK, files, saves, local, leave
  <2>2. \A s \in SaveIds, f \in Files : <<s, f>> \in leaving[u] =>
          IF s \in ToSet(ids[r]) THEN Removing(r, s, f)' ELSE Cleared(s, f)'
    <3>1. ASSUME NEW s \in SaveIds, NEW f \in Files, <<s, f>> \in leaving[u], s \in ToSet(ids[r])
          PROVE  Removing(r, s, f)'
      <4>1. Removing(r, s, f)
        BY <1>3, <3>1
      <4>2. s = save[r] <=> f = file[r]
        BY <1>0, <1>4, <1>5, <2>1, <4>1 DEF Removing, OneSavePerFile
      <4>3. QED
        BY <2>1, <4>1, <4>2 DEF Removing
    <3>2. QED
      BY <1>3, <2>1, <3>1 DEF Cleared
  <2>3. LeaverOK(r, u)'
    BY <1>2, <1>4, <1>6, <2>1, <2>2 DEF LeaverOK
  <2>4. QED
    BY <1>6, <2>1, <2>3
<1>11. CASE DeleteUserSave(r)
  <2>1. /\ UNCHANGED <<user, save, file, game_saves_by_user, file_tokens, objects>>
        /\ game_saves' = [game_saves EXCEPT ![save[r]] = None] /\ pc[r] = "du_save"
        /\ ids'[r] = Tail(ids[r])
        /\ pc'[r] = "du_next" /\ UNCHANGED sync /\ leaving' = leaving
    BY <1>0, <1>1, <1>11 DEF DeleteUserSave, LeaveStep, Goto, TypeOK, files, leave
  <2>2. NoRepeats(Tail(ids[r])) /\ ToSet(Tail(ids[r])) = ToSet(ids[r]) \ {save[r]}
    BY <1>1, <1>2, <1>4, <2>1, TailOfDistinct
  <2>3. /\ game_saves'[save[r]] = None
        /\ \A s \in SaveIds : s # save[r] => game_saves'[s] = game_saves[s]
    BY <1>0, <1>4, <2>1 DEF TypeOK
  <2>4. \A s \in SaveIds, f \in Files : <<s, f>> \in leaving[u] =>
          IF s \in ToSet(Tail(ids[r])) THEN Removing(r, s, f)' ELSE Cleared(s, f)'
    BY <1>3, <1>4, <2>1, <2>2, <2>3 DEF Removing, Cleared
  <2>5. \A s \in ToSet(Tail(ids[r])) : Has(game_saves', s) => <<s, game_saves'[s]>> \in leaving[u]
    BY <1>1, <2>2, <2>3 DEF LeaverOK
  <2>6. LeaverOK(r, u)'
    BY <1>6, <2>1, <2>2, <2>4, <2>5 DEF LeaverOK
  <2>7. QED
    BY <1>6, <2>1, <2>6
<1>12. CASE DeleteUserList(r)
  <2>1. /\ \A q \in Requests : user'[q] \in {user[q], None}
        /\ UNCHANGED <<game_saves, file_tokens, objects>> /\ pc[r] = "du_next" /\ ids[r] = NoSaves
        /\ game_saves_by_user'[u] = NoSaves
        /\ ids'[r] = NoSaves /\ pc'[r] = "idle" /\ UNCHANGED sync /\ leaving' = leaving
    BY <1>0, <1>1, <1>12
     DEF DeleteUserList, LeaveStep, Finish, SetLocals, Goto, TypeOK, files, leave
  <2>2. \A s \in SaveIds, f \in Files : <<s, f>> \in leaving[u] =>
          IF s \in ToSet(ids'[r]) THEN Removing(r, s, f)' ELSE Cleared(s, f)'
    BY <1>3, <2>1, NoSavesType DEF Cleared
  <2>3. LeaverOK(r, u)'
    BY <1>6, <2>1, <2>2, NoSavesType DEF LeaverOK
  <2>4. QED
    BY <1>6, <2>1, <2>3
<1>13. QED
  BY <1>7, <1>8, <1>9, <1>10, <1>11, <1>12 DEF LeaveStep, DeleteUser

LEMMA QuietStep ==
  SaveInv /\ OwnerInv /\ SavesStayLoadable /\ QuietInv /\ [SNext]_svars => QuietInv'
<1> SUFFICES ASSUME SaveInv, OwnerInv, SavesStayLoadable, QuietInv, [SNext]_svars,
                    NEW u \in Users, u \notin unquiet'
             PROVE  QuietOK(u)'
  BY DEF QuietInv
<1>0. TypeOK /\ LocalsReady /\ SyncTypeOK /\ JobInv /\ EmployerInv
  BY DEF SaveInv, BaseInv, TypeInv, OwnerInv
<1>1. CASE UNCHANGED svars
  BY <1>1 DEF svars, vars, files, saves, local, sync, reads, leave, QuietInv, QuietOK, GoneOK, LeaverOK,
              Leaver, Removing, Cleared, WorksFor
<1>2. ASSUME NEW r \in Requests, StepOf(r), Elsewhere(r) PROVE QuietOK(u)'
  <2>1. u \notin unquiet /\ QuietOK(u)
    BY <1>2 DEF StepOf, QuietInv
  <2>2. CASE Idle(r, u)
    <3>1. Foreign(u)
      BY <1>2, <2>2 DEF StepOf, Elsewhere, Foreign, Idle
    <3>2. QED
      BY <1>0, <1>2, <2>1, <2>2, <3>1, ForeignKeeps DEF StepOf
  <2>3. CASE ~Idle(r, u) /\ Device(r)
    <3>1. u \notin gone /\ \A q \in Requests : ~Leaver(q, u)
      <4>1. CASE WorksFor(r, u)
        BY <2>1, <2>3, <4>1 DEF QuietOK, GoneOK, LeaverOK, Leaver, Device
      <4>2. CASE ~WorksFor(r, u)
        BY <2>3, <4>2 DEF Idle, Device, CallsBegin, Leaving, Leaver
      <4>3. QED
        BY <4>1, <4>2
    <3>2. u \notin gone' /\ \A q \in Requests : ~Leaver(q, u)'
      BY <1>2, <2>3, <3>1 DEF StepOf, Away, Device, Leaver
    <3>3. QED
      BY <2>1, <2>3, <3>1, <3>2 DEF QuietOK, Device
  <2>4. CASE GivesUp(r)
    <3>1. player[r] # u /\ player[r] # None
      BY <1>0, <2>4 DEF GivesUp, JobInv
    <3>2. Idle(r, u)
      BY <1>0, <2>4, <3>1 DEF GivesUp, EmployerInv, Idle, WorksFor
    <3>3. QED
      BY <2>2, <3>2
  <2>5. ASSUME NEW v \in Users, LeaveBegin(r, v) PROVE QuietOK(u)'
    <3>1. CASE u = v
      BY <2>1, <2>5, <3>1, BeginQuiet
    <3>2. CASE u # v
      <4>1. player[r] = None /\ user[r] = None
        BY <1>0, <2>5 DEF LeaveBegin, At, JobInv
      <4>2. player'[r] = v /\ user'[r] = v
        BY <1>0, <2>5
         DEF LeaveBegin, DeleteUserLookup, Begin, SetLocals, Restart, TypeOK, SyncTypeOK
      <4>3. Idle(r, u)
        BY <3>2, <4>1, <4>2 DEF Idle, WorksFor
      <4>4. QED
        BY <2>2, <4>3
    <3>3. QED
      BY <3>1, <3>2
  <2>6. CASE LeaveStep(r) /\ ~Idle(r, u)
    <3>1. pc[r] \in Deleting
      BY <2>6 DEF LeaveStep, DeleteUser, DeleteUserNext, DeleteUserFileLookup, DeleteUserObject,
                  DeleteUserToken, DeleteUserSave, DeleteUserList, Deleting
    <3>2. stage[r] = "leave" /\ user[r] = player[r]
      BY <1>0, <3>1 DEF JobInv, SyncTypeOK, Stages, ReadStages, RowStages, Deleting, Creating, Editing
    <3>3. player'[r] \in {player[r], None} /\ user'[r] \in {user[r], None}
      BY <1>0, <2>6
       DEF LeaveStep, DeleteUser, DeleteUserNext, DeleteUserFileLookup, DeleteUserObject,
                  DeleteUserToken, DeleteUserSave, DeleteUserList, Finish, SetLocals, Rest, Restart,
                  TypeOK, SyncTypeOK, local, sync
    <3>4. Leaver(r, u)
      BY <2>6, <3>2, <3>3 DEF Idle, WorksFor, Leaver
    <3>5. u \notin gone /\ LeaverOK(r, u)
      BY <2>1, <3>4 DEF QuietOK
    <3>6. LeaverOK(r, u)' /\ Leaver(r, u)' /\ UNCHANGED leave
      BY <1>0, <2>6, <3>4, <3>5, DeleteGoesOn
    <3>7. \A q \in Requests : Leaver(q, u)' => q = r
      BY <3>6 DEF LeaverOK, Leaver, WorksFor
    <3>8. QED
      BY <3>5, <3>6, <3>7 DEF QuietOK, leave
  <2>7. CASE LeaveSession(r) /\ ~Idle(r, u)
    <3>1. /\ pc[r] = "idle" /\ pc' = pc /\ stage[r] = "leave" /\ player'[r] = None /\ user' = user /\ user[r] = None
          /\ ids[r] = NoSaves /\ leaving' = leaving
          /\ UNCHANGED <<game_saves, game_saves_by_user, file_tokens, objects>>
          /\ \A q \in Requests \ {r} : player'[q] = player[q]
      BY <1>0, <2>7 DEF LeaveSession, At, Rest, Restart, JobInv, EmployerInv, SyncTypeOK,
                        vars, files, saves, local
    <3>2. Leaver(r, u)
      BY <2>7, <3>1 DEF Idle, WorksFor, Leaver
    <3>3. LeaverOK(r, u) /\ gone' = gone \cup {u}
      BY <2>1, <2>7, <3>2 DEF QuietOK, LeaveSession, Leaver
    <3>4. \A q \in Requests : ~WorksFor(q, u)'
      BY <3>1, <3>3 DEF LeaverOK, WorksFor
    <3>5. GoneOK(u)'
      BY <3>1, <3>3, <3>4, NoSavesType DEF LeaverOK, GoneOK, Cleared
    <3>6. QED
      BY <3>3, <3>4, <3>5 DEF QuietOK, Leaver, WorksFor
  <2>8. QED
    BY <1>2, <2>2, <2>3, <2>4, <2>5, <2>6, <2>7 DEF StepOf
<1>3. QED
  BY <1>1, <1>2, StepForeign DEF svars

LEMMA RefusalStep ==
  ASSUME SaveInv, OwnerInv, QuietInv, [SNext]_svars, NEW r \in Requests,
         stage[r] = "leave", pc[r] \in {"du_lookup", "du_object"}, pc'[r] = "idle"
  PROVE  player[r] \in unquiet'
<1>0. JobInv /\ SyncTypeOK /\ EmployerInv
  BY DEF SaveInv, BaseInv, OwnerInv
<1>1. ~UNCHANGED svars
  BY DEF svars, vars
<1>2. PICK q \in Requests : StepOf(q)
  BY <1>1, StepForeign
<1>3. q = r
  BY <1>2 DEF StepOf, Away
<1>4. CASE LeaveStep(r)
  <2>1. player[r] \in Users /\ Leaver(r, player[r])
    BY <1>0 DEF JobInv, SyncTypeOK, Leaver
  <2>2. player[r] \in unquiet
    BY <1>0, <1>4, <2>1, DeleteGoesOn DEF QuietInv, QuietOK
  <2>3. QED
    BY <1>2, <1>3, <2>2 DEF StepOf
<1>5. QED
  BY <1>2, <1>3, <1>4 DEF StepOf, Device, GivesUp, LeaveBegin, LeaveSession, At

(* The invariant of the whole: what devices, editors and deletes keep.      *)
LEMMA QuietInvariant == SSpec => [](SaveInv /\ OwnerInv /\ QuietInv)
<1>1. SInit => SavesStayLoadable
  BY DEF SInit, Init, SavesStayLoadable
<1>2. SaveInv /\ OwnerInv /\ [SNext]_svars => OwnerInv'
  BY EmployerStep, OwnerStep DEF OwnerInv
<1>3. QED
  BY SaveInit, SaveStep, LoadableStep, OwnerInit, QuietInit, QuietStep, <1>1, <1>2, PTL DEF SSpec

(* A delete that had its user to itself leaves nothing of what was listed:  *)
(* no row, no token, no object, no list, whatever the user's devices raced  *)
(* before and whatever other users do meanwhile.                            *)
THEOREM DeletionWithoutTrace == SSpec => []DeletedWithoutTrace
<1>1. SaveInv /\ QuietInv => DeletedWithoutTrace
  <2> SUFFICES ASSUME SaveInv, QuietInv, NEW u \in gone \ unquiet
               PROVE  /\ game_saves_by_user[u] = NoSaves
                      /\ \A s \in SaveIds, f \in Files : <<s, f>> \in leaving[u] =>
                           ~Has(game_saves, s) /\ f \notin file_tokens /\ f \notin objects
    BY DEF DeletedWithoutTrace
  <2>1. QED
    BY DEF SaveInv, BaseInv, SyncTypeOK, QuietInv, QuietOK, GoneOK, Cleared
<1>2. QED
  BY <1>1, QuietInvariant, PTL

(* Such a delete is not refused: each listed save it comes to has the token *)
(* and the object of its file.                                              *)
THEOREM QuietDeletesSucceed == SSpec => QuietDeleteSucceeds
<1>1. SaveInv /\ OwnerInv /\ QuietInv /\ [SNext]_svars =>
        [\A r \in Requests :
           (stage[r] = "leave" /\ pc[r] \in {"du_lookup", "du_object"} /\ pc'[r] = "idle")
             => player[r] \in unquiet']_svars
  BY RefusalStep
<1>2. QED
  BY <1>1, QuietInvariant, PTL DEF SSpec, QuietDeleteSucceeds
=============================================================================
