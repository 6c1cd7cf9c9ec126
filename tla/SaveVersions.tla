---------------------------- MODULE SaveVersions ----------------------------
(***************************************************************************)
(* What the save API promises the devices and editors of a user: a save has *)
(* a content at every instant, it goes from one whole version to another,   *)
(* each version is stored once and never comes back, and only the delete of *)
(* its user takes the content away.  SaveClients implements it.             *)
(***************************************************************************)
CONSTANTS None, SaveIds, Versions

VARIABLES
  current,  \* the version each save has, None without one
  drafts,   \* versions somebody works on
  drawn,    \* versions anybody ever worked on
  closing   \* saves that a delete of their user has set out to remove

vars == <<current, drafts, drawn, closing>>

Init ==
  /\ current = [s \in SaveIds |-> None]
  /\ drafts = {}
  /\ drawn = {}
  /\ closing = {}

Draft(v) ==
  /\ drawn' = drawn \cup {v}
  /\ drafts' = drafts \cup {v}
  /\ UNCHANGED <<current, closing>>

Discard(v) ==
  /\ drafts' = drafts \ {v}
  /\ UNCHANGED <<current, drawn, closing>>

(* Whatever version s has is replaced at one instant.                       *)
Store(s, v) ==
  /\ current' = [current EXCEPT ![s] = v]
  /\ drafts' = drafts \ {v}
  /\ UNCHANGED <<drawn, closing>>

Close ==
  /\ closing' \in SUBSET SaveIds
  /\ closing \subseteq closing'
  /\ UNCHANGED <<current, drafts, drawn>>

Remove(s) ==
  /\ s \in closing
  /\ current' = [current EXCEPT ![s] = None]
  /\ UNCHANGED <<drafts, drawn, closing>>

Next ==
  \/ Close
  \/ \E v \in Versions \ drawn : Draft(v)
  \/ \E v \in drafts : Discard(v) \/ \E s \in SaveIds : Store(s, v)
  \/ \E s \in SaveIds : Remove(s)

Spec == Init /\ [][Next]_vars
=============================================================================
