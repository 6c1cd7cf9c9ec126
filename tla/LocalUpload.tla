---------------------------- MODULE LocalUpload -----------------------------
(***************************************************************************)
(* Multipart uploads in the local bucket of pcs_cli (file_bucket.rs), as    *)
(* handle_start_upload, handle_upload_part and handle_complete_upload of    *)
(* file/handler.rs drive them.  An upload lives in two places on disk: a    *)
(* state file with the parts recorded so far, read whole when a call begins *)
(* and written whole when a part ends, and a directory of part files.       *)
(* Nothing locks either, so calls on one upload may overlap.                *)
(*                                                                          *)
(* Each operation on a file is an action; create_dir_all of the directories *)
(* every upload shares is left out.  A part's bytes are the pair of its     *)
(* upload and its number, and a part sent again has the same bytes.  Abort  *)
(* ends a call between two operations: an I/O error, a dropped connection   *)
(* (when the operation handed to the blocking pool has ended), a stop of    *)
(* the process.  MultipartUpload::abort has no caller and is left out, and  *)
(* so is the token, which each handler looks up first: see GameSaves.       *)
(***************************************************************************)
EXTENDS Naturals, Sequences, Functions

CONSTANTS
  None,        \* no such file
  Keys,        \* keys of objects
  Uploads,     \* ids random_id may return for an upload
  Parts,       \* part numbers
  Requests,    \* calls that may be in flight at once
  MaxRecorded  \* bound on the parts a state file records

ASSUME LocalUploadAssumption ==
  /\ Parts \subseteq Nat
  /\ Parts # {}
  /\ MaxRecorded \in Nat
  /\ None \notin Keys \cup Uploads \cup (Uploads \X Parts)
  /\ None \notin [parts: Seq(Parts), valid: BOOLEAN]

VARIABLES
  upload_key,  \* key an upload was created for, None if it was not
  state_file,  \* .parts/<upload id>.json
  parts_dir,   \* uploads with a directory .parts/<upload id>
  part_file,   \* what is in .parts/<upload id>/<part number>
  objects,     \* chunks of the object under a key
  pc,          \* the operation each call is about to perform
  call,        \* its variables
  acked,       \* parts of an undisturbed upload the server answered for
  disturbed,   \* uploads used in a way the state file cannot cope with
  stored       \* upload whose complete was answered and not overwritten since

disk == <<state_file, parts_dir, part_file, objects>>
history == <<acked, disturbed, stored>>
vars == <<upload_key, disk, pc, call, history>>

PartLabels == {"part_dir", "part_create", "part_write", "part_truncate", "part_save", "part_reply"}
CompleteLabels == {"comp_create", "comp_copy", "comp_state", "comp_reply"}

(* A state file that does not parse: just truncated, or a longer text       *)
(* overwritten by a shorter one.  `parts' then only tells its length.       *)
StateFile == [parts: Seq(Parts), valid: BOOLEAN]
Truncated == [parts |-> <<>>, valid |-> FALSE]

Chunk == Uploads \X Parts

Call == [upload: Uploads, part: Parts, parts: Seq(Parts), next: Nat \ {0}, size: Nat]

(* What is on disk and what the calls hold have their types.                *)
TypeOK ==
  /\ upload_key \in [Uploads -> Keys \cup {None}]
  /\ state_file \in [Uploads -> StateFile \cup {None}]
  /\ parts_dir \subseteq Uploads
  /\ part_file \in [Uploads -> [Parts -> {"absent", "empty", "whole"}]]
  /\ objects \in [Keys -> Seq(Chunk \cup {None}) \cup {None}]
  /\ pc \in [Requests -> {"idle"} \cup PartLabels \cup CompleteLabels]
  /\ call \in [Requests -> Call \cup {None}]
  /\ \A r \in Requests : IF pc[r] = "idle" THEN call[r] = None ELSE call[r] \in Call
  /\ acked \in [Uploads -> SUBSET Parts]
  /\ disturbed \subseteq Uploads
  /\ stored \in [Keys -> Uploads \cup {None}]

Init ==
  /\ upload_key = [u \in Uploads |-> None]
  /\ state_file = [u \in Uploads |-> None]
  /\ parts_dir = {}
  /\ part_file = [u \in Uploads |-> [n \in Parts |-> "absent"]]
  /\ objects = [k \in Keys |-> None]
  /\ pc = [r \in Requests |-> "idle"]
  /\ call = [r \in Requests |-> None]
  /\ acked = [u \in Uploads |-> {}]
  /\ disturbed = {}
  /\ stored = [k \in Keys |-> None]

-----------------------------------------------------------------------------
Elements(s) == {s[i] : i \in DOMAIN s}

Goto(r, label) == pc' = [pc EXCEPT ![r] = label]

Finish(r) == Goto(r, "idle") /\ call' = [call EXCEPT ![r] = None]

Busy(u) == {r \in Requests : pc[r] # "idle" /\ call[r].upload = u}

(* Completes in flight that write the object under k.                       *)
Completing(k) ==
  {r \in Requests : pc[r] \in CompleteLabels /\ upload_key[call[r].upload] = k}

(* Mutant: an upload whose state is gone starts over.                       *)
CreatedReadable(u) == upload_key[u] # None /\ (state_file[u] # None => state_file[u].valid)

(* get_multipart_upload finds the upload and can read its state.            *)
Readable(u) == state_file[u] # None /\ state_file[u].valid

(* The parts get_multipart_upload reads.                                    *)
Recorded(u) == IF state_file[u] = None THEN <<>> ELSE state_file[u].parts

(* fs::write after its truncation: the new text lands at offset 0 of        *)
(* whatever is in the file by then, and on nothing if it is unlinked.       *)
Overlay(old, parts) ==
  IF old = None THEN None
  ELSE [parts |-> IF Len(old.parts) > Len(parts) THEN old.parts ELSE parts,
        valid |-> Len(old.parts) <= Len(parts)]

(* A write of one chunk at an offset; skipped bytes read as zeros.          *)
WriteAt(object, offset, chunk) ==
  [i \in 1 .. (IF Len(object) > offset THEN Len(object) ELSE offset + 1) |->
     IF i = offset + 1 THEN chunk ELSE IF i <= Len(object) THEN object[i] ELSE None]

Begin(r, u, n, label) ==
  /\ pc[r] = "idle"
  /\ Readable(u)
  /\ call' = [call EXCEPT ![r] =
       [upload |-> u, part |-> n, parts |-> Recorded(u), next |-> 1, size |-> 0]]
  /\ Goto(r, label)
  /\ UNCHANGED <<upload_key, disk, stored>>

-----------------------------------------------------------------------------
CreateMultipartUpload(u, k) ==
  /\ upload_key[u] = None
  /\ upload_key' = [upload_key EXCEPT ![u] = k]
  /\ state_file' = [state_file EXCEPT ![u] = [parts |-> <<>>, valid |-> TRUE]]
  /\ UNCHANGED <<parts_dir, part_file, objects, pc, call, history>>

(* Uploads us are used so that nothing is promised of them any more.        *)
Disturb(us) ==
  /\ disturbed' = disturbed \cup us
  /\ acked' = [u \in Uploads |-> IF u \in us THEN {} ELSE acked[u]]

(* A part disturbs its upload when another call on it is in flight, when    *)
(* the state records the part already, or when the upload was completed.    *)
PartLookup(r, u, n) ==
  /\ Begin(r, u, n, "part_dir")
  /\ Len(Recorded(u)) < MaxRecorded
  /\ IF \/ Busy(u) # {}
        \/ n \in Elements(Recorded(u))
        \/ stored[upload_key[u]] = u
     THEN Disturb({u}) ELSE UNCHANGED <<disturbed, acked>>

PartMakeDir(r) ==
  /\ pc[r] = "part_dir"
  /\ parts_dir' = parts_dir \cup {call[r].upload}
  /\ Goto(r, "part_create")
  /\ UNCHANGED <<upload_key, state_file, part_file, objects, call, history>>

(* File::create truncates; it fails if the directory is gone again.         *)
PartCreate(r) ==
  /\ pc[r] = "part_create"
  /\ \/ /\ call[r].upload \in parts_dir
        /\ part_file' = [part_file EXCEPT ![call[r].upload][call[r].part] = "empty"]
        /\ Goto(r, "part_write")
        /\ UNCHANGED call
     \/ /\ call[r].upload \notin parts_dir
        /\ Finish(r)
        /\ UNCHANGED part_file
  /\ UNCHANGED <<upload_key, state_file, parts_dir, objects, history>>

(* The bytes go to an unlinked file if the directory was removed meanwhile. *)
PartWrite(r) ==
  /\ pc[r] = "part_write"
  /\ part_file' =
       IF part_file[call[r].upload][call[r].part] = "absent" THEN part_file
       ELSE [part_file EXCEPT ![call[r].upload][call[r].part] = "whole"]
  /\ Goto(r, "part_truncate")
  /\ UNCHANGED <<upload_key, state_file, parts_dir, objects, call, history>>

(* save_state, first half: fs::write creates or truncates the state file.   *)
PartTruncateState(r) ==
  /\ pc[r] = "part_truncate"
  /\ state_file' = [state_file EXCEPT ![call[r].upload] = Truncated]
  /\ Goto(r, "part_save")
  /\ UNCHANGED <<upload_key, parts_dir, part_file, objects, call, history>>

(* Mutant: parts are recorded by index.                                     *)
PartSaveZeroBased(r) ==
  /\ pc[r] = "part_save"
  /\ state_file' = [state_file EXCEPT ![call[r].upload] =
       Overlay(@, Append(call[r].parts, call[r].part - 1))]
  /\ Goto(r, "part_reply")
  /\ UNCHANGED <<upload_key, parts_dir, part_file, objects, call, history>>

(* save_state, second half: the parts read at the start and this one.       *)
PartSaveState(r) ==
  /\ pc[r] = "part_save"
  /\ state_file' = [state_file EXCEPT ![call[r].upload] =
       Overlay(@, Append(call[r].parts, call[r].part))]
  /\ Goto(r, "part_reply")
  /\ UNCHANGED <<upload_key, parts_dir, part_file, objects, call, history>>

PartReply(r) ==
  /\ pc[r] = "part_reply"
  /\ acked' = IF call[r].upload \in disturbed THEN acked
              ELSE [acked EXCEPT ![call[r].upload] = @ \cup {call[r].part}]
  /\ Finish(r)
  /\ UNCHANGED <<upload_key, disk, disturbed, stored>>

-----------------------------------------------------------------------------
(* The parts the client lists are ignored.  A complete must have its upload *)
(* and its key to itself.                                                   *)
CompleteLookup(r, u) ==
  /\ Begin(r, u, CHOOSE n \in Parts : TRUE, "comp_create")
  /\ LET rivals == {call[q].upload : q \in Completing(upload_key[u])}
     IN IF Busy(u) # {} \/ rivals # {}
        THEN Disturb(rivals \cup {u}) ELSE UNCHANGED <<disturbed, acked>>

(* The object is truncated before any part has been read.                   *)
CompleteCreate(r) ==
  /\ pc[r] = "comp_create"
  /\ LET k == upload_key[call[r].upload]
     IN /\ objects' = [objects EXCEPT ![k] = <<>>]
        /\ stored' = [stored EXCEPT ![k] = None]
  /\ Goto(r, "comp_copy")
  /\ UNCHANGED <<upload_key, state_file, parts_dir, part_file, call, acked, disturbed>>

(* Mutant: the order in which the parts came.                               *)
UnsortedParts(parts) == parts

(* sort_by_key on part_number: the places of the parts, put in order.       *)
Orders(parts) ==
  {p \in Bijection(DOMAIN parts, DOMAIN parts) :
     \A i, j \in DOMAIN parts : i < j => parts[p[i]] <= parts[p[j]]}

SortedParts(parts) ==
  LET p == CHOOSE p \in Orders(parts) : TRUE
  IN [i \in DOMAIN parts |-> parts[p[i]]]

(* One part: read its file, append it to the object.                        *)
CompleteCopy(r) ==
  /\ pc[r] = "comp_copy"
  /\ call[r].next <= Len(call[r].parts)
  /\ LET c == call[r]
         k == upload_key[c.upload]
         n == SortedParts(c.parts)[c.next]
     IN \/ /\ part_file[c.upload][n] = "whole"
           /\ objects' = [objects EXCEPT ![k] = WriteAt(@, c.size, <<c.upload, n>>)]
           /\ call' = [call EXCEPT ![r].next = @ + 1, ![r].size = @ + 1]
           /\ UNCHANGED pc
        \/ /\ part_file[c.upload][n] = "empty"
           /\ call' = [call EXCEPT ![r].next = @ + 1]
           /\ UNCHANGED <<objects, pc>>
        \/ /\ part_file[c.upload][n] = "absent"
           /\ Finish(r)
           /\ UNCHANGED objects
  /\ UNCHANGED <<upload_key, state_file, parts_dir, part_file, history>>

(* remove_dir_all: it fails if there is no directory, and it may fail       *)
(* having removed some of the parts.                                        *)
CompleteRemoveParts(r) ==
  /\ pc[r] = "comp_copy"
  /\ call[r].next > Len(call[r].parts)
  /\ LET u == call[r].upload
     IN \/ /\ u \in parts_dir
           /\ parts_dir' = parts_dir \ {u}
           /\ part_file' = [part_file EXCEPT ![u] = [n \in Parts |-> "absent"]]
           /\ Goto(r, "comp_state")
           /\ UNCHANGED call
        \/ /\ \E S \in SUBSET Parts :
                part_file' = [part_file EXCEPT ![u] =
                  [n \in Parts |-> IF n \in S THEN "absent" ELSE @[n]]]
           /\ Finish(r)
           /\ UNCHANGED parts_dir
  /\ UNCHANGED <<upload_key, state_file, objects, history>>

(* remove_file of the state; an error is ignored.                           *)
CompleteRemoveState(r) ==
  /\ pc[r] = "comp_state"
  /\ \E gone \in BOOLEAN :
       state_file' = IF gone THEN [state_file EXCEPT ![call[r].upload] = None] ELSE state_file
  /\ Goto(r, "comp_reply")
  /\ UNCHANGED <<upload_key, parts_dir, part_file, objects, call, history>>

CompleteReply(r) ==
  /\ pc[r] = "comp_reply"
  /\ stored' = [stored EXCEPT ![upload_key[call[r].upload]] = call[r].upload]
  /\ Finish(r)
  /\ UNCHANGED <<upload_key, disk, acked, disturbed>>

Abort(r) ==
  /\ pc[r] # "idle"
  /\ Finish(r)
  /\ UNCHANGED <<upload_key, disk, history>>

PartStep(r) ==
  \/ PartMakeDir(r) \/ PartCreate(r) \/ PartWrite(r)
  \/ PartTruncateState(r) \/ PartSaveState(r) \/ PartReply(r)

CompleteStep(r) ==
  \/ CompleteCreate(r) \/ CompleteCopy(r)
  \/ CompleteRemoveParts(r) \/ CompleteRemoveState(r) \/ CompleteReply(r)

Next ==
  \/ \E u \in Uploads, k \in Keys : CreateMultipartUpload(u, k)
  \/ \E r \in Requests :
       \/ \E u \in Uploads : CompleteLookup(r, u) \/ \E n \in Parts : PartLookup(r, u, n)
       \/ PartStep(r) \/ CompleteStep(r) \/ Abort(r)

Spec == Init /\ [][Next]_vars

-----------------------------------------------------------------------------
(* The parts an object shows, when it is made of whole parts of u alone and *)
(* in ascending order.                                                      *)
MadeOf(object, u) ==
  /\ \A i \in DOMAIN object : object[i] # None /\ object[i][1] = u
  /\ \A i, j \in DOMAIN object : i < j => object[i][2] < object[j][2]

(* A complete that is answered has stored every part that was answered for, *)
(* whole, once and in order, whatever calls failed or were given up before: *)
(* provided no two calls on the upload overlapped, no recorded part was     *)
(* sent again, none after the answer, and no other complete wrote the key   *)
(* meanwhile. It stays so until another complete on the key begins.         *)
(* (FileMultipartUpload's upload_part and complete keep their parts in a    *)
(* file they read, extend and write back.)                                  *)
CompletedIsWhole ==
  \A k \in Keys : stored[k] # None /\ stored[k] \notin disturbed =>
    /\ MadeOf(objects[k], stored[k])
    /\ \A n \in acked[stored[k]] : <<stored[k], n>> \in Elements(objects[k])

Closed(u) == upload_key[u] # None /\ state_file[u] = None /\ Busy(u) = {}

(* An upload whose state file is gone, with no call on it in flight, is     *)
(* over: no late or repeated call finds it again, or truncates the object   *)
(* it has stored.  (get_multipart_upload reads the state file first.)       *)
ClosedForGood == [][\A u \in Uploads : Closed(u) => Closed(u)']_vars
=============================================================================
