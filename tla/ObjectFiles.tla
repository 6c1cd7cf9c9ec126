---------------------------- MODULE ObjectFiles -----------------------------
(***************************************************************************)
(* The object files of the local bucket of pcs_cli (file_bucket.rs) while   *)
(* they are written, deleted and downloaded at once.  A name leads to a     *)
(* file; put and complete truncate that file and write it piece by piece,   *)
(* delete takes the name away, and whoever has opened the file keeps it.    *)
(* A download opens it (FileBucket::get), reads it piece by piece and       *)
(* answers when it has all of it (handle_req of main.rs).                   *)
(*                                                                          *)
(* Pieces are of one size: what one read returns and one write replaces.    *)
(* A version is the bytes of one put or of one multipart upload, which      *)
(* LocalUpload assembles; it is written again when a complete is repeated.  *)
(* The token each handler looks up first is left out: see GameSaves.        *)
(***************************************************************************)
EXTENDS Naturals, Sequences, SequencesExt

CONSTANTS
  None,      \* no such file
  Keys,      \* names of objects
  Inodes,    \* files the disk can hold at once, linked or only open
  Versions,  \* what may be stored
  Length,    \* pieces of each version
  Writers,   \* puts and completes in flight at once
  Readers    \* downloads in flight at once

ASSUME ObjectFilesAssumption ==
  /\ Length \in [Versions -> Nat]
  /\ None \notin Inodes \cup Versions \cup (Versions \X Nat)

VARIABLES
  path,     \* the file each key names
  content,  \* the pieces of each file
  writer,   \* the put or complete of each writer, None when idle
  reader,   \* the download of each reader, None when idle
  owner,    \* version a file was last truncated for, None after overlapping writes
  stored    \* version an answered write left under a key, until the next write or delete

vars == <<path, content, writer, reader, owner, stored>>

Piece == (Versions \X Nat) \cup {None}

Whole(v) == [i \in 1 .. Length[v] |-> <<v, i>>]

Write == [key: Keys, inode: Inodes, version: Versions, next: Nat \ {0}]

(* `source' and `whole' say what is promised of the download.               *)
Download ==
  [inode: Inodes, body: Seq(Piece), answered: BOOLEAN,
   source: Versions \cup {None}, whole: BOOLEAN]

(* What is on disk and what the calls hold have their types.                *)
TypeOK ==
  /\ path \in [Keys -> Inodes \cup {None}]
  /\ content \in [Inodes -> Seq(Piece)]
  /\ writer \in [Writers -> Write \cup {None}]
  /\ reader \in [Readers -> Download \cup {None}]
  /\ owner \in [Inodes -> Versions \cup {None}]
  /\ stored \in [Keys -> Versions \cup {None}]

Init ==
  /\ path = [k \in Keys |-> None]
  /\ content = [i \in Inodes |-> <<>>]
  /\ writer = [w \in Writers |-> None]
  /\ reader = [r \in Readers |-> None]
  /\ owner = [i \in Inodes |-> None]
  /\ stored = [k \in Keys |-> None]

-----------------------------------------------------------------------------
WritersOf(i) == {w \in Writers : writer[w] # None /\ writer[w].inode = i}

Reading(r) == reader[r] # None /\ ~reader[r].answered

(* Bound: the disk holds as many files as there are inodes.                 *)
FreeInodes ==
  {i \in Inodes :
     /\ \A k \in Keys : path[k] # i
     /\ WritersOf(i) = {}
     /\ \A r \in Readers : Reading(r) => reader[r].inode # i}

(* The file File::create opens for k: the one there, or a new one.          *)
Opened(k) == IF path[k] = None THEN FreeInodes ELSE {path[k]}

(* File i is truncated to take version v.                                   *)
Truncate(i, v) ==
  LET o == IF WritersOf(i) = {} THEN v ELSE None
  IN /\ owner' = [owner EXCEPT ![i] = o]
     /\ reader' = [r \in Readers |->
          IF Reading(r) /\ reader[r].inode = i
          THEN [reader[r] EXCEPT !.whole = FALSE,
                                 !.source = IF @ = o THEN o ELSE None]
          ELSE reader[r]]

(* Mutant: the file is opened without truncating it.                        *)
WriteOpenInPlace(w, k, v) ==
  /\ writer[w] = None
  /\ \E i \in Opened(k) :
       /\ path' = [path EXCEPT ![k] = i]
       /\ content' = IF path[k] = None THEN [content EXCEPT ![i] = <<>>] ELSE content
       /\ writer' = [writer EXCEPT ![w] = [key |-> k, inode |-> i, version |-> v, next |-> 1]]
       /\ Truncate(i, v)
  /\ stored' = [stored EXCEPT ![k] = None]

(* put (fs::write) and complete both begin by creating or truncating.       *)
WriteOpen(w, k, v) ==
  /\ writer[w] = None
  /\ \E i \in Opened(k) :
       /\ path' = [path EXCEPT ![k] = i]
       /\ content' = [content EXCEPT ![i] = <<>>]
       /\ writer' = [writer EXCEPT ![w] = [key |-> k, inode |-> i, version |-> v, next |-> 1]]
       /\ Truncate(i, v)
  /\ stored' = [stored EXCEPT ![k] = None]

(* File s with piece p at place n; places that were skipped hold zeros.     *)
WithPiece(s, n, p) ==
  [i \in 1 .. (IF Len(s) > n THEN Len(s) ELSE n) |->
     IF i = n THEN p ELSE IF i <= Len(s) THEN s[i] ELSE None]

(* The next piece, at the writer's own offset, on whatever is there by now. *)
WritePiece(w) ==
  /\ writer[w] # None
  /\ LET c == writer[w] IN
       /\ c.next <= Length[c.version]
       /\ content' = [content EXCEPT ![c.inode] = WithPiece(@, c.next, <<c.version, c.next>>)]
  /\ writer' = [writer EXCEPT ![w].next = @ + 1]
  /\ UNCHANGED <<path, reader, owner, stored>>

(* The call is answered.  The object is only there if nobody took its name  *)
(* away meanwhile, and only whole if nobody else wrote it meanwhile.        *)
WriteReply(w) ==
  /\ writer[w] # None
  /\ LET c == writer[w] IN
       /\ c.next > Length[c.version]
       /\ stored' = IF path[c.key] = c.inode /\ owner[c.inode] = c.version
                    THEN [stored EXCEPT ![c.key] = c.version] ELSE stored
  /\ writer' = [writer EXCEPT ![w] = None]
  /\ UNCHANGED <<path, content, reader, owner>>

(* An I/O error, a part that is not there, a stop of the process.           *)
WriteAbort(w) ==
  /\ writer[w] # None
  /\ writer' = [writer EXCEPT ![w] = None]
  /\ UNCHANGED <<path, content, reader, owner, stored>>

(* Mutant: the file is emptied before its name goes.                        *)
UnlinkEmptied(k) ==
  /\ path[k] # None
  /\ content' = [content EXCEPT ![path[k]] = <<>>]
  /\ path' = [path EXCEPT ![k] = None]
  /\ stored' = [stored EXCEPT ![k] = None]
  /\ UNCHANGED <<writer, reader, owner>>

(* FileBucket::delete; with no such name it fails and changes nothing.      *)
Unlink(k) ==
  /\ path[k] # None
  /\ path' = [path EXCEPT ![k] = None]
  /\ stored' = [stored EXCEPT ![k] = None]
  /\ UNCHANGED <<content, writer, reader, owner>>

-----------------------------------------------------------------------------
(* FileBucket::get; with no such name it fails.                             *)
GetOpen(r, k) ==
  /\ ~Reading(r)
  /\ path[k] # None
  /\ reader' = [reader EXCEPT ![r] =
       [inode |-> path[k], body |-> <<>>, answered |-> FALSE,
        source |-> owner[path[k]], whole |-> stored[k] # None]]
  /\ UNCHANGED <<path, content, writer, owner, stored>>

(* Mutant: each piece is read from the file the name leads to by then.      *)
GetPieceByName(r) ==
  /\ Reading(r)
  /\ \E k \in Keys :
       LET s == content[IF path[k] = None THEN reader[r].inode ELSE path[k]]
           n == Len(reader[r].body) + 1
       IN /\ n <= Len(s)
          /\ reader' = [reader EXCEPT ![r].body = Append(@, s[n])]
  /\ UNCHANGED <<path, content, writer, owner, stored>>

(* ReaderStream yields the next piece.                                      *)
GetPiece(r) ==
  /\ Reading(r)
  /\ LET s == content[reader[r].inode]
         n == Len(reader[r].body) + 1
     IN /\ n <= Len(s)
        /\ reader' = [reader EXCEPT ![r].body = Append(@, s[n])]
  /\ UNCHANGED <<path, content, writer, owner, stored>>

(* The end of the file, wherever it is by now, ends the body.               *)
GetEnd(r) ==
  /\ Reading(r)
  /\ Len(reader[r].body) >= Len(content[reader[r].inode])
  /\ reader' = [reader EXCEPT ![r].answered = TRUE]
  /\ UNCHANGED <<path, content, writer, owner, stored>>

(* stream_to_bytes drops a read error and every piece before it: status     *)
(* 200 with an empty body.                                                  *)
GetError(r) ==
  /\ Reading(r)
  /\ reader' = [reader EXCEPT ![r].answered = TRUE, ![r].body = <<>>]
  /\ UNCHANGED <<path, content, writer, owner, stored>>

GetAbort(r) ==
  /\ Reading(r)
  /\ reader' = [reader EXCEPT ![r] = None]
  /\ UNCHANGED <<path, content, writer, owner, stored>>

Next ==
  \/ \E w \in Writers :
       \/ \E k \in Keys, v \in Versions : WriteOpen(w, k, v)
       \/ WritePiece(w) \/ WriteReply(w) \/ WriteAbort(w)
  \/ \E k \in Keys : Unlink(k)
  \/ \E r \in Readers :
       \/ \E k \in Keys : GetOpen(r, k)
       \/ GetPiece(r) \/ GetEnd(r) \/ GetError(r) \/ GetAbort(r)

Spec == Init /\ [][Next]_vars

-----------------------------------------------------------------------------
Answered(r) == reader[r] # None /\ reader[r].answered

(* A download never mixes two versions of an object, and has no gap, unless *)
(* a write of another version, or a second write at once, truncated its     *)
(* file while it ran: it is a beginning of the one version its file held.   *)
(* Deleting the object, and storing another under its name afterwards, does *)
(* not show.  (FileBucket::get opens once and reads the open file.)         *)
DownloadsAreOneVersion ==
  \A r \in Readers : Answered(r) /\ reader[r].source # None =>
    IsPrefix(reader[r].body, Whole(reader[r].source))

(* A download begun after an answered put or complete has all of what was   *)
(* stored, or nothing, although it may be deleted meanwhile: it is cut      *)
(* short only by a write to the same key that begins before it ends, as     *)
(* the editor's fresh keys never see.                                       *)
StoredIsDownloaded ==
  \A r \in Readers : Answered(r) /\ reader[r].whole =>
    reader[r].body \in {Whole(reader[r].source), <<>>}
=============================================================================
