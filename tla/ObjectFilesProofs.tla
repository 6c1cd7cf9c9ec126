------------------------- MODULE ObjectFilesProofs --------------------------
(***************************************************************************)
(* What a download is made of while its object is written, deleted and      *)
(* stored again, proved with TLAPS for any number of keys, files, versions, *)
(* writers and readers.                                                     *)
(***************************************************************************)
EXTENDS ObjectFiles, SequenceTheorems, TLAPS

-----------------------------------------------------------------------------
(* Types.                                                                   *)

LEMMA VersionsHaveLengths ==
  /\ \A v \in Versions : Length[v] \in Nat
  /\ None \notin Versions /\ None \notin Inodes /\ None \notin Versions \X Nat
  BY ObjectFilesAssumption

(* What a file and a download hold: pieces, one after another.             *)
Bodies == Seq(Piece)

LEMMA WithPieceIs ==
  ASSUME NEW s \in Bodies, NEW n \in Nat \ {0}, NEW p \in Piece
  PROVE  /\ WithPiece(s, n, p) \in Bodies
         /\ Len(s) \in Nat
         /\ Len(WithPiece(s, n, p)) = IF Len(s) > n THEN Len(s) ELSE n
         /\ \A i \in 1 .. Len(WithPiece(s, n, p)) :
              WithPiece(s, n, p)[i] = IF i = n THEN p ELSE IF i <= Len(s) THEN s[i] ELSE None
<1> DEFINE m == IF Len(s) > n THEN Len(s) ELSE n
           e(i) == IF i = n THEN p ELSE IF i <= Len(s) THEN s[i] ELSE None
<1>1. Len(s) \in Nat /\ m \in Nat
  BY DEF Bodies
<1>2. \A i \in 1 .. m : e(i) \in Piece
  BY <1>1 DEF Bodies, Piece
<1>3. WithPiece(s, n, p) = [i \in 1 .. m |-> e(i)]
  BY DEF WithPiece
<1> HIDE DEF m, e
<1>4. [i \in 1 .. m |-> e(i)] \in Bodies
  BY <1>1, <1>2 DEF Bodies
<1>5. Len([i \in 1 .. m |-> e(i)]) = m
  BY <1>1
<1>6. QED
  BY <1>1, <1>3, <1>4, <1>5 DEF m, e

LEMMA AppendIs ==
  ASSUME NEW s \in Bodies, NEW p \in Piece
  PROVE  /\ Append(s, p) \in Bodies
         /\ Len(Append(s, p)) = Len(s) + 1
         /\ \A i \in 1 .. Len(s) + 1 : Append(s, p)[i] = IF i <= Len(s) THEN s[i] ELSE p
  BY DEF Bodies

LEMMA TypeInit == Init => TypeOK
  BY DEF Init, TypeOK

LEMMA TypeStep == TypeOK /\ [Next]_vars => TypeOK'
<1> SUFFICES ASSUME TypeOK, [Next]_vars PROVE TypeOK'
  OBVIOUS
<1>0. /\ path \in [Keys -> Inodes \cup {None}]
      /\ content \in [Inodes -> Bodies]
      /\ writer \in [Writers -> Write \cup {None}]
      /\ reader \in [Readers -> Download \cup {None}]
      /\ owner \in [Inodes -> Versions \cup {None}]
      /\ stored \in [Keys -> Versions \cup {None}]
  BY DEF TypeOK, Bodies
<1>a. \A w \in Writers : writer[w] # None =>
        /\ writer[w] \in Write /\ writer[w].inode \in Inodes /\ writer[w].version \in Versions
        /\ writer[w].next \in Nat \ {0} /\ writer[w].key \in Keys
  BY <1>0 DEF Write
<1>b. \A r \in Readers : reader[r] # None =>
        reader[r] \in Download /\ reader[r].inode \in Inodes /\ reader[r].body \in Bodies
  BY <1>0 DEF Download, Bodies
<1> DEFINE Goal == /\ path' \in [Keys -> Inodes \cup {None}]
                   /\ content' \in [Inodes -> Bodies]
                   /\ writer' \in [Writers -> Write \cup {None}]
                   /\ reader' \in [Readers -> Download \cup {None}]
                   /\ owner' \in [Inodes -> Versions \cup {None}]
                   /\ stored' \in [Keys -> Versions \cup {None}]
<1>1. ASSUME NEW w \in Writers, NEW k \in Keys, NEW v \in Versions, WriteOpen(w, k, v) PROVE Goal
  <2>1. PICK i \in Opened(k) :
          /\ path' = [path EXCEPT ![k] = i]
          /\ content' = [content EXCEPT ![i] = <<>>]
          /\ writer' = [writer EXCEPT ![w] = [key |-> k, inode |-> i, version |-> v, next |-> 1]]
          /\ Truncate(i, v)
    BY <1>1 DEF WriteOpen
  <2>2. i \in Inodes
    BY <1>0 DEF Opened, FreeInodes
  <2>3. [key |-> k, inode |-> i, version |-> v, next |-> 1] \in Write
    BY <2>2 DEF Write
  <2>4. <<>> \in Bodies
    BY DEF Bodies
  <2>5. \E o \in Versions \cup {None} :
          /\ owner' = [owner EXCEPT ![i] = o]
          /\ reader' = [r \in Readers |->
               IF Reading(r) /\ reader[r].inode = i
               THEN [reader[r] EXCEPT !.whole = FALSE, !.source = IF @ = o THEN o ELSE None]
               ELSE reader[r]]
    BY <2>1 DEF Truncate
  <2>6. PICK o \in Versions \cup {None} :
          /\ owner' = [owner EXCEPT ![i] = o]
          /\ reader' = [r \in Readers |->
               IF Reading(r) /\ reader[r].inode = i
               THEN [reader[r] EXCEPT !.whole = FALSE, !.source = IF @ = o THEN o ELSE None]
               ELSE reader[r]]
    BY <2>5
  <2>7. \A r \in Readers : reader[r] # None =>
          [reader[r] EXCEPT !.whole = FALSE, !.source = IF @ = o THEN o ELSE None] \in Download
    BY <1>b DEF Download
  <2>8. reader' \in [Readers -> Download \cup {None}]
    BY <1>0, <2>6, <2>7 DEF Reading
  <2>9. stored' \in [Keys -> Versions \cup {None}]
    BY <1>0, <1>1 DEF WriteOpen
  <2>10. QED
    BY <1>0, <2>1, <2>2, <2>3, <2>4, <2>6, <2>8, <2>9
<1>2. ASSUME NEW w \in Writers, WritePiece(w) PROVE Goal
  <2>1. /\ writer[w] # None
        /\ content' = [content EXCEPT ![writer[w].inode] =
             WithPiece(content[writer[w].inode], writer[w].next, <<writer[w].version, writer[w].next>>)]
        /\ writer' = [writer EXCEPT ![w].next = @ + 1]
        /\ UNCHANGED <<path, reader, owner, stored>>
    BY <1>0, <1>a, <1>2 DEF WritePiece
  <2>2. <<writer[w].version, writer[w].next>> \in Piece
    BY <1>a, <2>1 DEF Piece
  <2>3. WithPiece(content[writer[w].inode], writer[w].next, <<writer[w].version, writer[w].next>>) \in Bodies
    BY <1>0, <1>a, <2>1, <2>2, WithPieceIs
  <2>4. [writer[w] EXCEPT !.next = @ + 1] \in Write
    BY <1>a, <2>1 DEF Write
  <2>5. QED
    BY <1>0, <1>a, <2>1, <2>3, <2>4
<1>3. ASSUME NEW w \in Writers, WriteReply(w) PROVE Goal
  BY <1>0, <1>a, <1>3 DEF WriteReply
<1>4. ASSUME NEW w \in Writers, WriteAbort(w) PROVE Goal
  BY <1>0, <1>4 DEF WriteAbort
<1>5. ASSUME NEW k \in Keys, Unlink(k) PROVE Goal
  BY <1>0, <1>5 DEF Unlink
<1>6. ASSUME NEW r \in Readers, NEW k \in Keys, GetOpen(r, k) PROVE Goal
  <2>1. [inode |-> path[k], body |-> <<>>, answered |-> FALSE,
         source |-> owner[path[k]], whole |-> stored[k] # None] \in Download
    BY <1>0, <1>6 DEF GetOpen, Download, Bodies
  <2>2. QED
    BY <1>0, <1>6, <2>1 DEF GetOpen
<1>7. ASSUME NEW r \in Readers, GetPiece(r) PROVE Goal
  <2>1. /\ reader[r] # None /\ Len(reader[r].body) + 1 <= Len(content[reader[r].inode])
        /\ reader' = [reader EXCEPT ![r].body =
             Append(reader[r].body, content[reader[r].inode][Len(reader[r].body) + 1])]
        /\ UNCHANGED <<path, content, writer, owner, stored>>
    BY <1>0, <1>7 DEF GetPiece, Reading
  <2>2. content[reader[r].inode][Len(reader[r].body) + 1] \in Piece
    BY <1>0, <1>b, <2>1 DEF Bodies
  <2>3. Append(reader[r].body, content[reader[r].inode][Len(reader[r].body) + 1]) \in Bodies
    BY <1>b, <2>1, <2>2, AppendIs
  <2>4. [reader[r] EXCEPT !.body = Append(reader[r].body, content[reader[r].inode][Len(reader[r].body) + 1])]
          \in Download
    BY <1>b, <2>1, <2>3 DEF Download, Bodies
  <2>5. QED
    BY <1>0, <2>1, <2>4
<1>8. ASSUME NEW r \in Readers, GetEnd(r) PROVE Goal
  <2>1. [reader[r] EXCEPT !.answered = TRUE] \in Download
    BY <1>b, <1>8 DEF GetEnd, Reading, Download
  <2>2. QED
    BY <1>0, <1>8, <2>1 DEF GetEnd
<1>9. ASSUME NEW r \in Readers, GetError(r) PROVE Goal
  <2>1. [reader[r] EXCEPT !.answered = TRUE, !.body = <<>>] \in Download
    <3>1. <<>> \in Bodies /\ reader[r] # None
      BY <1>9 DEF Bodies, GetError, Reading
    <3>2. QED
      BY <1>b, <3>1 DEF Download, Bodies
  <2>2. QED
    BY <1>0, <1>9, <2>1 DEF GetError
<1>10. ASSUME NEW r \in Readers, GetAbort(r) PROVE Goal
  BY <1>0, <1>10 DEF GetAbort
<1>11. ASSUME UNCHANGED vars PROVE Goal
  <2>1. /\ path' = path /\ content' = content /\ writer' = writer
        /\ reader' = reader /\ owner' = owner /\ stored' = stored
    BY <1>11 DEF vars
  <2>2. Goal
    BY <1>0, <2>1
  <2>3. QED
    BY <2>2
<1> HIDE DEF Goal
<1>12. ASSUME Next PROVE Goal
  BY <1>1, <1>2, <1>3, <1>4, <1>5, <1>6, <1>7, <1>8, <1>9, <1>10, <1>12 DEF Next
<1>13. Goal
  BY <1>11, <1>12
<1>14. QED
  BY <1>13 DEF Goal, TypeOK, Bodies

(* What is on disk and what the calls hold have their types.                *)
THEOREM FilesTypeCorrect == Spec => []TypeOK
  BY TypeInit, TypeStep, PTL DEF Spec

-----------------------------------------------------------------------------
(* What the files hold.                                                     *)

(* s is a beginning of version v.                                           *)
Beginning(s, v) ==
  /\ Len(s) <= Length[v]
  /\ \A j \in 1 .. Len(s) : s[j] = <<v, j>>

Writing(w, i) == writer[w] # None /\ writer[w].inode = i

PathsApart == \A k, l \in Keys : path[k] # None /\ path[k] = path[l] => k = l

(* A file last truncated when nobody wrote to it is a beginning of what it  *)
(* was truncated for, and its one writer goes on where it ends.             *)
OwnedInv == \A i \in Inodes : owner[i] # None => Beginning(content[i], owner[i])

WriterInv ==
  \A w \in Writers, i \in Inodes : Writing(w, i) /\ owner[i] # None =>
    /\ writer[w].version = owner[i]
    /\ writer[w].next = Len(content[i]) + 1
    /\ \A x \in Writers : Writing(x, i) => x = w

(* An answered write is there, whole, with nobody writing to its file.      *)
StoredInv ==
  \A k \in Keys : stored[k] # None =>
    /\ path[k] # None
    /\ owner[path[k]] = stored[k]
    /\ Len(content[path[k]]) = Length[stored[k]]
    /\ \A w \in Writers : ~Writing(w, path[k])

(* A download under way has a beginning of what its file holds.             *)
ReadInv ==
  \A r \in Readers : Reading(r) =>
    /\ reader[r].source # None =>
         owner[reader[r].inode] = reader[r].source /\ Beginning(reader[r].body, reader[r].source)
    /\ reader[r].whole =>
         /\ reader[r].source # None
         /\ Len(content[reader[r].inode]) = Length[reader[r].source]
         /\ \A w \in Writers : ~Writing(w, reader[r].inode)

AnswerInv ==
  \A r \in Readers : Answered(r) =>
    /\ reader[r].source # None => Beginning(reader[r].body, reader[r].source)
    /\ reader[r].whole =>
         /\ reader[r].source # None
         /\ reader[r].body = <<>> \/ Len(reader[r].body) = Length[reader[r].source]

FileInv == PathsApart /\ OwnedInv /\ WriterInv /\ StoredInv /\ ReadInv /\ AnswerInv

LEMMA EmptyBegins == \A v \in Versions : Beginning(<<>>, v) /\ Len(<<>>) = 0
  BY VersionsHaveLengths DEF Beginning

LEMMA WrittenBegins ==
  ASSUME NEW s \in Bodies, NEW v \in Versions, Beginning(s, v), Len(s) + 1 <= Length[v]
  PROVE  /\ Beginning(WithPiece(s, Len(s) + 1, <<v, Len(s) + 1>>), v)
         /\ Len(WithPiece(s, Len(s) + 1, <<v, Len(s) + 1>>)) = Len(s) + 1
<1> DEFINE n == Len(s) + 1
           p == <<v, n>>
<1>1. Len(s) \in Nat /\ n \in Nat \ {0} /\ p \in Piece
  BY DEF Bodies, Piece
<1>2. n = Len(s) + 1 /\ p = <<v, n>>
  OBVIOUS
<1> HIDE DEF n, p
<1>3. /\ Len(WithPiece(s, n, p)) = IF Len(s) > n THEN Len(s) ELSE n
      /\ \A i \in 1 .. Len(WithPiece(s, n, p)) :
           WithPiece(s, n, p)[i] = IF i = n THEN p ELSE IF i <= Len(s) THEN s[i] ELSE None
  BY <1>1, WithPieceIs
<1>4. Beginning(WithPiece(s, n, p), v) /\ Len(WithPiece(s, n, p)) = n
  BY <1>1, <1>2, <1>3, VersionsHaveLengths DEF Beginning
<1>5. QED
  BY <1>2, <1>4

LEMMA ReadBegins ==
  ASSUME NEW s \in Bodies, NEW b \in Bodies, NEW v \in Versions, Beginning(s, v), Beginning(b, v),
         Len(b) + 1 <= Len(s)
  PROVE  Beginning(Append(b, s[Len(b) + 1]), v)
<1>1. Len(s) \in Nat /\ Len(b) \in Nat /\ s[Len(b) + 1] \in Piece
  BY DEF Bodies
<1>2. /\ Len(Append(b, s[Len(b) + 1])) = Len(b) + 1
      /\ \A i \in 1 .. Len(b) + 1 :
           Append(b, s[Len(b) + 1])[i] = IF i <= Len(b) THEN b[i] ELSE s[Len(b) + 1]
  BY <1>1, AppendIs
<1>3. Len(s) <= Length[v] /\ Length[v] \in Nat /\ s[Len(b) + 1] = <<v, Len(b) + 1>>
  BY <1>1, VersionsHaveLengths DEF Beginning
<1>4. QED
  BY <1>1, <1>2, <1>3 DEF Beginning

LEMMA BeginningIsPrefix ==
  ASSUME NEW b \in Bodies, NEW v \in Versions, Beginning(b, v)
  PROVE  /\ IsPrefix(b, Whole(v))
         /\ Len(b) = Length[v] => b = Whole(v)
<1>1. Len(b) \in Nat /\ Length[v] \in Nat /\ Len(b) <= Length[v]
  BY VersionsHaveLengths DEF Bodies, Beginning
<1>2. Whole(v) \in Bodies /\ Len(Whole(v)) = Length[v] /\ \A i \in 1 .. Length[v] : Whole(v)[i] = <<v, i>>
  BY <1>1 DEF Whole, Bodies, Piece
<1>3. SubSeq(b, 1, Len(b)) = b
  BY <1>1, SubSeqFull DEF Bodies
<1>4. SubSeq(Whole(v), 1, Len(b)) = b
  <2>1. \A i \in 1 .. Len(b) : Whole(v)[i] \in Piece
    BY <1>1, <1>2 DEF Bodies
  <2>2. /\ SubSeq(Whole(v), 1, Len(b)) \in Bodies
        /\ Len(SubSeq(Whole(v), 1, Len(b))) = Len(b)
        /\ \A i \in 1 .. Len(b) : SubSeq(Whole(v), 1, Len(b))[i] = Whole(v)[i]
    BY <1>1, <2>1, SubSeqProperties DEF Bodies
  <2>3. \A i \in 1 .. Len(b) : SubSeq(Whole(v), 1, Len(b))[i] = b[i]
    BY <1>1, <1>2, <2>2 DEF Beginning
  <2>4. QED
    BY <2>2, <2>3, SeqEqual DEF Bodies
<1>5. Len(b) = Length[v] => b = Whole(v)
  <2>1. Len(b) = Length[v] => \A i \in 1 .. Len(b) : b[i] = Whole(v)[i]
    BY <1>1, <1>2 DEF Beginning
  <2>2. QED
    BY <1>2, <2>1, SeqEqual DEF Bodies
<1>6. QED
  BY <1>1, <1>2, <1>3, <1>4, <1>5 DEF IsPrefix

LEMMA FileInit == Init => FileInv
  BY DEF Init, FileInv, PathsApart, OwnedInv, WriterInv, StoredInv, ReadInv, AnswerInv, Writing,
         Reading, Answered

(* What the types say of the calls in flight.                               *)
LEMMA CallTypes ==
  ASSUME TypeOK
  PROVE  /\ \A i \in Inodes : content[i] \in Bodies /\ Len(content[i]) \in Nat
         /\ \A i \in Inodes : owner[i] # None => owner[i] \in Versions
         /\ \A k \in Keys : path[k] # None => path[k] \in Inodes
         /\ \A k \in Keys : stored[k] # None => stored[k] \in Versions
         /\ \A w \in Writers : writer[w] # None =>
              /\ writer[w] \in Write /\ writer[w].inode \in Inodes /\ writer[w].version \in Versions
              /\ writer[w].next \in Nat \ {0} /\ writer[w].key \in Keys
         /\ \A r \in Readers : reader[r] # None =>
              /\ reader[r] \in Download /\ reader[r].inode \in Inodes /\ reader[r].body \in Bodies
              /\ Len(reader[r].body) \in Nat /\ reader[r].source \in Versions \cup {None}
              /\ reader[r].answered \in BOOLEAN /\ reader[r].whole \in BOOLEAN
<1>1. /\ \A i \in Inodes : content[i] \in Bodies /\ Len(content[i]) \in Nat
      /\ \A i \in Inodes : owner[i] # None => owner[i] \in Versions
      /\ \A k \in Keys : path[k] # None => path[k] \in Inodes
      /\ \A k \in Keys : stored[k] # None => stored[k] \in Versions
  BY DEF TypeOK, Bodies
<1>2. \A w \in Writers : writer[w] # None => writer[w] \in Write
  BY DEF TypeOK
<1>3. \A r \in Readers : reader[r] # None => reader[r] \in Download
  BY DEF TypeOK
<1>4. \A d \in Download : Len(d.body) \in Nat /\ d.body \in Bodies
  BY DEF Download, Bodies
<1>5. QED
  BY <1>1, <1>2, <1>3, <1>4 DEF Write, Download

LEMMA OpenStep ==
  ASSUME TypeOK, FileInv, NEW w \in Writers, NEW k \in Keys, NEW v \in Versions, WriteOpen(w, k, v)
  PROVE  FileInv'
<1>0. PathsApart /\ OwnedInv /\ WriterInv /\ StoredInv /\ ReadInv /\ AnswerInv
  BY DEF FileInv
<1>1. PICK i \in Opened(k) :
        /\ path' = [path EXCEPT ![k] = i]
        /\ content' = [content EXCEPT ![i] = <<>>]
        /\ writer' = [writer EXCEPT ![w] = [key |-> k, inode |-> i, version |-> v, next |-> 1]]
        /\ Truncate(i, v)
  BY DEF WriteOpen
<1>2. writer[w] = None /\ stored' = [stored EXCEPT ![k] = None]
  BY DEF WriteOpen
<1>3. /\ i \in Inodes
      /\ path[k] = i \/ \A l \in Keys : path[l] # i
  BY DEF Opened, FreeInodes, TypeOK
<1>4. PICK o \in {v, None} :
        /\ o # None => \A x \in Writers : ~Writing(x, i)
        /\ owner' = [owner EXCEPT ![i] = o]
        /\ reader' = [r \in Readers |->
             IF Reading(r) /\ reader[r].inode = i
             THEN [reader[r] EXCEPT !.whole = FALSE, !.source = IF @ = o THEN o ELSE None]
             ELSE reader[r]]
  <2>1. WritersOf(i) = {} => \A x \in Writers : ~Writing(x, i)
    BY DEF WritersOf, Writing
  <2>2. (IF WritersOf(i) = {} THEN v ELSE None) \in {v, None}
    OBVIOUS
  <2>3. QED
    BY <1>1, <2>1, <2>2, VersionsHaveLengths DEF Truncate
<1>5. /\ path'[k] = i /\ \A l \in Keys \ {k} : path'[l] = path[l]
      /\ content'[i] = <<>> /\ \A j \in Inodes \ {i} : content'[j] = content[j]
      /\ owner'[i] = o /\ \A j \in Inodes \ {i} : owner'[j] = owner[j]
      /\ stored'[k] = None /\ \A l \in Keys \ {k} : stored'[l] = stored[l]
  BY <1>1, <1>2, <1>3, <1>4 DEF TypeOK
<1>6. /\ \A x \in Writers \ {w} : writer'[x] = writer[x]
      /\ writer'[w] = [key |-> k, inode |-> i, version |-> v, next |-> 1]
      /\ writer'[w].inode = i /\ writer'[w].version = v /\ writer'[w].next = 1
  BY <1>1 DEF TypeOK
<1>7. \A r \in Readers :
        \/ reader'[r] = reader[r] /\ ~(Reading(r) /\ reader[r].inode = i)
        \/ /\ Reading(r) /\ reader[r].inode = i
           /\ reader'[r] = [reader[r] EXCEPT !.whole = FALSE, !.source = IF @ = o THEN o ELSE None]
  BY <1>4
<1>8. \A r \in Readers : Reading(r) /\ reader[r].inode = i /\ reader'[r] # None =>
        /\ reader'[r].inode = i /\ reader'[r].body = reader[r].body /\ ~reader'[r].whole
        /\ ~reader'[r].answered
        /\ reader'[r].source # None => reader'[r].source = o /\ reader[r].source = o
  BY <1>7, CallTypes DEF Reading, Download
<1>a. Beginning(<<>>, v) /\ Len(<<>>) = 0
  BY EmptyBegins
<1> DEFINE After(x, j) == writer'[x] # None /\ writer'[x].inode = j
<1>b. /\ \A x \in Writers \ {w}, j \in Inodes : After(x, j) = Writing(x, j)
      /\ \A j \in Inodes \ {i} : ~After(w, j)
  BY <1>6 DEF Writing
<1>9. PathsApart'
  BY <1>0, <1>3, <1>5 DEF PathsApart
<1>10. OwnedInv'
  BY <1>0, <1>4, <1>5, <1>a DEF OwnedInv
<1>11. WriterInv'
  <2> SUFFICES ASSUME NEW x \in Writers, NEW j \in Inodes, After(x, j), owner'[j] # None
               PROVE  /\ writer'[x].version = owner'[j]
                      /\ writer'[x].next = Len(content'[j]) + 1
                      /\ \A y \in Writers : After(y, j) => y = x
    BY DEF WriterInv, Writing
  <2>1. CASE j = i
    <3>1. \A y \in Writers : After(y, j) => y = w
      BY <1>4, <1>5, <1>b, <2>1
    <3>2. x = w
      BY <3>1
    <3>3. o # None /\ o = v
      BY <1>4, <1>5, <2>1
    <3>4. owner'[j] = v /\ Len(content'[j]) = 0
      BY <1>5, <1>a, <2>1, <3>3
    <3>5. writer'[x].version = v /\ writer'[x].next = 1
      BY <1>6, <3>2
    <3>6. QED
      BY <3>1, <3>2, <3>4, <3>5
  <2>2. CASE j # i
    <3>1. x # w /\ Writing(x, j)
      BY <1>b, <2>2
    <3>2. \A y \in Writers : After(y, j) => y # w /\ Writing(y, j)
      BY <1>b, <2>2
    <3>3. QED
      BY <1>0, <1>5, <1>6, <2>2, <3>1, <3>2 DEF WriterInv
  <2>3. QED
    BY <2>1, <2>2
<1>12. StoredInv'
  <2> SUFFICES ASSUME NEW l \in Keys, stored'[l] # None
               PROVE  /\ path'[l] # None
                      /\ owner'[path'[l]] = stored'[l]
                      /\ Len(content'[path'[l]]) = Length[stored'[l]]
                      /\ \A x \in Writers : ~After(x, path'[l])
    BY DEF StoredInv, Writing
  <2>1. l # k /\ stored[l] # None /\ path'[l] = path[l] /\ stored'[l] = stored[l]
    BY <1>5
  <2>2. /\ path[l] # None /\ owner[path[l]] = stored[l]
        /\ Len(content[path[l]]) = Length[stored[l]]
        /\ \A x \in Writers : ~Writing(x, path[l])
    BY <1>0, <2>1 DEF StoredInv
  <2>3. path[l] \in Inodes /\ path[l] # i
    <3>1. path[l] \in Inodes
      BY <2>1, <2>2, CallTypes
    <3>2. path[l] # i
      BY <1>0, <1>3, <2>1, <2>2 DEF PathsApart
    <3>3. QED
      BY <3>1, <3>2
  <2>4. \A x \in Writers : ~After(x, path[l])
    BY <1>b, <2>2, <2>3
  <2>5. QED
    BY <1>5, <2>1, <2>2, <2>3, <2>4
<1>13. ReadInv'
  <2> SUFFICES ASSUME NEW r \in Readers, Reading(r)'
               PROVE  /\ reader'[r].source # None =>
                           /\ owner'[reader'[r].inode] = reader'[r].source
                           /\ Beginning(reader'[r].body, reader'[r].source)
                      /\ reader'[r].whole =>
                           /\ reader'[r].source # None
                           /\ Len(content'[reader'[r].inode]) = Length[reader'[r].source]
                           /\ \A x \in Writers : ~After(x, reader'[r].inode)
    BY DEF ReadInv, Writing, Beginning
  <2>1. CASE Reading(r) /\ reader[r].inode = i
    <3>1. reader'[r] # None
      BY DEF Reading
    <3>2. reader[r].source # None => Beginning(reader[r].body, reader[r].source)
      BY <1>0, <2>1 DEF ReadInv
    <3>3. QED
      BY <1>5, <1>8, <2>1, <3>1, <3>2
  <2>2. CASE ~(Reading(r) /\ reader[r].inode = i)
    <3>1. reader'[r] = reader[r] /\ Reading(r) /\ reader[r].inode # i /\ reader[r].inode \in Inodes
      BY <1>7, <2>2, CallTypes DEF Reading
    <3>2. /\ reader[r].source # None =>
               owner[reader[r].inode] = reader[r].source /\ Beginning(reader[r].body, reader[r].source)
          /\ reader[r].whole =>
               /\ reader[r].source # None
               /\ Len(content[reader[r].inode]) = Length[reader[r].source]
               /\ \A x \in Writers : ~Writing(x, reader[r].inode)
      BY <1>0, <3>1 DEF ReadInv
    <3>3. /\ owner'[reader[r].inode] = owner[reader[r].inode]
          /\ content'[reader[r].inode] = content[reader[r].inode]
          /\ \A x \in Writers : ~Writing(x, reader[r].inode) => ~After(x, reader[r].inode)
      BY <1>5, <1>b, <3>1
    <3> HIDE DEF After
    <3>4. QED
      BY <3>1, <3>2, <3>3
  <2>3. QED
    BY <2>1, <2>2
<1>14. AnswerInv'
  <2> SUFFICES ASSUME NEW r \in Readers, Answered(r)'
               PROVE  reader'[r] = reader[r] /\ Answered(r)
    BY <1>0 DEF AnswerInv, Beginning
  <2>1. reader'[r] # None /\ reader'[r].answered
    BY DEF Answered
  <2>2. reader'[r] = reader[r]
    BY <1>7, <1>8, <2>1
  <2>3. QED
    BY <2>1, <2>2 DEF Answered
<1>15. QED
  BY <1>9, <1>10, <1>11, <1>12, <1>13, <1>14 DEF FileInv

LEMMA PieceStep ==
  ASSUME TypeOK, FileInv, NEW w \in Writers, WritePiece(w)
  PROVE  FileInv'
<1>0. PathsApart /\ OwnedInv /\ WriterInv /\ StoredInv /\ ReadInv /\ AnswerInv
  BY DEF FileInv
<1> DEFINE i == writer[w].inode
           v == writer[w].version
           n == writer[w].next
<1>1. /\ writer[w] # None /\ n <= Length[v]
      /\ content' = [content EXCEPT ![i] = WithPiece(content[i], n, <<v, n>>)]
      /\ writer' = [writer EXCEPT ![w].next = @ + 1]
      /\ UNCHANGED <<path, reader, owner, stored>>
  BY DEF WritePiece, TypeOK
<1>2. i \in Inodes /\ v \in Versions /\ n \in Nat \ {0} /\ writer[w] \in Write
  BY <1>1, CallTypes
<1>3. Writing(w, i)
  BY <1>1 DEF Writing
<1>4. /\ \A j \in Inodes \ {i} : content'[j] = content[j]
      /\ content'[i] = WithPiece(content[i], n, <<v, n>>)
      /\ \A x \in Writers \ {w} : writer'[x] = writer[x]
      /\ writer'[w] = [writer[w] EXCEPT !.next = n + 1]
  BY <1>1, <1>2 DEF TypeOK
<1>5. writer'[w].inode = i /\ writer'[w].version = v /\ writer'[w].next = n + 1
  BY <1>2, <1>4 DEF Write
<1>6. owner[i] # None =>
        /\ v = owner[i] /\ n = Len(content[i]) + 1
        /\ \A x \in Writers : Writing(x, i) => x = w
        /\ Beginning(content[i], v)
  BY <1>0, <1>2, <1>3 DEF WriterInv, OwnedInv
<1>7. owner[i] # None => Beginning(content'[i], v) /\ Len(content'[i]) = n
  BY <1>1, <1>2, <1>4, <1>6, CallTypes, WrittenBegins
<1> HIDE DEF i, v, n
<1>8. UNCHANGED <<path, reader, owner, stored>> /\ writer[w] # None
  BY <1>1
<1> DEFINE After(x, j) == writer'[x] # None /\ writer'[x].inode = j
<1>a. \A x \in Writers, j \in Inodes : After(x, j) => Writing(x, j)
  BY <1>3, <1>4, <1>5 DEF Writing
<1> HIDE DEF After
<1>9. PathsApart'
  BY <1>0, <1>8 DEF PathsApart
<1>10. OwnedInv'
  BY <1>0, <1>4, <1>6, <1>7, <1>8 DEF OwnedInv
<1>11. WriterInv'
  <2> SUFFICES ASSUME NEW x \in Writers, NEW j \in Inodes, After(x, j), owner[j] # None
               PROVE  /\ writer'[x].version = owner[j]
                      /\ writer'[x].next = Len(content'[j]) + 1
                      /\ \A y \in Writers : After(y, j) => y = x
    BY <1>8 DEF WriterInv, Writing, After
  <2>1. /\ Writing(x, j) /\ writer[x].version = owner[j] /\ writer[x].next = Len(content[j]) + 1
        /\ \A y \in Writers : After(y, j) => y = x
    BY <1>0, <1>a DEF WriterInv
  <2>2. CASE x = w
    <3>1. j = i
      BY <1>3, <2>1, <2>2 DEF Writing
    <3>2. QED
      BY <1>5, <1>6, <1>7, <2>1, <2>2, <3>1
  <2>3. CASE x # w
    <3>1. j # i
      BY <1>6, <2>1, <2>3
    <3>2. QED
      BY <1>4, <2>1, <2>3, <3>1
  <2>4. QED
    BY <2>2, <2>3
<1>12. StoredInv'
  <2> SUFFICES ASSUME NEW k \in Keys, stored[k] # None
               PROVE  /\ path[k] # None
                      /\ owner[path[k]] = stored[k]
                      /\ Len(content'[path[k]]) = Length[stored[k]]
                      /\ \A x \in Writers : ~After(x, path[k])
    BY <1>8 DEF StoredInv, Writing, After
  <2>1. /\ path[k] # None /\ owner[path[k]] = stored[k]
        /\ Len(content[path[k]]) = Length[stored[k]]
        /\ \A x \in Writers : ~Writing(x, path[k])
    BY <1>0 DEF StoredInv
  <2>2. path[k] \in Inodes /\ path[k] # i
    BY <1>3, <2>1, CallTypes
  <2>3. QED
    BY <1>4, <1>a, <2>1, <2>2
<1>13. ReadInv'
  <2> SUFFICES ASSUME NEW r \in Readers, Reading(r)
               PROVE  /\ reader[r].source # None =>
                           /\ owner[reader[r].inode] = reader[r].source
                           /\ Beginning(reader[r].body, reader[r].source)
                      /\ reader[r].whole =>
                           /\ reader[r].source # None
                           /\ Len(content'[reader[r].inode]) = Length[reader[r].source]
                           /\ \A x \in Writers : ~After(x, reader[r].inode)
    BY <1>8 DEF ReadInv, Reading, Writing, Beginning, After
  <2>1. /\ reader[r].source # None =>
             owner[reader[r].inode] = reader[r].source /\ Beginning(reader[r].body, reader[r].source)
        /\ reader[r].whole =>
             /\ reader[r].source # None
             /\ Len(content[reader[r].inode]) = Length[reader[r].source]
             /\ \A x \in Writers : ~Writing(x, reader[r].inode)
    BY <1>0 DEF ReadInv
  <2>2. reader[r].inode \in Inodes
    BY CallTypes DEF Reading
  <2>3. reader[r].whole => reader[r].inode # i
    BY <1>3, <2>1
  <2>4. QED
    BY <1>4, <1>a, <2>1, <2>2, <2>3
<1>14. AnswerInv'
  BY <1>0, <1>8 DEF AnswerInv, Answered, Beginning
<1>15. QED
  BY <1>9, <1>10, <1>11, <1>12, <1>13, <1>14 DEF FileInv

(* A write ends, answered or not: nothing on disk changes.                  *)
LEMMA WriteEnds ==
  ASSUME TypeOK, FileInv, NEW w \in Writers, WriteReply(w) \/ WriteAbort(w)
  PROVE  FileInv'
<1>0. PathsApart /\ OwnedInv /\ WriterInv /\ StoredInv /\ ReadInv /\ AnswerInv
  BY DEF FileInv
<1>1. /\ writer[w] # None /\ writer' = [writer EXCEPT ![w] = None]
      /\ UNCHANGED <<path, content, reader, owner>>
  BY DEF WriteReply, WriteAbort
<1>2. writer'[w] = None /\ \A x \in Writers \ {w} : writer'[x] = writer[x]
  BY <1>1 DEF TypeOK
<1> DEFINE After(x, j) == writer'[x] # None /\ writer'[x].inode = j
<1>3. \A x \in Writers, j \in Inodes : After(x, j) <=> x # w /\ Writing(x, j)
  BY <1>2 DEF Writing
<1> HIDE DEF After
<1>4. StoredInv'
  <2> SUFFICES ASSUME NEW k \in Keys, stored'[k] # None
               PROVE  /\ path[k] # None
                      /\ owner[path[k]] = stored'[k]
                      /\ Len(content[path[k]]) = Length[stored'[k]]
                      /\ \A x \in Writers : ~After(x, path[k])
    BY <1>1 DEF StoredInv, Writing, After
  <2>1. CASE stored'[k] = stored[k]
    <3>1. /\ path[k] # None /\ owner[path[k]] = stored[k]
          /\ Len(content[path[k]]) = Length[stored[k]]
          /\ \A x \in Writers : ~Writing(x, path[k])
      BY <1>0, <2>1 DEF StoredInv
    <3>2. path[k] \in Inodes
      BY <3>1, CallTypes
    <3>3. QED
      BY <1>3, <2>1, <3>1, <3>2
  <2>2. CASE stored'[k] # stored[k]
    <3>1. WriteReply(w)
      BY <2>2 DEF WriteAbort
    <3> DEFINE c == writer[w]
    <3>2. /\ k = c.key /\ stored'[k] = c.version /\ path[k] = c.inode /\ owner[c.inode] = c.version
          /\ c.next > Length[c.version]
      BY <2>2, <3>1, <1>1, CallTypes DEF WriteReply, TypeOK
    <3>3. /\ c.inode \in Inodes /\ c.version \in Versions /\ Writing(w, c.inode) /\ c.version # None
          /\ Length[c.version] \in Nat
      BY <1>1, CallTypes, VersionsHaveLengths DEF Writing
    <3>4. /\ c.next = Len(content[c.inode]) + 1 /\ Beginning(content[c.inode], c.version)
          /\ \A x \in Writers : Writing(x, c.inode) => x = w
      BY <1>0, <3>2, <3>3 DEF WriterInv, OwnedInv
    <3>5. Len(content[c.inode]) = Length[c.version]
      <4>1. Len(content[c.inode]) \in Nat /\ Len(content[c.inode]) <= Length[c.version]
        BY <3>3, <3>4, CallTypes DEF Beginning
      <4>2. QED
        BY <3>2, <3>3, <3>4, <4>1
    <3>6. \A x \in Writers : ~After(x, c.inode)
      BY <1>3, <3>3, <3>4
    <3> HIDE DEF c
    <3>7. path[k] # None
      BY <3>2, <3>3, VersionsHaveLengths
    <3>8. QED
      BY <3>2, <3>5, <3>6, <3>7
  <2>3. QED
    BY <2>1, <2>2
<1>5. PathsApart' /\ OwnedInv' /\ AnswerInv'
  BY <1>0, <1>1 DEF PathsApart, OwnedInv, AnswerInv, Answered, Beginning
<1>6. WriterInv'
  <2> SUFFICES ASSUME NEW x \in Writers, NEW j \in Inodes, After(x, j), owner[j] # None
               PROVE  /\ writer'[x].version = owner[j]
                      /\ writer'[x].next = Len(content[j]) + 1
                      /\ \A y \in Writers : After(y, j) => y = x
    BY <1>1 DEF WriterInv, Writing, After
  <2>1. QED
    BY <1>0, <1>2, <1>3 DEF WriterInv
<1>7. ReadInv'
  <2> SUFFICES ASSUME NEW r \in Readers, Reading(r)
               PROVE  /\ reader[r].source # None =>
                           /\ owner[reader[r].inode] = reader[r].source
                           /\ Beginning(reader[r].body, reader[r].source)
                      /\ reader[r].whole =>
                           /\ reader[r].source # None
                           /\ Len(content[reader[r].inode]) = Length[reader[r].source]
                           /\ \A x \in Writers : ~After(x, reader[r].inode)
    BY <1>1 DEF ReadInv, Reading, Writing, Beginning, After
  <2>1. reader[r].inode \in Inodes
    BY CallTypes DEF Reading
  <2>2. QED
    BY <1>0, <1>3, <2>1 DEF ReadInv
<1>8. QED
  BY <1>4, <1>5, <1>6, <1>7 DEF FileInv

LEMMA UnlinkStep ==
  ASSUME TypeOK, FileInv, NEW k \in Keys, Unlink(k)
  PROVE  FileInv'
<1>0. PathsApart /\ OwnedInv /\ WriterInv /\ StoredInv /\ ReadInv /\ AnswerInv
  BY DEF FileInv
<1>1. /\ path'[k] = None /\ \A l \in Keys \ {k} : path'[l] = path[l]
      /\ stored'[k] = None /\ \A l \in Keys \ {k} : stored'[l] = stored[l]
      /\ UNCHANGED <<content, writer, reader, owner>>
  BY DEF Unlink, TypeOK
<1>2. PathsApart'
  BY <1>0, <1>1 DEF PathsApart
<1>3. OwnedInv' /\ WriterInv' /\ ReadInv' /\ AnswerInv'
  BY <1>0, <1>1 DEF OwnedInv, WriterInv, ReadInv, AnswerInv, Writing, Reading, Answered, Beginning
<1>4. StoredInv'
  BY <1>0, <1>1 DEF StoredInv, Writing
<1>5. QED
  BY <1>2, <1>3, <1>4 DEF FileInv

(* A step of one download leaves the files and the other downloads alone.   *)
LEMMA DownloadStep ==
  ASSUME TypeOK, FileInv, NEW r \in Readers,
         GetPiece(r) \/ GetEnd(r) \/ GetError(r) \/ GetAbort(r) \/ \E k \in Keys : GetOpen(r, k)
  PROVE  FileInv'
<1>0. PathsApart /\ OwnedInv /\ WriterInv /\ StoredInv /\ ReadInv /\ AnswerInv
  BY DEF FileInv
<1>1. /\ UNCHANGED <<path, content, writer, owner, stored>>
      /\ \A q \in Readers \ {r} : reader'[q] = reader[q]
  BY DEF GetPiece, GetEnd, GetError, GetAbort, GetOpen, TypeOK
<1>2. PathsApart' /\ OwnedInv' /\ WriterInv' /\ StoredInv'
  BY <1>0, <1>1 DEF PathsApart, OwnedInv, WriterInv, StoredInv, Writing, Beginning
<1> DEFINE Fits(d) ==
      /\ d.source # None => owner[d.inode] = d.source /\ Beginning(d.body, d.source)
      /\ d.whole => /\ d.source # None
                    /\ Len(content[d.inode]) = Length[d.source]
                    /\ \A w \in Writers : ~Writing(w, d.inode)
           Tells(d) ==
      /\ d.source # None => Beginning(d.body, d.source)
      /\ d.whole => d.source # None /\ (d.body = <<>> \/ Len(d.body) = Length[d.source])
<1>3. Reading(r) => reader[r] \in Download /\ Fits(reader[r])
  BY <1>0, CallTypes DEF ReadInv, Reading
<1>4. \/ reader'[r] = None
      \/ ~reader'[r].answered /\ Fits(reader'[r])
      \/ reader'[r].answered /\ Tells(reader'[r])
  <2>1. ASSUME NEW k \in Keys, GetOpen(r, k) PROVE ~reader'[r].answered /\ Fits(reader'[r])
    <3>1. reader'[r] = [inode |-> path[k], body |-> <<>>, answered |-> FALSE,
                        source |-> owner[path[k]], whole |-> stored[k] # None]
      BY <2>1 DEF GetOpen, TypeOK
    <3>2. path[k] \in Inodes
      BY <2>1, CallTypes DEF GetOpen
    <3>3. owner[path[k]] # None => Beginning(<<>>, owner[path[k]])
      BY <3>2, CallTypes, EmptyBegins
    <3>4. stored[k] # None =>
            /\ owner[path[k]] = stored[k] /\ Len(content[path[k]]) = Length[stored[k]]
            /\ \A w \in Writers : ~Writing(w, path[k])
      BY <1>0 DEF StoredInv
    <3>5. /\ reader'[r].inode = path[k] /\ reader'[r].body = <<>> /\ ~reader'[r].answered
          /\ reader'[r].source = owner[path[k]] 
          /\ reader'[r].whole = (stored[k] # None)
      BY <3>1
    <3>6. stored[k] # None => owner[path[k]] # None
      BY <3>4
    <3>7. QED
      BY <3>3, <3>4, <3>5, <3>6
  <2>2. ASSUME GetPiece(r) PROVE ~reader'[r].answered /\ Fits(reader'[r])
    <3> DEFINE d == reader[r]
               s == content[d.inode]
               b == Append(d.body, s[Len(d.body) + 1])
    <3>1. Reading(r) /\ Len(d.body) + 1 <= Len(s) /\ reader' = [reader EXCEPT ![r].body = b]
      BY <2>2 DEF GetPiece, TypeOK
    <3>2. /\ d \in Download /\ d.inode \in Inodes /\ d.body \in Bodies /\ s \in Bodies
          /\ d.source \in Versions \cup {None} /\ ~d.answered
      BY <3>1, CallTypes DEF Reading
    <3>3. reader'[r] = [d EXCEPT !.body = b]
      BY <3>1 DEF TypeOK
    <3>4. /\ reader'[r].inode = d.inode /\ reader'[r].body = b /\ reader'[r].answered = d.answered
          /\ reader'[r].source = d.source /\ reader'[r].whole = d.whole
      BY <3>2, <3>3 DEF Download
    <3>5. d.source # None => Beginning(b, d.source)
      <4>1. ASSUME d.source # None PROVE Beginning(b, d.source)
        <5>1. Beginning(s, d.source) /\ Beginning(d.body, d.source) /\ d.source \in Versions
          BY <1>0, <1>3, <3>1, <3>2, <4>1 DEF OwnedInv
        <5>2. QED
          BY <3>1, <3>2, <5>1, ReadBegins
      <4>2. QED
        BY <4>1
    <3>6. Fits(d)
      BY <1>3, <3>1
    <3> HIDE DEF b
    <3>7. QED
      BY <3>2, <3>4, <3>5, <3>6
  <2>3. ASSUME GetEnd(r) PROVE reader'[r].answered /\ Tells(reader'[r])
    <3> DEFINE d == reader[r]
    <3>1. Reading(r) /\ Len(d.body) >= Len(content[d.inode]) /\ reader' = [reader EXCEPT ![r].answered = TRUE]
      BY <2>3 DEF GetEnd
    <3>2. /\ d \in Download /\ d.inode \in Inodes /\ Len(d.body) \in Nat
          /\ Len(content[d.inode]) \in Nat /\ d.source \in Versions \cup {None}
      BY <3>1, CallTypes DEF Reading
    <3>3. /\ reader'[r].body = d.body /\ reader'[r].answered /\ reader'[r].source = d.source
          /\ reader'[r].whole = d.whole
      BY <3>1, <3>2 DEF Download, TypeOK
    <3>4. Fits(d)
      BY <1>3, <3>1
    <3>5. d.whole => Len(d.body) = Length[d.source]
      BY <3>1, <3>2, <3>4, VersionsHaveLengths DEF Beginning
    <3>6. QED
      BY <3>3, <3>4, <3>5
  <2>4. ASSUME GetError(r) PROVE reader'[r].answered /\ Tells(reader'[r])
    <3> DEFINE d == reader[r]
    <3>1. Reading(r) /\ reader' = [reader EXCEPT ![r].answered = TRUE, ![r].body = <<>>]
      BY <2>4 DEF GetError
    <3>2. d \in Download /\ d.source \in Versions \cup {None}
      BY <3>1, CallTypes DEF Reading
    <3>3. reader'[r] = [d EXCEPT !.answered = TRUE, !.body = <<>>]
      BY <3>1 DEF TypeOK
    <3>4. /\ reader'[r].body = <<>> /\ reader'[r].answered /\ reader'[r].source = d.source
          /\ reader'[r].whole = d.whole
      BY <3>2, <3>3 DEF Download
    <3>5. d.source # None => Beginning(<<>>, d.source)
      BY <3>2, EmptyBegins
    <3>6. d.whole => d.source # None
      BY <1>3, <3>1
    <3>7. QED
      BY <3>4, <3>5, <3>6
  <2>5. ASSUME GetAbort(r) PROVE reader'[r] = None
    BY <2>5 DEF GetAbort, TypeOK
  <2>6. QED
    BY <2>1, <2>2, <2>3, <2>4, <2>5
<1>5. ReadInv'
  <2> SUFFICES ASSUME NEW q \in Readers, reader'[q] # None, ~reader'[q].answered
               PROVE  Fits(reader'[q])
    BY <1>1 DEF ReadInv, Reading, Writing
  <2>1. CASE q = r
    BY <1>4, <2>1
  <2>2. CASE q # r
    BY <1>0, <1>1, <2>2 DEF ReadInv, Reading
  <2>3. QED
    BY <2>1, <2>2
<1>6. AnswerInv'
  <2> SUFFICES ASSUME NEW q \in Readers, reader'[q] # None, reader'[q].answered
               PROVE  Tells(reader'[q])
    BY DEF AnswerInv, Answered, Beginning
  <2>1. CASE q = r
    BY <1>4, <2>1
  <2>2. CASE q # r
    BY <1>0, <1>1, <2>2 DEF AnswerInv, Answered
  <2>3. QED
    BY <2>1, <2>2
<1>7. QED
  BY <1>2, <1>5, <1>6 DEF FileInv

ObjectInv == TypeOK /\ FileInv

LEMMA ObjectStep == ObjectInv /\ [Next]_vars => ObjectInv'
<1> SUFFICES ASSUME ObjectInv, [Next]_vars PROVE ObjectInv'
  OBVIOUS
<1>1. TypeOK /\ FileInv /\ TypeOK'
  BY TypeStep DEF ObjectInv
<1>2. CASE UNCHANGED vars
  BY <1>1, <1>2
     DEF ObjectInv, vars, FileInv, PathsApart, OwnedInv, WriterInv, StoredInv, ReadInv, AnswerInv,
         Writing, Reading, Answered, Beginning
<1>3. CASE Next
  BY <1>1, <1>3, OpenStep, PieceStep, WriteEnds, UnlinkStep, DownloadStep DEF Next, ObjectInv
<1>4. QED
  BY <1>2, <1>3

(* A download whose file kept its version is a beginning of that version,   *)
(* whatever else is stored, deleted and downloaded meanwhile.               *)
THEOREM DownloadsCorrect == Spec => []DownloadsAreOneVersion
<1>1. ObjectInv => DownloadsAreOneVersion
  <2> SUFFICES ASSUME ObjectInv, NEW r \in Readers, Answered(r), reader[r].source # None
               PROVE  IsPrefix(reader[r].body, Whole(reader[r].source))
    BY DEF DownloadsAreOneVersion
  <2>1. Beginning(reader[r].body, reader[r].source)
    BY DEF ObjectInv, FileInv, AnswerInv
  <2>2. reader[r].body \in Bodies /\ reader[r].source \in Versions
    BY CallTypes DEF ObjectInv, Answered
  <2>3. QED
    BY <2>1, <2>2, BeginningIsPrefix
<1>2. Init => ObjectInv
  BY TypeInit, FileInit DEF ObjectInv
<1>3. QED
  BY <1>1, <1>2, ObjectStep, PTL DEF Spec

(* A download begun when a write had been answered, and not disturbed by    *)
(* another write to its file, has all of what was stored, or nothing.       *)
THEOREM StoredCorrect == Spec => []StoredIsDownloaded
<1>1. ObjectInv => StoredIsDownloaded
  <2> SUFFICES ASSUME ObjectInv, NEW r \in Readers, Answered(r), reader[r].whole
               PROVE  reader[r].body \in {Whole(reader[r].source), <<>>}
    BY DEF StoredIsDownloaded
  <2>1. /\ reader[r].source # None /\ Beginning(reader[r].body, reader[r].source)
        /\ reader[r].body = <<>> \/ Len(reader[r].body) = Length[reader[r].source]
    BY DEF ObjectInv, FileInv, AnswerInv
  <2>2. reader[r].body \in Bodies /\ reader[r].source \in Versions
    BY <2>1, CallTypes DEF ObjectInv, Answered
  <2>3. QED
    BY <2>1, <2>2, BeginningIsPrefix
<1>2. Init => ObjectInv
  BY TypeInit, FileInit DEF ObjectInv
<1>3. QED
  BY <1>1, <1>2, ObjectStep, PTL DEF Spec
=============================================================================
