---------------------------- MODULE SaveArchive -----------------------------
(***************************************************************************)
(* The bytes of a save as the save editor reads and rewrites them:          *)
(* SaveProvider of save_provider.rs, a zip archive of five encrypted        *)
(* entries and whatever else the game put there, and the middle of          *)
(* handle_save_extension_put, which sets the fields of the request in the   *)
(* archive of the save or, when all five are given, in a new one.           *)
(*                                                                          *)
(* The zip, AES and save codec libraries are taken to read back what they   *)
(* wrote, and what a device uploaded to be a zip (SaveProvider::parse       *)
(* refuses anything else and nothing changes).  An entry's data is a        *)
(* decoded value, version byte included, or one of the ways reading it      *)
(* fails.  The uploaded zip is assumed to name no entry twice, as the       *)
(* game's own are; SaveProvider::parse does not look.  Races of editors are *)
(* in SaveClients.                                                          *)
(***************************************************************************)
EXTENDS Naturals, SequencesExt

CONSTANTS
  None,    \* no such entry, a field the request leaves out
  Fields,  \* the five entries, in the order the handler sets them: a sequence
  Others,  \* names of other entries
  Values,  \* what a field may hold
  Broken   \* data read_decrypted fails on: EmptyEntry, DecryptionFailed, CodecFailed

Names == ToSet(Fields) \cup Others

ASSUME SaveArchiveAssumption ==
  /\ Fields \in Seq(ToSet(Fields))
  /\ IsFiniteSet(Others)
  /\ ToSet(Fields) \cap Others = {}
  /\ None \notin Values \cup Broken
  /\ Values \cap Broken = {}

VARIABLE archive   \* the files of the zip, in its order

(* A change leaves a field alone or gives it a value.                       *)
Change == [ToSet(Fields) -> Values \cup {None}]

-----------------------------------------------------------------------------
(* find_by_name: the first file with the name, 0 for none.                  *)
FindByName(files, name) == SelectInSeq(files, LAMBDA file : file.name = name)

(* get_entry_raw and read_decrypted.                                        *)
ReadEntry(files, name) ==
  LET index == FindByName(files, name)
  IN IF index = 0 THEN None ELSE files[index].data

(* Mutant: the old file stays in front of the new one.                      *)
AddEntry(files, name, value) == Append(files, [name |-> name, data |-> value])

(* Mutant: an entry that is there is left as it is.                         *)
WriteMissingEntry(files, name, value) ==
  IF FindByName(files, name) # 0 THEN files
  ELSE Append(files, [name |-> name, data |-> value])

(* write_encrypted: the old file goes, the new one is added at the end.     *)
WriteEntry(files, name, value) ==
  LET index == FindByName(files, name)
      rest == IF index = 0 THEN files ELSE RemoveAt(files, index)
  IN Append(rest, [name |-> name, data |-> value])

Given(change) == {name \in DOMAIN change : change[name] # None}

(* Mutant: the last of the five is not set.                                 *)
RewriteAllButLast(files, change) ==
  FoldLeft(LAMBDA sofar, name :
             IF change[name] = None THEN sofar ELSE WriteEntry(sofar, name, change[name]),
           files, Front(Fields))

(* The set_* of every field given, in the handler's order.                  *)
Rewrite(files, change) ==
  FoldLeft(LAMBDA sofar, name :
             IF change[name] = None THEN sofar ELSE WriteEntry(sofar, name, change[name]),
           files, Fields)

(* Mutant: a new archive as soon as any field is given.                     *)
SomeFieldsProvided(change) == Given(change) # {}

AllFieldsProvided(change) == Given(change) = ToSet(Fields)

(* handle_save_extension_get answers when all five fields can be read.      *)
GetSucceeds(files) == \A name \in ToSet(Fields) : ReadEntry(files, name) \in Values

-----------------------------------------------------------------------------
(* Whatever a device uploads with no name twice: an assumption about the    *)
(* game, which the server does not enforce.                                 *)
Init ==
  \E names \in UNION {SetToSeqs(S) : S \in SUBSET Names} :
    \E data \in [DOMAIN names -> Values \cup Broken] :
      archive = [i \in DOMAIN names |-> [name |-> names[i], data |-> data[i]]]

(* SaveProvider::new: no source, no file.                                   *)
NewArchive == <<>>

Put(change) ==
  archive' = Rewrite(IF AllFieldsProvided(change) THEN NewArchive ELSE archive, change)

Next == \E change \in Change : Put(change)

Spec == Init /\ [][Next]_archive

-----------------------------------------------------------------------------
(* The editor never makes two files of one name, of which readers would see *)
(* the older, out of an archive that has none.  (write_encrypted removes    *)
(* one file before it adds one.)                                            *)
NamesAreUnique == \A i, j \in DOMAIN archive : archive[i].name = archive[j].name => i = j

(* What a put gives is what the next get shows, even where the entry was    *)
(* missing or beyond reading before.  (Of two files of one name, which Init *)
(* rules out, write_encrypted would remove the first and leave the second   *)
(* in front of the new one.)                                                *)
PutReadsBack ==
  [][\A change \in Change : Put(change) =>
       \A name \in Given(change) : ReadEntry(archive', name) = change[name]]_archive

(* A put of some fields leaves every other entry as it was: the fields not  *)
(* given, readable or not, and the files the editor knows nothing of.  Only *)
(* a put of all five starts from an empty archive and drops those.          *)
PutKeepsTheRest ==
  [][\A change \in Change : Put(change) =>
       \A name \in Names \ Given(change) :
         ReadEntry(archive', name) =
           IF Given(change) = DOMAIN change THEN None ELSE ReadEntry(archive, name)]_archive

(* A save the editor can show stays one whatever is put into it, and a put  *)
(* of all five fields makes any save one.                                   *)
PutKeepsShowing ==
  [][\A change \in Change :
       Put(change) /\ (GetSucceeds(archive) \/ Given(change) = DOMAIN change)
         => GetSucceeds(archive')]_archive
=============================================================================
