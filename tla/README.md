# Phi-Cloud-Server in TLA+

Specifications of the cloud save server in `src/`, model-checked with TLC and proved with TLAPS
(all properties of its passing runs but one, a liveness property). Every definition is translated
from the Rust source; `PROJECT.json` names, for each one, the lines it stands for.

```
tlasany M.tla                                   # parse
tlc -workers 2 -config MCGameSaves.cfg MCGameSaves.tla   # check a run (config, then MC module)
tlapm UserSessionsProofs.tla                    # check proofs
```

## 1. The system

`pcs_core` holds the logic, generic over a *backend* (`types/backend.rs`): a key-value store
(`KVStorage`), a file bucket, random ids, a clock and hooks. `pcs_cli` runs it on tokio, with redb
and a directory; `pcs_worker` runs it on Cloudflare Workers, with Workers KV and R2. There are no
locks and no transactions across calls of the store. A handler is an async function which yields at
every call, so any two handlers interleave between any two calls, and a handler whose connection
closes is dropped at one of them.

| component | state | operations | properties that make it correct |
|---|---|---|---|
| users (`pcs_core/user`) | tables `sessions` (by token), `sessions_by_openid`, `sessions_by_objid` | register/login, rename, refresh token, delete, get | no user's row or index is reached through another's token, openid or id; a revoked token stays revoked; credentials a client was given work |
| files (`pcs_core/file`) | table `file_tokens`, the bucket's objects | create token, upload (start, part, complete), delete, download | a completed upload is whole; a finished one cannot be reopened; a download shows one version |
| saves (`pcs_core/game`) | tables `game_saves`, `game_saves_by_user` | create, update, list | each list names its own saves; a save's file can be loaded |
| save editor (`extensions/save`) | none of its own: reads and replaces the first save's file | get, put | replaces a save's file without a moment at which it has none; keeps what the request does not name |
| b30 card (`extensions/b30`) | none | get | the right plays, labels and total |
| redb store (`pcs_cli/kv.rs`) | one table per type | get, put, delete, each a transaction | |
| local bucket (`pcs_cli/file_bucket.rs`) | objects, upload state files, directories of part files | put, get, delete, multipart | as for files |
| worker backend (`pcs_worker/backend.rs`) | list of admitted openids under one key | `user_check`, events | at most the configured number of users, none refused who has a slot |
| worker store, R2 (`pcs_worker`) | services | pass calls on | users stay apart although reads lag |
| events (`types/event.rs`, `emit_event`) | what the webhook knows | one event after each handler's last write | the webhook's picture of an account is the tables' |
| routing (`pcs_core/handler.rs`), HTTP servers, configuration, debug proxy | none that lasts | | |

**Interactions.** User delete reads the list of saves and deletes their files, rows and list before
the session's rows. The save editor goes through the session, the list of saves, the save and its
file token to the bucket. A save names a file by the id of its token, which is the object's key.
Devices compose the file and save operations into a sync over several requests; nothing in the
server ties these together.

**What is hard here.** Index tables written one put at a time, with requests racing or dropped
between the puts. Rows read, held across awaits and written back. Lists read, extended and written
back. Files deleted by one client that another has just listed. Multipart state kept in a file that
is truncated before it is written. Stale reads of Workers KV. `PROJECT.json` lists these hazards at
the lines where they bite, each with the properties that cover it, or with the reason none does.

## 2. The modules

| module | models | state |
|---|---|---|
| `KVStorage` | the store's get, put, delete as operators on tables | |
| `UserSessions` | `user/handler.rs`, `user/utils.rs` | the three tables; per request `pc` and its local variables; `minted`, whom each token was drawn for |
| `Accounts` | *abstract*: an account that changes atomically, and answers that tell what it is | one record per client |
| `AccountClients` | `UserSessions` with careful clients (one call at a time) among arbitrary others; refines `Accounts` | and each client's credentials |
| `AccountEvents` | `AccountClients` with the events and the webhook that mirrors the accounts | and the mirror |
| `StaleSessions` | `UserSessions` over Workers KV, whose reads lag behind its writes | and all that was ever in each table |
| `GameSaves` | `game/handler.rs`, the file handlers, the editor's put, the saves' part of user delete | tokens, objects, saves, lists; per request `pc` and its variables `user`, `save`, `file`, `old`, `ids` |
| `SaveVersions` | *abstract*: saves as registers of whole versions, each stored once | one version per save |
| `SaveClients` | `GameSaves` with devices that sync or delete their user, editors that edit, and the reads (list, the editor's get, the b30 card) call by call; refines `SaveVersions` | and per device `stage`, `player`, `target`, `seen`, `mine`; per read the ids `left` and the `row`; which users are deleted |
| `LocalUpload` | the upload handlers over the local bucket, file operation by file operation | state files, part files, objects |
| `ObjectFiles` | put, complete, delete and download of the local bucket over open files, piece by piece; `handle_req`'s way with a download | names, files, calls in flight |
| `UserQuota` | `user_check` and the worker's get and put, with stale reads | the list, every value it had |
| `SaveArchive` | `SaveProvider` and what the editor's put does to a save's bytes | the files of the zip |
| `BestThirty` | `compute_b30`, `build_b30_cards`, `into_card_data` | the game record |
| `MC*` | instances for TLC | |
| `UserSessionsProofs`, `AccountClientsProofs`, `GameSavesProofs`, `LocalUploadProofs`, `ObjectFilesProofs`, `UserQuotaProofs`, `SaveArchiveProofs`, `BestThirtyProofs` | the theorems about `UserSessions` and `StaleSessions`, `AccountClients` and `AccountEvents`, `GameSaves` and `SaveClients`, `LocalUpload`, `ObjectFiles`, `UserQuota`, `SaveArchive`, `BestThirty` | |

**State and actions.** A table is a function from keys to values or `None`. A handler's chain of
store calls becomes a chain of actions, `Lookup` for the call it starts with and one action for each
later call, with the local computation in between in the same action; `pc` names the next call. An
early return or a `?` is a step to `idle`. `Abort` ends a handler between two calls; it covers a
closed connection, an error of the store and a stop of the process, since nothing but the store
outlives a handler. Ids are drawn from a finite set and never drawn twice (`random_id` has 128 bits;
36^25 > 2^128, so its text loses none).

Handlers that change nothing can still fail in the middle. `handle_list`, the editor's get and the
b30 card await the ids, a row, and the token or object of the file it names one after the other, and
an edit between two of these calls shows; so they are actions of `SaveClients` (`ListIds` to
`OpenObject`), whose variables `left` and `row` are the handler's locals. `handle_get_current` reads
one row, and is a state function. What the editor's get makes of the bytes is one too (`GetSucceeds`
of `SaveArchive`).

Where a module puts other reads under the same handlers (`StaleSessions`), a handler's read is an
action that takes the value read (`LoginReading`), and the plain action is that one with the table's
value. `SaveClients` holds of the account only whether it has a session, which is what the handlers
on saves ask of it; the product of both modules' tables is not modelled, as no handler on saves
writes a session and user delete is the only one that writes both. The current value is among those
a stale read may return, so what `stale_sessions` checks holds of the redb store as well.

**Left out throughout**: time stamps, names and formats, hashes, permissions (ACLs are stored and
never read), logging, the save events' payloads.

## 3. The runs

| run | asks | bounds |
|---|---|---|
| `stale_sessions` | do two users' rows, indexes or tokens ever mix, on a store whose reads may be arbitrarily old? what revives a revoked token? | 2 requests, 2 openids, 3 tokens, 2 object ids |
| `sessions_three_requests` | does a revoked token, or a dangling index entry, ever come back to life? | 3 requests, 1 openid, 3 tokens, 2 object ids |
| `accounts_safety` | does a careful client see an atomic account (`Accounts`), and the webhook the same one, among others that race and abandon calls? | 2 requests, 1 careful and 1 other openid, 3 tokens |
| `accounts_liveness` | is each of its calls answered, truthfully? | the same with 2 tokens, 1 nickname |
| `saves` | do racing creates, edits and deletes mix lists or revive saves? what becomes of what failed deletes leave? | 2 requests, 2 users, 3 files, 2 save ids |
| `save_clients` | is each save a register of whole versions (`SaveVersions`)? what can make a list, a get or a b30 card fail half-way? does deleting the user work and leave nothing? | 3 devices, editors or reads of 1 user, 3 files, 2 save ids |
| `upload_one` | is what an answered complete stored whole, and does a finished upload stay finished? | 2 requests, 1 upload of 2 parts |
| `downloads` | does a download show one version, and all of what was stored? | 2 writers, 1 reader, 1 key, 3 files on disk, versions of 1 and 2 pieces |
| `quota` | does the list keep to its limit, and does each account have its slot? | 3 openids, limit 2, 2 checks |
| `save_archive` | does an edit show what it put and keep the rest? | an upload with no name twice, 3 fields, 1 other file, 2 values, 1 broken value, any edits in sequence |
| `b30` | are total and AP cards those of the reference definition, and can a better play lower the total? | every record over the charts of `MCBestThirty` with accuracies 0, 99 and AP; 2 P cards, 2 B cards |
| `b30_labels` | are cards labelled P always APs? *Violated* | the same |

Why the bounds are enough. Two requests give every pair of handlers in every interleaving, at every
position. The third request in `sessions_three_requests` is for patterns in which two handlers leave an
index and a row at odds and a third one meets them. Tokens are never reused, so their number bounds the
length of a history: three allow two registrations and the refresh of one, and stale reads make up for
length, as they bring back every earlier row. Three devices in `save_clients` are two that replace each
other's file and a third that listed before both, or one of each and a read. Three files let each of the
first two have one of its own besides the one the save had, or give a second save its file: with two ids
a list goes on after a row that is missing or was moved, and a delete has two saves to go through. (A
fourth file, for a third device that replaces it too, was checked with one save id; the theorems of §4
are for any number.) `CallsBegin` ends a history once a delete of the user overlapped another call or
was given up: nothing is promised of such a user any more, and `saves` has those histories. In
`downloads` readers affect nobody, so one stands for any number; three files let a name be removed twice
while the first file is still open, two pieces put every write before, between and after the pieces of a
read. An undisturbed upload records each part once, so `MaxRecorded` = number of parts reaches every
state in which `CompletedIsWhole` promises anything, and the overlapping and repeated parts are there
besides. `Limit` 2 with three openids has a full list, a refused openid and a race for the last slot. In
`BestThirty` the counts 3, 27 and 30 are constants, so few plays suffice to overflow each of them. An AP
of an easy chart there is worth less than 99 percent of either harder one, so that the APs of a record
may rank behind all B cards and the loop has to pass over better plays to find them; accuracy 0 stands
for those below the threshold, where the square in `single_rks` is larger than that of 99 percent. TLC
explores each instance completely.

`CHECK_DEADLOCK FALSE` stands where the modelled run really ends: an upload that is over and whose
ids are used up, a record in which every play is perfect.

**Fairness.** Only `AccountClients` states any: weak fairness of the steps of a careful client's
call in flight. tokio keeps polling the task of an open connection and redb answers each call.
Nobody is obliged to make a call, and others' calls may stop anywhere.

### What they show

* **Sessions.** However handlers overlap and wherever they stop, users stay apart; that holds even
  when every read may be arbitrarily old, as on Workers. What is *not* kept is availability: a
  refresh or delete that stops half-way, or two that race, leave an index entry without a row, and
  `LockoutIsPermanent` says the openid can then never log in through the API again. Nor does
  revocation survive stale reads: there a cached row still opens its session, and a rename of it
  stores it again (`RevivedByRenamesOnly` shows that nothing else does). A client that makes one call
  at a time and is not cut off meets neither on the redb store; it sees atomic accounts, and a webhook
  that is up sees the same ones (`MirrorFollows`).
* **Saves.** An edit or a sync that stops anywhere leaves files nobody refers to, but never a save
  without its file, provided a device does not send an old pointer again. `ImplementsVersions` says
  more: however syncs and edits overlap, a save goes from one whole version to a new one, and none
  comes back; a delete of the user beside them lets the calls in flight finish and no more begin.
  Racing creates may lose a save from its list; they do not mix users.
* **Reads.** A list, a get of the editor and a b30 card are *not* safe beside an edit: one that points
  the save elsewhere and deletes the old file between the read of the row and the read of the token
  makes a list fail altogether. `ReadsFailOnlyOvertaken` says that this, and a delete of the save, is
  all that can go wrong: a read that nobody overtakes finds every row, token and object it asks for,
  whatever else runs or was given up.
* **Deletes.** A delete of the user that has the user's devices to itself is never refused, whatever
  they raced before, and leaves nothing that was listed. One that is given up after a file's token is
  gone cannot be repeated until a rename points the save elsewhere (`StrandedUntilRepointed`), and
  an object whose token went first stays for good (`LeaksStay`).
* **Downloads.** A download reads one open file, so deleting the object or storing another under its
  name does not show; only truncation in place does. A read error is answered with status 200 and
  an empty body, which `StoredIsDownloaded` has to allow.
* **Uploads.** Overlapping parts may be lost, repeated parts are stored twice (the state file is
  read, extended and written back without a lock). `CompletedIsWhole` therefore speaks of uploads
  whose calls do not overlap, and holds for them across failed and repeated completes. `disturbed`
  records when an upload leaves that regime.
* **Quota.** Racing checks may forget an openid, which then has an account without a slot; the list
  itself never exceeds its limit. `raced` records the first such write.
* **b30.** The comment in `extensions/b30/handler.rs:77` describes thirty cards, the first three
  being APs; `build_b30_cards` labels by position, so with fewer than three APs a play that is no AP
  is labelled `P` (`b30_labels`, listed under findings).

## 4. The proofs

TLC checks the instances above; these theorems hold for every value of the constants that satisfies the
`ASSUME` of the module. Every proof of an invariant has the same shape: a lemma for the initial states,
a lemma for a step with one case for each action, and the theorem by the invariant rule.

**Users** (`UserSessionsProofs`; assumes only that `None` is none of the ids and records).

* `TypeCorrect`. `TypeOK` is not inductive: a put stores the row its handler holds, so the handler
  must hold one. `TypeInv` adds `LocalsReady`, which says at which calls each local is present.
* `RowsCorrect`, `IndexesCorrect`, `OwnersCorrect`, `HandlersCorrect`. The four invariants need each
  other and are proved together as `IdentityInv` relative to `TypeInv`: a put files the row its
  handler holds, that row came from a table or a fresh draw, and a draw only concerns a token nobody
  has.
* `RevocationCorrect`, `LockoutCorrect`: action properties, each from one lemma that goes through
  the actions. A step that brings a token back, or a row to a locked-out openid, would have to start
  from a row there is none of, or from a handler that holds it.

**Users over stale reads** (second part of `UserSessionsProofs`; assumes no more than that).

* The five invariants again. `StaleInv` says of every row and index entry *ever written* what
  `IdentityInv` says of the current ones (`SeenTypes`, `SeenMatches`), so that a handler may be given
  any of them. An action of the module is one of `UserSessions` with another value read, and most of
  its cases follow from the lemmas there.
* `RevivalCorrect` (`RevivedByRenamesOnly`): a draw is never of a token that was drawn before, a
  refresh or registration stores a drawn one, and only a rename stores what it read.

**Careful clients and the webhook** (`AccountClientsProofs`; assumes `Careful` ⊆ `OpenIds` and that
`None` is no credential and no account).

* `CredentialsCorrect`, `NeverRefused`. `CarefulInv` says, for each call of a careful client, which
  rows and index entries of its openid exist while the call is at each of its puts (`CallOK`), that
  there is one such call at a time (`OneCall`), and that between calls the row the client knows of is
  the openid's only one and both indexes lead to it (`IdleOK`). The hard part is that *nobody else*
  disturbs them: `KeptIntact` and `KeptCall` reduce a foreign step to `IdentityInv` (what it writes
  belongs to another openid) and to ids being drawn once.
* `AccountsCorrect`: the refinement of `Accounts`. `Account(o)` reads the abstract account from the
  tables and from the call in flight; each action of a careful client is one abstract step or none
  (`CarefulStepSays`, `CarefulStartSays`), and others' actions are none (`OthersSay`).
* `EventsOnlyWatch`: with the events, the handlers take no step they did not take without them.
  `MirrorCorrect`: while no event of `o` is outstanding (`Quiet`), the webhook shows the account.

**Saves** (`GameSavesProofs`; assumes that files, save ids and `None` are told apart).

* `TypeCorrect`, `ListsCorrect`. `ListInv` adds to `ListsAreApart` the lists handlers hold: a push
  writes back a list it read earlier, so the copy must be apart from the lists of other users, and the
  pushed id on no list and in no other handler. `NamesDrawn` gives that: everything named anywhere was
  drawn, so a fresh id is nowhere.
* `DeletionCorrect`, `LeakCorrect`, `StrandedCorrect`: action properties, each from one lemma through
  the actions.

**Devices, editors and deletes** (second part of `GameSavesProofs`, over the former). `SyncIsCalls`: a
step of a device is a step of `GameSaves`, so its invariants hold here too. The inductive invariant
`SaveInv` has five parts:

* `BaseInv`: types, and `JobInv`, which ties the stage of a device to the call it is in;
* `ListInv`;
* `DraftInv`: a file about to be pointed at has its token (and its object once it is uploaded), and it
  is the file of no save, no other job, and on no delete's list;
* `FileInv`: a file is the file of one save, and what a device, an editor, a read or a delete has *read*
  of a save is either still its file or the file of no save. This is why a deletion of a replaced file
  never hits one in use;
* `KeptInv`: a listed id, and one that a read has yet to go through, has its row until a delete of its
  user set out to remove it.

`SavesLoadable` and `ReadsCorrect` follow. For the latter `FileInv` includes the row a read holds: the
file in it is still the file of its save, and then has token and object, or the read was overtaken.
`VersionsCorrect` is the refinement of `SaveVersions`: a put of the pointer is the abstract `Store`, and
what makes it one is `DraftInv`.

`DeletionWithoutTrace` and `QuietDeletesSucceed` (what a delete that has its user to itself does) rest
on two more:

* `OwnerInv`: what is on a user's list, what a delete of the user set out to remove and what a call
  for the user is about belong to nobody else (`OneOwner`), since only a fresh draw makes a save a
  user's, and a call works for one user (`EmployerInv`);
* `QuietInv`: such a delete finds each save it has yet to remove with the pointer, the token and the
  object it had when the delete began, less what the call at hand removed already (`Removing`), and
  nothing is left of those it is done with (`Cleared`). `StepForeign` shows that a step for another
  user leaves all of this as it is, whatever the action, and `DeleteGoesOn` goes through the delete's
  own steps.

The latter is an action property: the only steps that could refuse the delete find what they look for.

**Uploads** (`LocalUploadProofs`; assumes that part numbers are naturals, that there is one, and that
`None` is none of the ids and records).

* `UploadsTypeCorrect`. What complete copies is `SortedParts`, a choice among the orders of the listed
  parts; that there is an order at all (`OrderExists`) is an induction over their number, done from
  the least-number principle, which is the form of induction the provers can be given.
* `ClosedCorrect`: every step after a call's lookup keeps to the upload of the call and to its key
  (`Frame`), so a finished upload is only touched by calls that found it open.
* `CompletedCorrect`. `CalmInv` speaks of undisturbed uploads: one call at a time, whose parts as read
  are those recorded, with every answered part among them and written (`PartOK`); a complete has
  copied exactly its first parts in order (`CompleteOK`); and while an object is promised, every other
  complete on its key has yet to open it (`StoredOK`). `CompletedIsWhole` alone says nothing of the
  copies calls hold, nor of a file truncated and not yet written.

**Downloads** (`ObjectFilesProofs`; assumes that lengths are naturals and that `None` is apart).

* `FilesTypeCorrect`, `DownloadsCorrect`, `StoredCorrect`. `FileInv` says of each file, named or not,
  whether its content is the beginning of one version, and where its one writer stands (`OwnedInv`,
  `WriterInv`); a download has a beginning of what its file holds (`ReadInv`), which must be said of
  the open file and not of the name, since the name may lead elsewhere by then.

**Quota** (`UserQuotaProofs`; assumes `Limit` ∈ Nat \ {0}).

* `TypeCorrect`, `ListCorrect`. `ListInv` extends `ListWithinLimit` to every list ever written and to
  the lists that checks hold: stale reads return old lists, and a check that extends one needs it
  short and without its openid.
* `QuotaCorrect`. `SlotInv` adds to `QuotaHolds` that a check past its list has its openid on it
  while nothing raced.

**The save archive** (`SaveArchiveProofs`; assumes that the fields are a sequence, the other names
finitely many, names of fields and of other files apart, and values, broken data and `None` apart).

The put sets one field after the other in a loop, a fold in the model. `RewriteSteps` restates the
fold by the archives *between* the fields: the first is the one read, each next one sets one field
more, the last is the one stored. That the fold has a value (`FoldsExist`) is an induction on the
number of fields, done from the least-number principle.

* `NamesCorrect`. `ArchiveInv` is `NamesAreUnique` with the type of the archive. `WriteIs`: the file
  found by its name goes before the new one is added, so if no two files had one name, no two do
  now, the name written reads back, and every other name reads as before. Without uniqueness the
  last would be false: the file behind a removed one would show.
* `ReadBackCorrect`, `KeepsTheRestCorrect`, `KeepsShowingCorrect`. `RewriteIs` is an induction over the
  archives between the fields: after the first n, those of them that the change gives read as given
  and all other names as at the start. A put of all five starts from an empty archive: it alone loses
  other files, and it makes any save one that can be shown.

**The b30 card** (`BestThirtyProofs`; assumes that songs and kinds are sequences, difficulties naturals,
accuracies whole percentages up to 100, `None` no record, and `Total` = `ApCount` + `BestCount`).

* `TotalCorrect`. Sums come as `MapThenSumSet`, a fold in an order of its own choosing;
  `WeightRemove` shows that any element may be taken out first, and with it `RksSumExchange` that
  plays which are as many as, and no worse than, others have no smaller sum. `SortedIs` derives from
  the order of plays being strict and total (`AheadIsAnOrder`) that sorting by the number of plays
  ahead names each play once, best first; `TopIs` then gives `RksSumExchange` its plays.
* `NeverDropsCorrect`, an action property. A better play of a level has the place of the old one and
  counts if that did (`StepPlay`), so the thirty plays that made the old total have successors worth
  as much (`BetterPlays`), and by `TotalIs` no plays exceed the new total. That the square in
  `single_rks` is only ever taken of accuracies from 70 percent is what `StepPlay` rests on.
* `ApCardsCorrect`. The loop that stops at the third AP is restated by what it has taken after each
  play, as in the archive, and `Taken` is its loop invariant: fewer than `ApCount` taken means that
  every AP met so far is among them, and no AP outside is better than one inside.

The type invariants of `ObjectFiles` and `UserQuota` are proved only: no run checks them, since a
mistake in that code that its compiler accepts would not break them.

**Only model-checked**: `CallsAnswered` of `AccountClients`. It is liveness under weak fairness, whose
proof needs `ENABLED`, which the provers do not handle.

## 5. Assumptions

* Ids drawn by `random_id` never repeat, and nobody guesses the ids of a careful client.
* One call of the redb store is atomic and durable (`kv.rs`: one transaction each). A call already
  handed to the blocking pool may commit although its handler was dropped; the handler then counts
  as aborted after the call.
* A device in `SaveClients` that starts over makes a new file; it does not send the same pointer
  twice.
* The webhook of `AccountEvents` is up. An event that is not delivered is not sent again
  (`emit_event` ignores the outcome), so nothing could be promised of one that missed some.
* A read of Workers KV returns some value its key once had, or none. Later reads may be older.
* A file that is open stays readable when its name is removed (POSIX); the disk gives a new file to
  a new name.
* An uploaded save archive names no entry twice, as the game writes none that does. The server does not
  enforce it: `SaveProvider::parse` takes any zip, and of two entries of one name `write_encrypted`
  would remove the first and leave the second to be read instead of what was put.
* The zip, AES, md5 and codec libraries do what they say; R2 and Workers KV store what they are
  given, the latter with reads that lag.

## 6. Not modelled

Socket I/O and start-up of the HTTP servers (their effect on handlers is `Abort`), path and JSON
parsing, configuration, the debug proxy, the b30 card's template, pictures and texts (the challenge
medal and the rating pictures among them), `head` and `MultipartUpload::abort` (no caller), rounding
and NaN of `f32` (the model's accuracies are integers). R2's multipart is a service to which the
worker passes each call, and what it promises is not in this repository; part numbers beyond 16 and
31 bits, which the two buckets cut, do not occur with clients that number parts from 1. The save
handlers over stale reads have no model: a list of saves that may be arbitrarily old loses saves as
racing creates do, and a pointer that may be old names a deleted file, so neither `SavesStayLoadable`
nor `ReadsFailOnlyOvertaken` can be expected of them.

## 7. Plan

Order followed so far: users first, as everything else authenticates through them, then saves and
files, then the parts of the backends with logic of their own, the pure computations, and then what
crosses components: stale stores, events, deletes of users with saves, downloads against writes;
then the proofs, in the same order. What could follow:

1. `StaleSessions` for careful clients: which of their credentials still work when reads lag.
2. Part numbers beyond 31 bits in the local bucket and accuracies that are NaN, the two hazards that
   no property covers.
