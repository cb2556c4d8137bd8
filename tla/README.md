# Nyrex in TLA+

Nyrex is a local-first notes application: a Flutter client keeps encrypted notes in a SQLite
database and pushes them to a Rust service over PostgreSQL. These modules model the parts of
it whose correctness depends on the order in which things happen. TLC checks them on small
instances; TLAPS proves the safety properties that matter most for every value of the
constants.

Contents: [1 The system](#1-the-system) · [2 Modules and code](#2-modules-and-code) ·
[3 Runs](#3-runs) · [4 Fairness](#4-fairness) · [5 Proofs](#5-proofs) ·
[6 Where code and text disagree](#6-where-code-and-text-disagree) ·
[7 What is not modelled](#7-what-is-not-modelled) · [8 Plan](#8-plan) ·
[9 Running it](#9-running-it)

## 1 The system

### 1.1 Server

| Component | State | Operations | What makes it correct |
|---|---|---|---|
| Domain models `crates/core` | none | the records `Note`, `VaultEntry`, `User`, `RefreshToken`; the storage traits | – |
| Reconciliation rule `crates/sync` | none | `reconcile_note(client, server)` | an unknown note is accepted, an equal version is accepted and counted up, any other version is a conflict that returns the stored note |
| Note sync endpoint `routes/sync.rs` | table `notes`; per request: position in the batch, the row it read, the verdicts | `POST /sync/notes` | one verdict per note, in order; only its owner rewrites a note; no stored version is overwritten by a request that has not seen it |
| Vault upload `routes/sync.rs` | table `vault_entries` | `POST /sync/vault_entries` | an id names the file it was sent with, also when it is taken |
| Auth endpoints `routes/auth.rs`, `auth_utils.rs` | tables `users`, `refresh_tokens`; per request: the statement it is at | `register`, `login`, `refresh` | a session is granted to who knows the password, stays with its user, and each refresh token is exchanged once |
| Auth store `store/src/pg/auth.rs` | the same tables | `create_user`, `get_user_by_email`, `store_refresh_token`, `get_valid_refresh_token`, `revoke_refresh_token`, `revoke_all_user_tokens` (called by nothing) | single statements |
| Access tokens `jwt.rs`, `middleware/auth.rs` | none but the key pair and the clock | `encode_token`, `require_auth` | a token admits the user it was granted to, and nobody for long after the session has ended |
| Note store `store/src/pg/mod.rs` | table `notes` | CRUD with soft delete (called by no route) | a deleted note stays deleted |
| Migrations | the schema | three scripts, run with `sqlx migrate run` | they apply to the schema the previous ones leave |
| Crypto `crates/crypto`, search `crates/search` | none | pure functions the API does not call; a scaffold | – |

Every request is a tokio task of its own. The pool has five connections and **no handler
opens a transaction**: between two statements of a handler any statement of another may run,
each statement may fail, and hyper drops the task at any await when its client goes away.
Handlers interact through the tables only.

### 1.2 Client

| Component | State | Operations | What makes it correct |
|---|---|---|---|
| `AppDatabase` (drift) | tables `note_entries`, `vault_entries`, `vault_metadata` | inserts, `replace`, `write`, deletes, selects | single statements |
| `NotesRepositoryImpl` | – | `getAllDecryptedNotes`, `saveNote`, `updateNote`, `deleteNote` | a note is stored encrypted and marked as not synced |
| `NotesState` | the notes on display | `build`, `addNote`, `updateNote`, `deleteNote`, `addVaultEntry` | what is saved is what was typed; a save starts a sync that nobody awaits |
| `SyncService` | per call: the batch, the reply | `syncNotes`: pending rows, push, apply the verdicts, upload attachments | the device is the source of truth; a row is marked as synced only when the hub has it |
| `VaultAuthState`, `UnlockVaultUseCase`, `VaultRepositoryImpl` | the master key, the lock timer, the salt in `vault_metadata` | `unlock`, `lock`, `poke`, the timer | an unlocked vault locks itself when left alone; all keys come from one salt |
| `VaultCryptoService` | – | Argon2id, AES-GCM | pure |
| `AuthState`, `AuthRepositoryImpl` | whether there is a session; tokens in secure storage | `login`, `register`, `logout` | the last of the user's actions decides |
| `ApiClient` | – | dio with timeouts of 15 s | – |
| List page, editor, shell | what is typed, what is on display | open a note, press Save, lock, unlock, navigate | a note stays under the key it was opened with; what is typed and saved is stored |
| Other pages, focus mode, conflict dialog, design system, mock modules | what is on screen | – | – |

The client is one isolate: code runs without interruption from one `await` to the next, and
any other call, a reload of a provider, a timer or a press on a page may run at the `await`. Calls interact
through the tables, through provider state (`NotesState` watches the vault: locking it empties
the list) and through futures nobody awaits (`unawaited(syncNotes())`).

Client and server meet in one message, the batch of `POST /sync/notes`, whose verdicts the
client pairs with its notes *by position*, in the upload of an attachment, and in the token pair of the auth endpoints.

### 1.3 What is hard to test

`PROJECT.json` lists each hazard at its line. They fall in five groups:

* **Read, decide, write without a transaction** – `sync_notes` (SELECT, compare, upsert),
  `refresh` (SELECT, revoke, insert), `register` (SELECT, insert), the first unlock (SELECT,
  insert a salt), `syncNotes` (SELECT pending rows, push, update rows).
* **Failure in the middle** – a failed SELECT taken for "no such note", a write that was
  committed but reported as failed, a request dropped between revoking a token and storing
  its replacement, a lost reply, an app killed between a save and its push.
* **State that is stale when used** – a verdict applied to a row that was edited since, a
  version taken from the display, a key read before the vault was locked, a list decrypted with
  the key before, an access token of a session that is over.
* **Numbers** – the i32 version at its end (a panic or a wrap), ids that are milliseconds, a
  lifetime with a leeway.
* **Progress** – a sync nobody retries, a request that must end whatever fails, a timer that
  must fire.

## 2 Modules and code

| Module | Models | Extends / instantiates |
|---|---|---|
| `NyrexCore` | the record `Note`, with the width of its version | – |
| `SyncEngine` | `reconcile_note`, in both builds of its overflow | `NyrexCore` |
| `SyncNotes` | `POST /sync/notes` | `SyncEngine`; implements `AtomicSync` |
| `AtomicSync` | what optimistic locking promises (specification, not code) | `SyncEngine` |
| `NoteStore` | `PgNyrexStore` on the table of the sync endpoint | `SyncNotes` |
| `AuthServer` | `register`, `login`, `refresh` | implements `TokenRotation` |
| `TokenRotation` | what rotation promises (specification, not code) | – |
| `Sessions` | access tokens, `require_auth`, the revocation of all tokens of a user, the clock | `AuthServer` |
| `NotesClient` | the notes of a device and their sync, with the hub at the other end | `SyncEngine` |
| `Attachments` | the attachments of those notes and `upload_vault_entry` | `NotesClient` |
| `VaultLock` | unlocking, the auto-lock timer, the salt | – |
| `VaultNotes` | the list of notes behind that lock, the list page and the editor | `VaultLock` |
| `MC…` | the values and symmetries the runs use | one of the above |
| `…_proofs` | theorems | one of the above |

`NoteStore`, `Sessions`, `Attachments` and `VaultNotes` are compositions: each adds a component
to the module it extends, with variables of its own and actions that are either actions of that
module or leave its variables alone. For `Attachments` and `VaultNotes` that is proved
(`FilesLeaveNotesAlone`, `PagesLeaveTheLockAlone`), so that what holds of the notes and of the
lock holds of the compositions. `NoteStore` and `Sessions` write to the tables of the module
they extend, so there the properties are checked, and proved, anew.

`PROJECT.json` maps each definition to the lines it stands for.

**SyncEngine.** `ReconcileNote` is the match of `reconcile_note`. Versions are
`MinInt .. MaxInt` and `NextVersion` wraps; with `OverflowChecks` (a dev build) the addition
at `MaxInt` is `Panic`, which aborts the task.

**SyncNotes.** A handler is a slot with a program counter. `Accept` is the request after
`require_auth` and decoding. One iteration of the loop is `Disown` (the note names another
user: `Error`, next note), or `Fetch` followed by `Store`, `StoreFails`, `Refuse` or
`Overflow`. `Fetch` may fail and then reads `None`, as `unwrap_or(None)` does; `StoreFails`
writes or does not, as a broken connection leaves it open. `Respond` ends the loop. `Drop` is
the task dropped at an await, or the server killed; a statement that was already sent may
still be carried out. `VisibleRow` is the `WHERE id AND user_id` of the SELECT and `Upserted`
the `ON CONFLICT (id)` of the upsert, which leaves the owner alone: the two do not ask for the
same thing, which is what `OnlyOwnersWrite`, `RepliesCarryOwnText` and `OwnerNeverChanges` are about.
`AtomicSync` compares and replaces in one step; it allows what no promise excludes (a request
cut short, a failed write, an error for any note) and nothing else.

**NoteStore.** `CreateNote`, `UpdateNote`, `DeleteNote`, `GetNote` and `ListNotes` are the
statements of `PgNyrexStore`. `delete_note` dates a row and every SELECT of the store skips
dated rows, but the sync endpoint does not know the date: its upsert goes on replacing the row.
`deletions` is who dated which row; nothing takes a date back.

**AuthServer.** A handler is a slot with the statement it is about to issue: `lookup`, then
`insert`, `revoke` or `mint`. A user is its email, a token its row, and hashing is injective.
`parent` and `known` are history: which token was exchanged for which, and which have reached
a client. `Expire` is the clock. `TokenRotation` has the tokens, their parents and those that
were spent and are owed a replacement (`owed <- Owed`, the tokens of the handlers between
`revoke` and `mint`).

**Sessions.** An access token is known by the refresh token it came with; `claims` are what it
says. `Stamp` is the `now` of `generate_token_pair`, taken before the statement that stores the
pair; `Grant` is that statement, with the answer. `Admit` is `require_auth`, which looks at the
expiry only, plus the leeway of `jsonwebtoken`; `Leave` is the end of the handler behind it.
`alive` is history: until when a user had a session, or a request at work that could still
grant one.

**NotesClient.** `saves` are the calls of `addNote`/`updateNote` between reading the provider
and writing the row; `reload` is the rebuild of `NotesState` after `invalidateSelf`, whose
SELECT (`Load`) and display (`Show`) are apart because notes are decrypted in between.
`Replace` is drift's `replace`, which resets the columns the companion leaves out, the server
id among them. A sync goes through `Select` (one synchronous loop that also makes the ids),
`Push`/`Refuse` at the hub, `Receive`, one `Apply` per verdict, and `Finish`; `Lose` is a
request that throws. `Crash` leaves the rows. The clock counts only the milliseconds at which
an id is made; without `ClockTicks` two ids may fall in one millisecond. The hub is the check
of the owner and the rule of `SyncEngine`, applied to one note at a time: its races are the subject
of `SyncNotes` and are left out here. As the code stands a push comes to nothing, for two reasons
that are constants here: `Sender` is the user a note names, in the code the nil UUID, which the
hub answers with an Error; and `Understood` is whether path, token and format agree, in the code
`FALSE`, so that every post throws. For the runs the device names its account and is understood
(`Sender = Me`, `Understood`): they say what the device does with an answer. What holds in the code
of today, `NothingIsSynced`, is proved.

**Attachments.** `Attach` inserts the row of a file and starts a sync, as `addVaultEntry` does.
`FinishNotes` is the point of `syncNotes` behind the verdicts, where the files without a server
id are selected: a sync that returned early, or threw, never comes to it. Then for each file
`Upload` or `FailUpload` at the server and `Mark` on the device, or `LoseUpload`, a request that
throws and ends the call. `FailUpload` covers an id that is taken, a write that fails and a write
whose success is not reported. Ids are milliseconds, so that two uploads may have the same one.
`Sender` and `Understood` are those of the notes: a file names the nil user, too.

**VaultLock.** A call of `unlock` is at `read`, `initialize`, `reread` or `derive`, one for
each await of `UnlockVaultUseCase` and `initializeMetadata`. `metadata` is the table, row by
row: `getSingleOrNull` returns a row when there is exactly one, null when there is none and
throws when there are several. A key is the pair of password and salt. `Throw` is the `catch`
of `unlock`, which forgets the key and leaves the timer. `saves` and `sealed` follow a key
into the notes encrypted with it. `idle` is history.

**VaultNotes.** A row is the key it is encrypted with. `build` is the provider: due, decrypting
what it has read, or fresh; `Watch` says that a key that changes makes a build due and the one
under way void. `editor` is the page that is open: `Open` from the list, `Navigate` from the
shell, which may open it on a locked vault, leave it, or turn the page of an open note into that
of a new one (the router keeps the page of a path). `Press` is the Save button, `Write` the end
of its save, which leaves the page if it is still there, and `Drop` is the Save button on a
locked vault: `addNote` returns at once and the page leaves, with the text. `Ask` is the
password field, which stays enabled while an unlock runs, so that unlocks may overlap. `twice` is
history. `NoteListPage` is in no route today; the module says what it
does once it is.

## 3 Runs

| Run | Bounds | States | Question |
|---|---|---|---|
| `sync_overlap` | 2 requests of ≤ 2 notes, one id sent by two users, versions 0..1 (wrapping), failing reads and writes, the other methods of the store | 1,175,335 | With everything that can go wrong: do verdicts line up, do rows keep their owner, do deleted notes stay hidden? |
| `sync_isolated` | 2 requests of ≤ 2 notes of two ids, versions 0..1 (panicking), failing writes | 183,115 | Does the handler implement `AtomicSync` while overlapping requests share no note, and is a reply true, and the caller's own, when it is sent? Does every request end? |
| `auth_overlap` | 2 requests, 2 emails, 2 passwords, 2 tokens, failing statements | 187,938 | Are pairs granted to the right user, whatever overlaps? Is a revoked token worthless? |
| `auth_rotation` | 2 requests, 1 email, 3 tokens, failing statements, no token presented twice at a time | 602,659 | Is `TokenRotation` implemented, and is one token of a session unspent at most? Does every request end? |
| `sessions` | 1 request, 2 users, 2 tokens, 1 visitor, a lifetime and a leeway of 1, 4 instants | 472,983 | Whom does an access token admit, and until when? |
| `client_overlap` | 2 notes, 2 texts, 1 file, 2 syncs, 4 ids, 2 saves or a save and an attachment, 1 loss or crash | 193,885 | With a hub that understands and admits the device: do notes, texts and files survive overlapping saves, deletions and syncs? Does every sync end? |
| `vault_lock` | 2 unlocks, 1 save, 2 notes, 2 passwords, 2 salts, a timer of 2 ticks | 382,752 | Does an unlocked vault always lock itself? Do all keys come from one salt, is a second one made, do notes stay under their key? |
| `sync_lost_update`, `sync_foreign_id`, `auth_double_refresh`, `client_stale_synced`, `vault_first_unlock` | as small as the behaviour allows | – | The disagreements of section 6: TLC must find the property violated |

### What the properties say

* `VerdictsLineUp`: a reply has one verdict per note, about that note. The client relies on it.
* `OwnerNeverChanges`: a row keeps its owner column, also when two users' notes have one id. It
  does not keep its text: see `OnlyOwnersWrite` in section 6.
* `RepliesCarryOwnText`: while a note id belongs to one user, the text of a verdict is one that the
  caller has sent under this id.
* `IsolationInv`: while overlapping requests share no note, what a handler has read is the row
  it replaces.
* `VerdictsAreCurrent`: the verdicts of a reply are true together. When a batch holds a note
  twice, its last verdict counts; a failed write leaves the row open, and says so.
* `NoLostUpdate`, `ImplementsAtomicSync`: in isolation a row is replaced only by its next
  version, and the two statements of a handler act as one.
* `HiddenForGood`, `OnlyTheOwnerHides`: a deleted note stays deleted although the endpoint goes
  on writing its row, and nothing but its owner's deletion hides it.
* `GrantsMatchPasswords`: a pair goes to who knows the password, also when two registrations
  of an email overlap and only the unique key decides.
* `FamiliesHaveOneUser`, `RevokedBuysNothing`: sessions stay with their user; once a token is
  revoked and whoever found it valid before is done, nothing more comes of it.
* `AdmittedForOwner`, `AccessEnds`, `OnlyPasswordsRevive`: an access token serves the user
  whose password opened its session, admits nobody later than its lifetime and the leeway after
  that session, and no token brings a session back. That a token still admits for that long
  after a logout is the price of keeping no copy of it.
* `ImplementsRotation`, `OneTokenPerSession`: rotation, when no token is presented twice at a
  time. Of all the tokens that go back to one login, however many refreshes later, one at most is
  unspent: a session cannot be forked. The property speaks of sets of tokens that are closed
  under "was exchanged for", so that it says this of chains of any length. `SingleUse`, no token
  has two children, is what two refreshes at once violate (section 6).
* `SourceOfTruth`, `SyncedIsStored`: only an edit changes a text; a row is marked as synced only
  for what the hub has stored. Both while no two ids fall in one millisecond.
* `RowsTakeTheirOwnIds`: a row takes a server id only from an answer about itself, and the id it
  was pushed under, whatever has been saved or deleted since the push.
* `DeletedStaysDeleted`: neither an answer under way nor an edit that was being encrypted brings a
  deleted note back.
* `UploadsAreTrue`: the server id of a file names that file, also when two syncs upload it and an
  answer is an Error. With one file no two collide in the run; the theorem is for any number.
* `SyncsEnd`: a call of `syncNotes` ends, with its last file, whatever is answered or lost. That
  what is pending gets to the server is not said: a push that failed waits for the next save, and a
  file without a pending note for the next note.
* `AutoLock`, `LeftAloneLocks`: an unlocked vault has a timer that counts from the last
  interaction, and locks when left alone.
* `OneSaltInUse`: with several salts in the table, only the first was ever used.
  `OneSaltUnlessTwice`: only unlocks that overlap make a second one; no failure, crash, lock or
  wrong password between the check for a salt and its insert does.
* `ListIsFresh`: a list for which no build is due shows what opens with the key of now,
  whatever keys, builds and saves have overtaken each other; with a locked vault, nothing.
* `NotesKeepTheirKey`: no note is sealed again under another key, unless two unlocks have run
  at the same time. The exception is real: with two presses of the button and two passwords the
  key may change under an editor before the list does. TLC finds it in the run when `\/ twice`
  is taken out.
* `RequestsEnd`: every accepted request ends. Section 5 proves the measure behind it,
  `RequestsRunDown`.

Every property has a mutant of the code that violates it (`PROJECT.json`); the mutants stand
next to the definitions they replace.

### Why the bounds are enough

Handlers, saves, syncs and unlocks interact in pairs: through one row, one token, one table.
Two of each, over one or two rows, reach every interleaving of two; the proofs cover the
rest. Two notes per batch reach a verdict after an error and a batch that was cut short. The
version range is narrowed so that its end is reached in a few steps. The third token of
`auth_rotation` is the child of a child; `auth_overlap` has two tokens and twice the users
and passwords instead. In `client_overlap` the four ids are enough for two saves and the ids
of two syncs; a behaviour that would need a fifth stops short, which is why that run does
not check for deadlock (nor is it a deadlock of the program). Its bound on saves counts
attachments, too: two saves, or one of each; its bound on losses counts failed uploads. While the
clock ticks the hub of that run never answers with a conflict; the proofs of `RowsTakeTheirOwnIds`,
`DeletedStaysDeleted` and the types cover the clock that stands still, and section 6 has what
breaks when it does. In `sessions` one handler is enough, as
`auth_overlap` has the races of two: what is new is the clock, and four instants reach past the
end of a token that was granted at the second. In `vault_lock` two notes under two keys, and two
unlocks, show every order of a key, a build and a save; saves that overlap are in
`client_overlap`.

## 4 Fairness

* `SyncNotes`, `AuthServer`: weak fairness of each handler's next step. tokio polls a task
  that is ready, and sqlx answers a statement or times out. No fairness for `Accept` (nobody
  has to ask), `Drop` or `Expire`.
* `NoteStore`, `Sessions`: none; their runs check safety.
* `Attachments` (`FairFilesSpec`, which includes the notes): weak fairness of each save and
  attachment, of each sync, up to its last file, and of the reload of the provider: the event
  loop runs what is ready, and dio's timeouts bound a request (one that is not understood throws). None for the user's actions, for
  losses, refusals or crashes.
* `VaultNotes` (`FairNotesSpec`, which includes the lock): weak fairness of `Tick` (time passes)
  and `Fire` (dart:async runs a timer that is due). None for anything a user does, and none for
  unlocks. The timer is punctual: no tick while it is due.

## 5 Proofs

TLAPS checks all of it from nothing in a few minutes. Every theorem holds for any number of
handlers, users, notes, files, tokens, saves, syncs and unlocks.

| Module | Theorem | Says | Assumes |
|---|---|---|---|
| `SyncNotes_proofs` | `TypeCorrect` (`TypeOK`) | Every variable keeps its type, whatever the interleaving. | – |
| `SyncNotes_proofs` | `RepliesLineUp` (`VerdictsLineUp`) | A reply has one verdict per note, in order, for batches of any length and any number of concurrent requests. | – |
| `SyncNotes_proofs` | `RepliesAreOnesOwn` (`RepliesCarryOwnText`) | While a note id belongs to one user, a verdict carries only a text that its own user has sent under that id, however requests overlap and whatever fails. Without that assumption it does not hold: sync_foreign_id. | `UniqueIds`³ |
| `SyncNotes_proofs` | `RowsKeepTheirOwner` (`OwnerNeverChanges`) | No upsert removes a row or changes its owner. | – |
| `SyncNotes_proofs` | `FetchedStaysCurrent` (`IsolationInv`) | While overlapping requests share no note and reads succeed, what a handler read is the row it replaces. | isolation¹ |
| `SyncNotes_proofs` | `UpdatesAreNotLost` (`NoLostUpdate`) | Under the same assumptions a stored note is only replaced by its next version. | isolation¹ |
| `SyncNotes_proofs` | `PushIsAtomic` (`ImplementsAtomicSync`) | Under the same assumptions SyncNotes implements AtomicSync: read, reconcile and write act as one step. | isolation¹ |
| `SyncNotes_proofs` | `MismatchesAreRefused` (`MismatchIsNotStored`) | While overlapping requests share no note and reads succeed, a stored note is replaced only for a note that names its version: besides an overlap a failed read is all that breaks it. | isolation¹ |
| `SyncNotes_proofs` | `RequestsGetShorter` (`RequestsRunDown`) | Every step of a handler that does not end its request leaves less of the batch to do, and no step of anybody else adds to it: n notes take at most 2n + 1 steps. | – |
| `SyncNotes_proofs` | `OneUpdatePerVersion` | Of two updates that name one version only one is applied; the other, which may be the same update sent again, is answered with the text that was stored. | – |
| `SyncNotes_proofs` | `CreationsAreNotRecognised` | A creation that is sent again is applied again: its version is counted up although nothing has changed. | – |
| `SyncNotes_proofs` | `ComparedIsReplaced` (`ReplacesWhatItCompared`) | While overlapping requests share no note and reads succeed, an upsert replaces the row that was compared, and no other: overlap is all that breaks optimistic locking. | isolation¹ |
| `SyncNotes_proofs` | `RepliesStayTrue` (`VerdictsAreCurrent`) | Under the same assumptions the verdicts of a reply are true together: the last one on a note carries the row that is stored. | isolation¹ |
| `SyncNotes_proofs` | `OwnersRewriteTheirRows` (`OnlyOwnersWrite`) | While a note id belongs to one user, a stored note is rewritten only by a request of its owner: that two users have one id is all that sync_foreign_id needs. | `UniqueIds`³ |
| `NoteStore_proofs` | `RepliesStillLineUp` (`VerdictsLineUp`) | Replies stay lined up with the notes sent while the other methods of the store change the rows. | – |
| `NoteStore_proofs` | `OwnersNeverChange` (`OwnerNeverChanges`) | No statement on the notes table, of the endpoint or of the store, removes a row or changes its owner. | – |
| `NoteStore_proofs` | `DeletedStaysHidden` (`HiddenForGood`) | Once deleted, a note is never got or listed again, whatever is synced or updated. | – |
| `NoteStore_proofs` | `OwnersHide` (`OnlyTheOwnerHides`) | A note that its owner is not shown has been deleted by its owner. | – |
| `NoteStore_proofs` | `RequestsStillGetShorter` (`RequestsRunDown`) | Every step of a handler leaves less of its batch to do also while the other methods of the store change the rows. | – |
| `AuthServer_proofs` | `TypeCorrect` (`TypeOK`) | The variables of the auth service always have their types, for any number of requests, users and tokens. | – |
| `AuthServer_proofs` | `GrantsAreEarned` (`GrantsMatchPasswords`) | A pair granted by register or login is for the account whose stored password was presented, whatever overlaps or fails. | – |
| `AuthServer_proofs` | `SessionsStayWithTheirUser` (`FamiliesHaveOneUser`) | A token got by a refresh has the same user as the token it was got with, and that token is revoked. | – |
| `AuthServer_proofs` | `RevocationIsFinal` (`RevokedBuysNothing`) | A revoked token that no running refresh found valid before is never exchanged again. | – |
| `AuthServer_proofs` | `RotationKept` (`SingleUse`) | If no token is presented twice at the same time, none is exchanged twice. | `OneAtATime` |
| `AuthServer_proofs` | `RotationImplemented` (`ImplementsRotation`) | If no token is presented twice at the same time, the endpoints implement TokenRotation. | `OneAtATime` |
| `AuthServer_proofs` | `SessionsHaveOneToken` (`OneTokenPerSession`) | If no token is presented twice at the same time, at most one token of those that go back to one login is unspent, however long the chain of refreshes and whatever fails on the way. | `OneAtATime` |
| `AuthServer_proofs` | `RequestsGetShorter` (`RequestsRunDown`) | Every step of a request takes it to a later statement or ends it, and no step of anybody else takes it back: an answer takes at most three steps. | – |
| `Sessions_proofs` | `SessionsAreTyped` (`SessionTypeOK`) | The variables of sessions keep their types, for any number of requests, users, tokens and visitors and any lifetime. | – |
| `Sessions_proofs` | `AdmissionIsOwned` (`AdmittedForOwner`) | Whoever require_auth lets through is served as the user of the session the access token was granted in. | – |
| `Sessions_proofs` | `AccessIsBounded` (`AccessEnds`) | No access token admits anybody later than its lifetime and the leeway after the session of its user has ended. | – |
| `Sessions_proofs` | `PasswordsRevive` (`OnlyPasswordsRevive`) | A session that has ended comes back only by a request with a password, also after a logout everywhere. | – |
| `Sessions_proofs` | `GrantsOutliveLogout` (`GrantsMatchPasswords`) | Pairs are granted only for the right password also while tokens are revoked everywhere and time passes. | – |
| `Sessions_proofs` | `LogoutIsFinal` (`RevokedBuysNothing`) | A token that a logout everywhere has revoked is never exchanged again once the refreshes that found it valid are done. | – |
| `Sessions_proofs` | `RotationOutlivesLogout` (`OneTokenPerSession`) | Rotation holds with logouts: if no token is presented twice at the same time none is exchanged twice, and one token of a session is unspent at most. | `OneAtATime` |
| `NotesClient_proofs` | `PendingRowsAreAnonymous` (`PendingIsAnonymous`) | A row that waits for a sync never has a server id, whatever overlaps, is lost or crashes: the branch of SyncService that sends the server id of a known note is never taken, as an edit drops the id. | – |
| `NotesClient_proofs` | `OwnIdsOnly` (`RowsTakeTheirOwnIds`) | A row takes a server id only from an answer about itself, and the id it was pushed under, also when two ids of a batch are the same. | – |
| `NotesClient_proofs` | `DeviceIsSourceOfTruth` (`SourceOfTruth`) | While no two ids are generated within a millisecond, only an edit changes the text of a note. | `ClockTicks` |
| `NotesClient_proofs` | `SyncedRowsAreStored` (`SyncedIsStored`) | While no two ids are generated within a millisecond, a row is marked as synced only when the hub has the note as it was pushed. | `ClockTicks` |
| `NotesClient_proofs` | `VersionsAreNeverCompared` (`SentAsIs`) | While no two ids are generated within a millisecond, the hub stores each note as it is sent or fails: as edits drop the server id, the versions that optimistic locking is to compare never meet. | `ClockTicks` |
| `NotesClient_proofs` | `SyncedRowsStayKnown` (`SyncedRowsAreKnown`) | While no two ids are generated within a millisecond, the hub always has a note under the server id of a synced row, with its version. | `ClockTicks` |
| `NotesClient_proofs` | `OnlyAnEditInFlightStales` (`SyncedMatchesHub`) | While no two ids are generated within a millisecond, an edit of a note that a sync carries is all that makes a synced row differ from the hub. | `ClockTicks`, `EditsWaitForSyncs`² |
| `NotesClient_proofs` | `SyncsGetShorter` | Whatever happens to a sync takes it to a later stage or off one of the notes it waits for, and nothing else gives it more to do: a sync of n notes ends after at most 2n + 3 steps of its own. | – |
| `NotesClient_proofs` | `DeletedForGood` (`DeletedStaysDeleted`) | A deleted note does not come back, neither by an answer under way nor by an edit that was being encrypted, also when ids collide. | – |
| `NotesClient_proofs` | `NothingGetsSynced` (`NothingIsSynced`) | While the hub does not understand the device, or the device does not name its account, no note is ever stored or marked as synced: so it is of the code as it stands, which sends the nil user_id. | `~Understood` or `Sender # Me` |
| `Attachments_proofs` | `FilesLeaveNotesAlone` | A device with attachments is a device of NotesClient: every step of the composed specification is a step or a stutter of it. | – |
| `Attachments_proofs` | `FilesAreTyped` (`FilesTypeOK`) | The notes, the files, the uploads and what the server has of them keep their types, for any number of them. | – |
| `Attachments_proofs` | `FilesKeepTheirIds` (`UploadsAreTrue`) | The server id of a file names the file itself, for any number of files and overlapping syncs, whatever collides, is lost, refused or crashes. | – |
| `Attachments_proofs` | `NotesKeepTheirWord` (`RowsTakeTheirOwnIds`) | With attachments, too, deleted notes stay deleted and rows take only the ids they were pushed under, with or without ids that collide. | – |
| `Attachments_proofs` | `TickingNotesKeepTheirWord` (`SourceOfTruth`) | With attachments, while no two ids are generated within a millisecond (ClockTicks): only an edit changes a text, and a row is marked as synced only for what the hub has stored and goes on to know. | `ClockTicks` |
| `Attachments_proofs` | `NothingGetsUploaded` (`NothingIsUploaded`) | While the server does not understand the device, or the device does not name its account, no file is ever stored or takes a server id: so it is of the code as it stands. | `~Understood` or `Sender # Me` |
| `VaultLock_proofs` | `TypeCorrect` (`TypeOK`) | The variables of the vault lock always have their types, for any lock duration and any number of unlocks. | – |
| `VaultLock_proofs` | `UnlockedHasTimer` (`AutoLock`) | An unlocked vault always has a timer that counts from the last interaction. | – |
| `VaultLock_proofs` | `OneSalt` (`OneSaltInUse`) | All keys that are kept, carried by a save or used for a stored note come from one salt, however many first unlocks overlap. | – |
| `VaultLock_proofs` | `NoWayBack` | Once two salts are stored, a locked vault from which nothing is being derived stays locked for good: every unlock throws, also after a restart, so the overlap vault_first_unlock finds is not made good by anything the app can do. | – |
| `VaultNotes_proofs` | `PagesLeaveTheLockAlone` | The vault behind the pages is the vault of VaultLock: every step of the composed specification is a step or a stutter of it. | – |
| `VaultNotes_proofs` | `NotesAreTyped` (`NotesTypeOK`) | The lock, the rows, the list, the pages and the saves keep their types, and a save is under way only with a key, for any number of notes. | – |
| `VaultNotes_proofs` | `FreshListsAreTrue` (`ListIsFresh`) | A list for which no build is due shows exactly the notes that open with the key of now, whatever keys, builds and saves overtake each other. | – |
| `VaultNotes_proofs` | `SealedNotesKeepTheirKey` (`NotesKeepTheirKey`) | While no two unlocks have run at the same time, no note is sealed again under another key, for any passwords, notes and saves. | – |
| `VaultNotes_proofs` | `TheLockKeepsItsWord` (`AutoLock`) | With the pages, an unlocked vault has a timer that counts from the last interaction, and all keys come from one salt. | – |
| `VaultNotes_proofs` | `OnlyTwoUnlocksMakeTwoSalts` (`OneSaltUnlessTwice`) | While no two unlocks have run at the same time the salt is generated once, whatever fails, crashes or locks between the check for it and its insert. | – |

¹ `Alone`: requests in flight share no note id, reads do not fail, and a note id belongs to one user.

² A hypothesis on the behaviour, not a constant: no edit is written to a note while a sync carries
it. The code does not see to it, which is why `client_stale_synced` finds `SyncedMatchesHub`
violated; the theorem says that nothing else is missing.

³ `UniqueIds`: a note id belongs to one user. Nothing in the code sees to it; requests may overlap
on a note, and reads and writes may fail. `sync_foreign_id` is what happens without it.

The arguments:

* **SyncNotes.** `IInv` = `TypeOK` ∧ `LoopInv` ∧ `VerdictsLineUp` ∧ `VerdictsNameTheCaller`.
  The two properties are not inductive alone: a verdict can only be said to be about its note
  when the handler's position is the number of its verdicts plus one, and the row it holds is
  the row of the note under way and of the caller. `LoopInv` says both. In isolation,
  `IsolationInv` adds that what was fetched is still the row (`FetchedIsCurrent`), because no
  other handler is at work on it (`Apart`) and because the row is visible to the caller at all
  (`RowsHaveSenders`, which needs an id to belong to one user). From there each step is a step
  of `AtomicSync` or a stutter: `Fetch` stutters, `Store` is compare-and-replace. It also follows
  that an upsert replaces what was compared (`ComparedIsReplaced`), so the overlap that
  `sync_lost_update` needs is the only way to lose an update. For `VerdictsAreCurrent`,
  `RepliesTrue` looks at a handler alone: while its rows stand, each verdict it adds is about the
  row it has just written or compared, and no other handler has a note of its batch. Without
  isolation, `TextInv` follows the texts: while an id belongs to one user, what is stored or has been
  read is a text of the row's owner (`TextsAreOwn`), so the upsert, which asks for the id alone, falls
  on no row of anybody else. What a
  request has left to do, `Left`, is twice the notes from its position on, less one when a row
  was read: every step of its own takes some of it, no other step adds to it.
* **NoteStore.** The statements of the store keep `IInv`: they change a row, never whose it is,
  and no handler's bookkeeping. A row is hidden from its owner only while the owner's deletion is
  remembered, and deletions are only added.
  Nor does a statement on a row add to what is left of a request.
* **SyncEngine.** Two facts about the rule itself, for any two notes: `OneUpdatePerVersion` is
  what optimistic locking rests on, and needs that a version and the next one differ also where
  they wrap (`NextVersionDiffers`: there is more than one version); `CreationsAreNotRecognised`
  is where it ends, as a row that was just created has the version its creation names.
* **AuthServer.** `HandlerInv` says what a handler has established when it comes to a
  statement: at `mint` it has revoked the token it presents, or matched the password. Tables
  only grow (`Grown`): accounts and owners stay, revocations are final. For rotation,
  `RotationInv` adds that one handler presents a token at a time and that a token found valid
  has no child yet. `OneTokenPerSession` is about chains of any length, and a recursion over
  chains is out of the provers' reach; so `ChainInv` says it of every set of tokens that is closed
  under parents but for one: at most one of them is unspent, or presented by a handler that found
  it valid, and none if the set is closed altogether (there are no cycles). A new token takes
  that place from its parent.
* **Sessions.** Revoking all tokens of a user and the clock keep the invariants of `AuthServer`,
  and with them its theorems: `GrantsOutliveLogout`, `LogoutIsFinal`, `RotationOutlivesLogout`.
  The claims of a token name the user of its row and expire a lifetime after an instant at which
  the request that granted it was at work, so not after `alive` plus the lifetime. A valid token,
  or a request that may still grant one, makes a user alive; a refresh only starts from a valid
  token, so that only a password starts from nothing.
* **NotesClient.** Types, and that a pending row has no server id (`PendingIsAnonymous`), are
  inductive together with what a save writes. A verdict under way carries the id that was sent for
  the note it is applied to, also when two notes have one id: `RowsTakeTheirOwnIds` needs no more,
  and `DeletedStaysDeleted` only that edits and answers look for the row first. `SourceOfTruth` needs
  `ClockTicks` and rests on `IdsAreNew`: while the clock ticks, an id that a sync carries is in
  nobody else's batch and in no other row, and unknown to the hub until it is answered; so the hub
  answers with that note itself and never with a conflict. `NothingIsSynced` is inductive with every
  verdict under way being an Error. For `SyncedIsStored`, `VerdictsAreTrue` adds that a verdict under way is what
  the hub has stored. `ClientInv` is all of that together, for the theorems that came after. The
  hub only grows (`HubOnlyGrows`), as nothing it is sent has an id it knows, so what a row was
  marked as synced for stays (`SyncedRowsStayKnown`). For `OnlyAnEditInFlightStales`, the text a
  sync carries is the text of its row as long as edits wait, so it still is when the verdict is
  applied. What a sync has left to do is its `Stage` and, at that stage, the notes it `WaitsFor`:
  the hub takes one note of a batch per step, and the answers are applied one by one.
* **Attachments.** A step is a step or a stutter of `NotesClient`. `UploadsAreTrue` is inductive
  with the answers under way: a Success names a row of the server that holds the file, and rows
  of the server are never replaced.
* **VaultLock.** The bound on `idle` is inductive only together with `AutoLock`. For
  `OneSaltInUse`: rows are only added behind the first, and a salt is read only while the first
  is alone, so every key and every derivation under way comes from the first row. `NoWayBack`
  rests on the same fact (`DerivingOnlyFound`): of two rows none is read, so nothing is derived
  and no key is kept.
* **VaultNotes.** A step is a step or a stutter of `VaultLock`. `ListIsFresh` needs to know what
  a build under way has read (`ListInv`): the rows that open with the key of now, as a key or a
  row that changes makes it void. `NotesKeepTheirKey` needs `KeysInv`, while unlocks have not
  overlapped: an unlock runs on a locked vault with an empty list, what is shown opens with the
  key, and so a save carries the key its row has.
  `FirstSalt` adds that the call about to insert a salt finds the table as it read it: it is
  the only one.

Only model-checked: the liveness properties (`RequestsEnd`, `SyncsEnd`, `LeftAloneLocks`), since
TLAPS 1.4.5 does not prove liveness under fairness, and every step's being possible at all
(ENABLED). Of `RequestsEnd` the measure is proved, and so is that of the notes of a sync behind
`SyncsEnd`; that the next step of a handler or a sync is always enabled, and so taken, is left to
TLC. Of `LeftAloneLocks` it is `AutoLock`: the timer of an unlocked vault is never more than the lock
duration away.

## 6 Where code and text disagree

| Run | Property | What TLC finds |
|---|---|---|
| `sync_lost_update` | `ReplacesWhatItCompared` | The code reads the row with one statement (routes/sync.rs:62-69), compares its version in memory (71) and writes with another statement whose ON CONFLICT clause has no condition on the version (76-86), with no transaction around them; two requests that read the same version are both answered with Success and the second upsert overwrites the first. src/crates/sync/src/lib.rs:15 says "In Nyrex, we use Optimistic Locking based on a version counter" and :38 "Conflict! Someone else pushed a change first". |
| `sync_foreign_id` | `OnlyOwnersWrite` | The handler looks for the stored note by id and user (routes/sync.rs:62-69) and compares the user the note names with the one of the token (56), but the upsert is ON CONFLICT (id) alone (80): when the id is another user's, the SELECT finds nothing, the note counts as new, and the upsert replaces ciphers, nonce and version of the other user's row and keeps its owner. Both calls are answered with Success; the owner's next push is compared with, and on a conflict answered with, the other user's text. No overlap and no fault is needed, only two users with one id: it is the client that chooses it, and SyncService takes the time in milliseconds for it. routes/sync.rs:55 says "Enforce user ownership". |
| `auth_double_refresh` | `SingleUse` | refresh reads the token with a SELECT ... AND revoked = false (crates/store/src/pg/auth.rs:84) and revokes it with a separate, unconditional UPDATE ... WHERE id = $1 (crates/store/src/pg/auth.rs:96) whose row count is not looked at: two refreshes that present one token at the same time both pass the SELECT and both mint a pair. The comment at services/api/src/routes/auth.rs:119 says "Revoke the old token (rotation: each refresh token is single-use)". |
| `client_stale_synced` | `SyncedMatchesHub` | The code marks the row as synced by its local id alone (sync_service.dart:62-70), although updateNote may have replaced its text, and set isSynced to false, since the payload was read (28-30): the edit is never pushed and the row says synced. src/docs/backend/services/sync_engine.md:28 says "`synced` — matches backend". The run lets the hub understand and admit the device; as the code stands the nil user_id of sync_service.dart:39, which sync.rs:56 answers with an Error, and the formats keep any Success from coming, and with it this one. |
| `vault_first_unlock` | `SaltIsGeneratedOnce` | Two unlocks that overlap before there is a vault_metadata row both read none (unlock_vault.dart:35) and each generate and insert a salt (36, vault_repository_impl.dart:26-33); the column id is all that is unique (app_database.dart:41-42). With two rows getSingleOrNull (app_database.dart:70) throws, at every unlock from then on (`NoWayBack` proves that no way leads back to an unlocked vault). src/crates/crypto/src/kdf.rs:11 says "the salt is generated once per user and stored on the device". |

Three more are found by TLC with a constant of a run changed:

* `sync_isolated` with `ReadFaults = TRUE` violates `MismatchIsNotStored`: `unwrap_or(None)`
  (routes/sync.rs:69) turns a failed SELECT into "no such note", so the note is reconciled as new
  and its upsert replaces the stored row whatever its version, where src/crates/sync/src/lib.rs:21
  says "If versions mismatch: returns Conflict with the current server version". No run checks the
  property where reads cannot fail; `MismatchesAreRefused` proves that nothing but a failed read or
  an overlap breaks it.
* `client_stale_synced` with `ClockTicks = FALSE` violates `NotesApart`: the id of a note that has
  none is the time in milliseconds (sync_service.dart:134-136), generated for one pending note
  after the other in one synchronous loop (35-49). Two new notes of a batch get one id, and both
  are answered with Success, the second as an update of the first, since both have version 1: the
  hub keeps one note and two rows name it. sync_service.dart:38 says "Using UUIDs for sync".
* The same constants violate `SourceOfTruth`, with two notes of one id of which the hub has counted
  the first one's version up (two syncs of one millisecond), or of which one has been edited: the
  versions differ, the answer is a Conflict, and lines 71-93 overwrite the text of one note by that
  of the other. src/README.md:14 says "Your device is the absolute source of truth".

These are proved, for any number of notes and syncs:

* An edit replaces the row by one without server id (notes_repository_impl.dart, `replace` of
  app_database.dart:61), so a note that is pushed again is always pushed as a new note, under a new
  id (`PendingRowsAreAnonymous`), and while the clock ticks between two ids no version is ever
  compared (`VersionsAreNeverCompared`).
  sync_service.dart:38 sends `n.serverId ??`, :61 says "Mark as synced and update serverId if it
  was new", and lib.rs:13-21 has a version counter compare the edits of one note. The hub keeps a
  note for every edit.
* The device sends the nil UUID as `user_id`, and as `note_id` of a file, "Server extracts this from
  JWT" (sync_service.dart:40). It does not: routes/sync.rs:56-59 answers every note, and 19-21 every
  file, with an Error, so nothing is synced and nothing uploaded
  (`NothingGetsSynced`, `NothingGetsUploaded`). TLC finds no violation of `NothingIsSynced` either,
  with the bounds of client_stale_synced and `Sender` the nil user.

Met while reading, and checked by no run:

* A push that fails is not tried again: `syncNotes` logs and rethrows to a caller that does not
  wait for it (notes_provider.dart:62, 85, 120), and only the next save calls it again, where
  docs/backend/services/sync_engine.md:13 says "queue in SQLite, retry on reconnect".
* Typing does not `poke`: only a pointer event on the list or the editor, an unlock, a save or a
  deletion does, so who types for longer than the lock duration writes on a locked vault, and the
  text is dropped at the save, where note_list_page.dart:25 says "Any interaction resets the
  auto-lock timer". As no route of app_router.dart leads to the list, which alone unlocks, every
  editor opened today is on a locked vault, and its text is always dropped.
* `login()` wraps its call in `AsyncValue.guard` and never throws: the login page goes on to
  `/home` after a failed login, and its `catch` is dead.
* `src/crates/crypto/src/kdf.rs` hashes the base64 text of the salt, `VaultCryptoService` its
  bytes, and the two lay a cipher out differently (nonce, tag, cipher in one blob on the device;
  a separate nonce on the server side), although kdf.rs:11-13 speaks of one shared logic.
* The first migration creates a table `vault_entries` with other columns than the third, whose
  `CREATE TABLE IF NOT EXISTS` is then skipped; the INSERT of `upload_vault_entry` names columns
  of the third.
* The digits 1 to 5 are shortcuts of the shell, which leave the page that is open; unless the
  text field keeps such a key to itself, so does typing one into a note.

## 7 What is not modelled

* **The form of the messages.** Client and server differ in it today: paths, the missing
  Authorization header, millisecond ids for UUIDs, base64 for byte arrays, absent fields, the
  JSON keys of the session. Ids, ciphers and dates are passed on as they are; that they cannot be
  decoded is the constant `Understood`, and with `FALSE` every post of a sync throws.
* **A device that names its account.** The nil `user_id` and `note_id` (sync_service.dart:39,
  107-109) are no difference of form but one of control: the hub decodes them and answers with an
  Error. They are modelled, as the constant `Sender`, and so is the check they fail. The runs of the
  device set `Sender = Me` and `Understood = TRUE`, so they say what client and server would do
  once both are mended; what they do as the code stands is `NothingIsSynced`.
* **The client session** (`AuthState`, `AuthRepositoryImpl`). No answer of the server can be
  parsed by it, no page calls `logout`, the app starts at `/home` and no request carries the
  token that is stored: there is no behaviour yet whose order matters.
* **Cryptography** (`crates/crypto`, `VaultCryptoService`, `auth_utils.rs`). Argon2id, AES-GCM,
  BLAKE3 and Ed25519 are taken to be injective and deterministic; a cipher stands for its text
  (`NotesClient`) or for its key (`VaultNotes`). The functions have no state, and no crate uses
  `crates/crypto`. Nothing is said about secrecy.
* **Migrations and start-up.** Declarative text, run once before the first request. The keys and
  the defaults the statements rely on are in the modules of the tables.
* **Storage traits without an implementation** (`VaultStore`, `SyncEngine`), the search crate
  (a scaffold) and the conflict dialog (shown by nothing).
* **Rows of a deleted note.** Deleting a note leaves its attachments, as no foreign key is
  enforced; `Attachments` does not record which note a file belongs to, as nothing reads it.
* **Two devices of one user.** The hub of `NotesClient` serves one device, and the races between
  requests are in `SyncNotes`. A composition of both would show no more: the device takes no
  step on a verdict but the ones `NotesClient` has, and pushes every edit as a new note, so that
  two devices meet in a row only if their ids collide.
* **Pages** other than the list and the editor, focus mode, design system, localisation, mock
  modules, build files. No state worth checking.

## 8 Plan

Done, in this order: `NyrexCore`, `SyncEngine`, `SyncNotes` with `AtomicSync`, `AuthServer` with
`TokenRotation`, `NotesClient`, `VaultLock`, then the compositions `NoteStore`, `Sessions`,
`Attachments` and `VaultNotes`, and the proofs of each.

What is left waits for the code: a client session that works, a message format that both sides
speak, and a client that keeps its server ids (then the version an edit counts up from the
display is compared by somebody, and the conflict branches are reached by other than colliding
ids).

## 9 Running it

    tlc -config sync_overlap.cfg MCNoteStore.tla      # any run of PROJECT.json
    tlapm SyncNotes_proofs.tla                        # any proof module

The longest run takes about two minutes on two cores.
