----------------------------- MODULE NotesClient -----------------------------
(***************************************************************************)
(* The notes of one device: the drift table note_entries, the NotesState   *)
(* provider that shows them and SyncService.syncNotes, which pushes them   *)
(* to the sync hub.                                                        *)
(*                                                                         *)
(* Saving a note is encrypting it, writing its row, and starting a sync    *)
(* that nobody waits for.  All of it runs on one event loop: another save, *)
(* another sync or a reload of the provider may run at every await.        *)
(*                                                                         *)
(* The hub is the loop of the sync endpoint applied to one note after the  *)
(* other: its check of the owner, and the rule of crates/sync.  What keeps *)
(* a push of the code as it stands from being taken up is in two constants,*)
(* Understood and Sender, so that what the device does with an answer can  *)
(* be told apart from its never getting one.  The vault is unlocked.  A    *)
(* note's texts are the cipher they encrypt to.  Of attachments only the   *)
(* sync they start is here.                                                *)
(***************************************************************************)
EXTENDS SyncEngine

CONSTANTS
  LocalIds,   \* note_entries.id, assigned in ascending order
  Me,         \* the account of the device, which the hub knows from the token
  Sender,     \* the user_id SyncService sends; in the code the nil UUID, which is not Me
  Understood, \* TRUE when the hub finds, admits and decodes what the device sends; in
              \* the code FALSE: no token is sent, an id is no UUID, bytes are base64
  NoId,       \* a server_id that is NULL
  Gone,       \* a row that has been deleted: its id is not used again
  Saves,      \* bound: saves that run at the same time
  Syncs,      \* bound: syncs that run at the same time
  MaxSaves,   \* bound: saves that are started
  MaxLosses,  \* bound: replies lost, notes refused and crashes
  ClockTicks  \* TRUE when the millisecond clock advances between two ids

ASSUME LocalIdsAreInts == LocalIds \subseteq Int
ASSUME NoteIdsAreTimes == NoteIds \subseteq Nat
ASSUME IAmAUser        == {Me, Sender} \subseteq Users
ASSUME ASwitch         == Understood \in BOOLEAN
ASSUME BoundsAreNats   == {MaxSaves, MaxLosses} \subseteq Nat
ASSUME ClockIsASwitch  == ClockTicks \in BOOLEAN
ASSUME VersionOne      == 1 \in Versions

VARIABLES
  rows,    \* note_entries: local id -> row, NoNote or Gone
  cache,   \* NotesState.value: local id -> the version shown, or NoNote
  reload,  \* NotesState: whether a new build is due or under way
  saves,   \* addNote and updateNote calls between their reads and their write
  syncs,   \* syncNotes calls
  hub,     \* the notes table of the server: server id -> row, or NoNote
  clock,   \* the last millisecond that served as an id
  started, \* saves started so far
  losses   \* replies lost, notes refused and crashes so far

vars == <<rows, cache, reload, saves, syncs, hub, clock, started, losses>>

Row == [serverId : NoteIds \cup {NoId}, cipher : Ciphers, version : Versions, isSynced : BOOLEAN]
ASSUME MarkersAreNoRows == NoNote \notin Row \cup Versions /\ Gone \notin Row \cup {NoNote}
ASSUME NoIdIsNoId       == NoId \notin NoteIds

NoSave == [op |-> "none"]
Jobs   == [op : {"add"}, cipher : Ciphers]
            \cup [op : {"edit"}, note : LocalIds, cipher : Ciphers, version : Versions \ {MaxInt}]

Stands(n)    == rows[n] \notin {NoNote, Gone}
IsPending(n) == Stands(n) /\ ~rows[n].isSynced
IsFirst(n, S) == n \in S /\ \A m \in S : n <= m

Payloads == UNION {[S -> Note] : S \in SUBSET LocalIds}
Replies  == UNION {[S -> SyncResult] : S \in SUBSET LocalIds}
NoReplies == [n \in {} |-> Error]
InFlight == [pc : {"post", "apply"}, batch : Payloads, results : Replies]

NoSync == [pc |-> "idle"]
Chosen == [pc |-> "select"]
At(y, label) == syncs[y].pc = label

Init ==
  /\ rows    = [n \in LocalIds |-> NoNote]
  /\ cache   = [n \in LocalIds |-> NoNote]
  /\ reload  = [state |-> "fresh"]
  /\ saves   = [s \in Saves |-> NoSave]
  /\ syncs   = [y \in Syncs |-> NoSync]
  /\ hub     = [i \in NoteIds |-> NoNote]
  /\ clock   = 0
  /\ started = 0
  /\ losses  = 0

-----------------------------------------------------------------------------
(***************************************************************************)
(* NotesState: addNote, updateNote, deleteNote and build.                  *)
(***************************************************************************)
Begin(s, job) ==
  /\ saves[s] = NoSave
  /\ started < MaxSaves
  /\ saves'   = [saves EXCEPT ![s] = job]
  /\ started' = started + 1
  /\ UNCHANGED <<rows, cache, reload, syncs, hub, clock, losses>>

BeginAdd(s, c) == Begin(s, [op |-> "add", cipher |-> c])

\* The version is the one the provider shows, not the one of the row.
BeginEdit(s, n, c) ==
  /\ cache[n] # NoNote /\ cache[n] < MaxInt
  /\ Begin(s, [op |-> "edit", note |-> n, cipher |-> c, version |-> cache[n]])

StartSync == \E y \in Syncs : syncs[y] = NoSync /\ syncs' = [syncs EXCEPT ![y] = Chosen]

Saved(s) ==
  /\ saves'  = [saves EXCEPT ![s] = NoSave]
  /\ reload' = [state |-> "due"]
  /\ StartSync
  /\ UNCHANGED <<cache, hub, clock, started, losses>>

Fresh(c, v) == [serverId |-> NoId, cipher |-> c, version |-> v, isSynced |-> FALSE]

Insert(s) ==
  /\ saves[s].op = "add"
  /\ \E n \in LocalIds :
       /\ rows[n] = NoNote /\ \A m \in LocalIds : m < n => rows[m] # NoNote
       /\ rows' = [rows EXCEPT ![n] = Fresh(saves[s].cipher, 1)]
  /\ Saved(s)

\* Mutant of Replace: insertOnConflictUpdate.
ReplaceOrInsert(s) ==
  /\ saves[s].op = "edit"
  /\ rows' = [rows EXCEPT ![saves[s].note] = Fresh(saves[s].cipher, saves[s].version + 1)]
  /\ Saved(s)

(***************************************************************************)
(* drift's replace: columns the companion leaves out get their default,    *)
(* which for server_id is NULL.  Without a row nothing is updated.         *)
(***************************************************************************)
Replace(s) ==
  /\ saves[s].op = "edit"
  /\ IF Stands(saves[s].note)
     THEN rows' = [rows EXCEPT ![saves[s].note] = Fresh(saves[s].cipher, saves[s].version + 1)]
     ELSE UNCHANGED rows
  /\ Saved(s)

Delete(n) ==
  /\ cache[n] # NoNote /\ Stands(n)
  /\ rows'   = [rows EXCEPT ![n] = Gone]
  /\ reload' = [state |-> "due"]
  /\ UNCHANGED <<cache, saves, syncs, hub, clock, started, losses>>

Load ==
  /\ reload.state = "due"
  /\ reload' = [state |-> "loading",
                shown |-> [n \in LocalIds |-> IF Stands(n) THEN rows[n].version ELSE NoNote]]
  /\ UNCHANGED <<rows, cache, saves, syncs, hub, clock, started, losses>>

Show ==
  /\ reload.state = "loading"
  /\ cache'  = reload.shown
  /\ reload' = [state |-> "fresh"]
  /\ UNCHANGED <<rows, saves, syncs, hub, clock, started, losses>>

\* addVaultEntry: a sync is started, and the provider is not built again.
AddVaultEntry ==
  /\ StartSync
  /\ UNCHANGED <<rows, cache, reload, saves, hub, clock, started, losses>>

-----------------------------------------------------------------------------
(***************************************************************************)
(* SyncService.syncNotes.                                                  *)
(***************************************************************************)
Move(y, sync) ==
  /\ syncs' = [syncs EXCEPT ![y] = sync]
  /\ UNCHANGED <<cache, reload, saves, started>>

(***************************************************************************)
(* _generateTempUuid is the time in milliseconds: the ids of a batch are   *)
(* generated one after the other, within a millisecond or not.  Times at   *)
(* which no id is generated are not counted.                               *)
(***************************************************************************)
Tick == IF ClockTicks THEN 1 ELSE 0

TempIds(S) ==
  {f \in [S -> NoteIds] :
     /\ \A n \in S : clock + Tick <= f[n]
     /\ \A m, n \in S : m < n => f[m] + Tick <= f[n]
     /\ \A n \in S : clock + 1 .. f[n] \subseteq {f[m] : m \in S}}

PendingNotes == {n \in LocalIds : IsPending(n)}

Payload(n, temp) ==
  [id |-> IF rows[n].serverId = NoId THEN temp[n] ELSE rows[n].serverId,
   user_id |-> Sender, cipher |-> rows[n].cipher, version |-> rows[n].version]

Select(y) ==
  /\ At(y, "select")
  /\ \/ PendingNotes = {} /\ Move(y, NoSync) /\ UNCHANGED clock
     \/ \E temp \in TempIds(PendingNotes) :
          /\ PendingNotes # {}
          /\ Move(y, [pc |-> "post", batch |-> [n \in PendingNotes |-> Payload(n, temp)],
                      results |-> NoReplies])
          /\ \E n \in PendingNotes :
               (\A m \in PendingNotes : temp[m] <= temp[n]) /\ clock' = temp[n]
  /\ UNCHANGED <<rows, hub, losses>>

(***************************************************************************)
(* The hub takes up one note after the other and answers all of them.      *)
(***************************************************************************)
Unanswered(y) == DOMAIN syncs[y].batch \ DOMAIN syncs[y].results
Pushed(y, n)  == syncs[y].batch[n]
IsUpNext(y, n) == Understood /\ At(y, "post") /\ IsFirst(n, Unanswered(y))

\* A note that names another user than the token does is not looked at.
Verdict(y, n) ==
  IF Pushed(y, n).user_id # Me THEN Error
  ELSE ReconcileNote(Pushed(y, n), hub[Pushed(y, n).id])

Answered(y, n, verdict) ==
  Move(y, [syncs[y] EXCEPT !.results =
             [m \in DOMAIN @ \cup {n} |-> IF m = n THEN verdict ELSE @[m]]])

Stored(y, n) ==
  /\ Verdict(y, n).tag = "Success"
  /\ hub' = [hub EXCEPT ![Pushed(y, n).id] = Verdict(y, n).note]

Push(y) ==
  \E n \in LocalIds :
    /\ IsUpNext(y, n)
    /\ \/ Stored(y, n)
       \/ Verdict(y, n).tag \in {"Conflict", "Error"} /\ UNCHANGED hub
    /\ Answered(y, n, Verdict(y, n))
    /\ UNCHANGED <<rows, clock, losses>>

Lossy == losses < MaxLosses /\ losses' = losses + 1

\* The hub fails to write a note, or to learn that it has written it.
Refuse(y) ==
  \E n \in LocalIds :
    /\ IsUpNext(y, n)
    /\ Stored(y, n) \/ UNCHANGED hub
    /\ Answered(y, n, Error)
    /\ Lossy
    /\ UNCHANGED <<rows, clock>>

Receive(y) ==
  /\ At(y, "post") /\ Unanswered(y) = {}
  /\ Move(y, [pc |-> "apply", batch |-> syncs[y].batch, results |-> syncs[y].results])
  /\ UNCHANGED <<rows, hub, clock, losses>>

(***************************************************************************)
(* post throws: no connection, a timeout, a dead hub, or a status that is  *)
(* not 2xx, which is the answer to what is not understood, and no loss.    *)
(***************************************************************************)
Lose(y) ==
  /\ At(y, "post")
  /\ Understood => losses < MaxLosses
  /\ losses' = losses + (IF Understood THEN 1 ELSE 0)
  /\ Move(y, NoSync)
  /\ UNCHANGED <<rows, hub, clock>>

\* Mutants of Settled: the text that was pushed is written back with a Success;
\* whatever is not a Conflict counts as a Success.
SettledWithText(row, verdict) ==
  IF verdict.tag = "Error" THEN row
  ELSE [serverId |-> verdict.note.id, cipher |-> verdict.note.cipher,
        version |-> verdict.note.version, isSynced |-> TRUE]
SettledAlways(row, verdict) ==
  IF verdict.tag = "Error" THEN [row EXCEPT !.isSynced = TRUE]
  ELSE [row EXCEPT !.isSynced = TRUE, !.serverId = verdict.note.id, !.version = verdict.note.version]

(***************************************************************************)
(* A verdict is written to the row of the local note, whatever the row     *)
(* has become in the meantime; an Error is passed over.                    *)
(***************************************************************************)
Settled(row, verdict) ==
  IF verdict.tag = "Error" THEN row
  ELSE [serverId |-> verdict.note.id,
        cipher   |-> IF verdict.tag = "Conflict" THEN verdict.note.cipher ELSE row.cipher,
        version  |-> verdict.note.version,
        isSynced |-> TRUE]

\* Mutants of Apply: the notes a reply is about are selected when it comes;
\* an Error is not taken off the list.
ApplyToPending(y) ==
  \E n \in LocalIds, m \in LocalIds :
    /\ At(y, "apply") /\ IsFirst(n, DOMAIN syncs[y].results)
    /\ IF PendingNotes = {} THEN m = n ELSE IsFirst(m, PendingNotes)
    /\ rows' = IF Stands(m)
               THEN [rows EXCEPT ![m] = Settled(@, syncs[y].results[n])] ELSE rows
    /\ Move(y, [syncs[y] EXCEPT !.results = [k \in DOMAIN @ \ {n} |-> @[k]]])
    /\ UNCHANGED <<hub, clock, losses>>
ApplyUntilStored(y) ==
  \E n \in LocalIds :
    /\ At(y, "apply") /\ IsFirst(n, DOMAIN syncs[y].results)
    /\ rows' = IF Stands(n)
               THEN [rows EXCEPT ![n] = Settled(@, syncs[y].results[n])] ELSE rows
    /\ Move(y, IF syncs[y].results[n] = Error THEN syncs[y]
               ELSE [syncs[y] EXCEPT !.results = [m \in DOMAIN @ \ {n} |-> @[m]]])
    /\ UNCHANGED <<hub, clock, losses>>

Apply(y) ==
  \E n \in LocalIds :
    /\ At(y, "apply") /\ IsFirst(n, DOMAIN syncs[y].results)
    /\ rows' = IF Stands(n)
               THEN [rows EXCEPT ![n] = Settled(@, syncs[y].results[n])] ELSE rows
    /\ Move(y, [syncs[y] EXCEPT !.results = [m \in DOMAIN @ \ {n} |-> @[m]]])
    /\ UNCHANGED <<hub, clock, losses>>

Finish(y) ==
  /\ At(y, "apply") /\ DOMAIN syncs[y].results = {}
  /\ Move(y, NoSync)
  /\ UNCHANGED <<rows, hub, clock, losses>>

(***************************************************************************)
(* The app is killed and started again: only the rows survive.             *)
(***************************************************************************)
Crash ==
  /\ Lossy
  /\ saves'  = [s \in Saves |-> NoSave]
  /\ syncs'  = [y \in Syncs |-> NoSync]
  /\ cache'  = [n \in LocalIds |-> NoNote]
  /\ reload' = [state |-> "due"]
  /\ UNCHANGED <<rows, hub, clock, started>>

Save(s) == Insert(s) \/ Replace(s)
Sync(y) == Select(y) \/ Push(y) \/ Receive(y) \/ Apply(y) \/ Finish(y)

Next ==
  \/ \E s \in Saves :
       \/ \E c \in Ciphers : BeginAdd(s, c)
       \/ \E c \in Ciphers, n \in LocalIds : BeginEdit(s, n, c)
       \/ Save(s)
  \/ \E n \in LocalIds : Delete(n)
  \/ Load \/ Show
  \/ AddVaultEntry
  \/ \E y \in Syncs : Sync(y) \/ Refuse(y) \/ Lose(y)
  \/ Crash

Spec == Init /\ [][Next]_vars

-----------------------------------------------------------------------------
\* Every variable holds what its Dart or SQL type admits.
TypeOK ==
  /\ rows    \in [LocalIds -> Row \cup {NoNote, Gone}]
  /\ cache   \in [LocalIds -> Versions \cup {NoNote}]
  /\ reload  \in [state : {"fresh", "due"}]
                   \cup [state : {"loading"}, shown : [LocalIds -> Versions \cup {NoNote}]]
  /\ saves   \in [Saves -> Jobs \cup {NoSave}]
  /\ hub     \in [NoteIds -> Note \cup {NoNote}]
  /\ clock   \in NoteIds \cup {0}
  /\ started \in 0 .. MaxSaves /\ losses \in 0 .. MaxLosses
  /\ syncs   \in [Syncs -> {NoSync, Chosen} \cup InFlight]

(***************************************************************************)
(* A row that waits for a sync has no server id: an edit takes it away, and*)
(* is pushed as a new note.  SyncService means it otherwise: it sends the  *)
(* server id of a row that has one.                                        *)
(***************************************************************************)
PendingIsAnonymous == \A n \in LocalIds : IsPending(n) => rows[n].serverId = NoId

\* Two notes of the device are two notes of the hub; not when two ids are
\* generated within a millisecond.
NotesApart ==
  \A m, n \in LocalIds :
    Stands(m) /\ Stands(n) /\ rows[m].serverId = rows[n].serverId /\ rows[m].serverId # NoId
      => m = n

(***************************************************************************)
(* The device is the source of truth: the text of a note only becomes what *)
(* a save of this note was about to write.                                 *)
(***************************************************************************)
SourceOfTruth ==
  [][\A n \in LocalIds :
       Stands(n) /\ Stands(n)' /\ rows'[n].cipher # rows[n].cipher =>
         \E s \in Saves : /\ saves[s].op = "edit" /\ saves[s].note = n
                          /\ saves[s].cipher = rows'[n].cipher]_vars

\* "synced - matches backend": the hub has the text and the version of the row.
SyncedMatchesHub ==
  \A n \in LocalIds :
    Stands(n) /\ rows[n].isSynced =>
      /\ rows[n].serverId # NoId /\ hub[rows[n].serverId] # NoNote
      /\ hub[rows[n].serverId].cipher  = rows[n].cipher
      /\ hub[rows[n].serverId].version = rows[n].version

(***************************************************************************)
(* A row is marked as synced only when the hub has the note, as it was     *)
(* pushed, under the id and the version the row is given: an edit in the   *)
(* meantime is all that can tell the row and the hub apart.                *)
(***************************************************************************)
SyncedIsStored ==
  [][\A n \in LocalIds :
       IsPending(n) /\ Stands(n)' /\ rows'[n].isSynced =>
         /\ rows'[n].serverId # NoId /\ hub[rows'[n].serverId] # NoNote
         /\ hub[rows'[n].serverId].version = rows'[n].version
         /\ \E y \in Syncs :
              /\ At(y, "apply") /\ n \in DOMAIN syncs[y].results
              /\ hub[rows'[n].serverId].cipher = Pushed(y, n).cipher]_vars

(***************************************************************************)
(* What a synced row says of the hub stays true of the hub, but for the    *)
(* text: the hub has a note of the row's id, in the row's version.         *)
(***************************************************************************)
SyncedRowsAreKnown ==
  \A n \in LocalIds :
    Stands(n) /\ rows[n].isSynced =>
      /\ rows[n].serverId # NoId /\ hub[rows[n].serverId] # NoNote
      /\ hub[rows[n].serverId].version = rows[n].version

(***************************************************************************)
(* A row takes a server id only from an answer about itself, and the id    *)
(* that was generated for it, or that it had when it was pushed: whatever  *)
(* is saved, deleted or answered in between, and also when two ids are the *)
(* same.  So two rows share an id only if the clock gave it to both.       *)
(***************************************************************************)
RowsTakeTheirOwnIds ==
  [][\A n \in LocalIds :
       Stands(n) /\ Stands(n)' /\ rows'[n].serverId \notin {rows[n].serverId, NoId} =>
         \E y \in Syncs : /\ At(y, "apply") /\ n \in DOMAIN syncs[y].results
                          /\ rows'[n].serverId = Pushed(y, n).id]_vars

(***************************************************************************)
(* A note that has been deleted does not come back, neither by an answer   *)
(* that was under way nor by an edit that was being encrypted.             *)
(***************************************************************************)
DeletedStaysDeleted == [][\A n \in LocalIds : rows[n] = Gone => rows'[n] = Gone]_vars

(***************************************************************************)
(* While the hub does not understand the device, or the device does not    *)
(* name its account, nothing the device has is stored or marked as synced. *)
(***************************************************************************)
NothingIsSynced ==
  /\ \A i \in NoteIds : hub[i] = NoNote
  /\ \A n \in LocalIds : Stands(n) => ~rows[n].isSynced /\ rows[n].serverId = NoId

(***************************************************************************)
(* Why a sync ends: whatever happens to it takes it to a later stage, or   *)
(* off one of the notes it waits for at this one, and no save, deletion or *)
(* other sync gives it more to do.                                         *)
(***************************************************************************)
Stage(y) == CASE At(y, "select") -> 3
              [] At(y, "post")   -> 2
              [] At(y, "apply")  -> 1
              [] OTHER           -> 0

WaitsFor(y) == CASE At(y, "post")  -> Unanswered(y)
                 [] At(y, "apply") -> DOMAIN syncs[y].results
                 [] OTHER          -> {}

SyncsRunDown ==
  [][\A y \in Syncs : syncs[y] # NoSync =>
       \/ UNCHANGED syncs[y]
       \/ Stage(y)' < Stage(y)
       \/ Stage(y)' = Stage(y) /\ \E n \in WaitsFor(y) : WaitsFor(y)' = WaitsFor(y) \ {n}]_vars

-----------------------------------------------------------------------------
(***************************************************************************)
(* While the clock ticks every id that is generated is new: the notes the  *)
(* syncs carry are unknown to the hub until they are answered, and no two  *)
(* of them, and no other row, have the same id.                            *)
(***************************************************************************)
Carries(y, n) == syncs[y].pc \in {"post", "apply"} /\ n \in DOMAIN syncs[y].batch
IdOf(y, n)    == syncs[y].batch[n].id

\* The reply on n has not been written to its row yet.
IsUnsettled(y, n) == Carries(y, n) /\ (At(y, "post") \/ n \in DOMAIN syncs[y].results)

(***************************************************************************)
(* The hub stores what it is sent as it is or fails: no version is ever    *)
(* compared or counted up.  The optimistic locking of crates/sync is not   *)
(* reached by this device while every edit is pushed as a new note.        *)
(***************************************************************************)
SentAsIs ==
  \A y \in Syncs, n \in LocalIds :
    Carries(y, n) /\ n \in DOMAIN syncs[y].results =>
      syncs[y].results[n] \in {Error, Success(syncs[y].batch[n])}

(***************************************************************************)
(* No edit is written to a note while a sync carries it.  The code does    *)
(* not see to it; it is all that SyncedMatchesHub would need.              *)
(***************************************************************************)
EditsWaitForSyncs ==
  [][\A s \in Saves, y \in Syncs :
       Replace(s) => ~IsUnsettled(y, saves[s].note)]_vars

CarriedInv(y, n) ==
  /\ IdOf(y, n) <= clock
  /\ At(y, "post") /\ n \in Unanswered(y) => hub[IdOf(y, n)] = NoNote
  /\ n \in DOMAIN syncs[y].results =>
       \/ syncs[y].results[n] = Error
       \/ /\ syncs[y].results[n].tag = "Success"
          /\ syncs[y].results[n].note.id = IdOf(y, n)
  /\ \A z \in Syncs, m \in LocalIds :
       Carries(z, m) /\ IdOf(z, m) = IdOf(y, n) => z = y /\ m = n
  /\ \A m \in LocalIds : Stands(m) /\ rows[m].serverId = IdOf(y, n) => m = n

IdsAreNew ==
  /\ \A i \in NoteIds : hub[i] # NoNote => i <= clock
  /\ \A n \in LocalIds : Stands(n) /\ rows[n].serverId # NoId => rows[n].serverId <= clock
  /\ \A y \in Syncs : syncs[y].pc \in {"post", "apply"} =>
       DOMAIN syncs[y].results \subseteq DOMAIN syncs[y].batch
  /\ \A y \in Syncs, n \in LocalIds : Carries(y, n) => CarriedInv(y, n)
==============================================================================
