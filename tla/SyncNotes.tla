------------------------------ MODULE SyncNotes ------------------------------
(***************************************************************************)
(* POST /sync/notes: the handlers that apply batches of client notes to    *)
(* the notes table.                                                        *)
(*                                                                         *)
(* Every request runs in a task of its own.  For each note of its batch a  *)
(* handler checks the owner, reads the row with one statement, reconciles  *)
(* in memory and writes the row with another statement.  There is no       *)
(* transaction around the two statements, so the steps of other handlers   *)
(* fall between them.                                                      *)
(***************************************************************************)
EXTENDS SyncEngine, Sequences

CONSTANTS
  Handlers,     \* handler slots: how many requests run at the same time
  Notes,        \* the notes clients send
  MaxBatch,     \* bound: notes in a request
  ReadFaults,   \* TRUE when a SELECT may fail (connection, pool timeout)
  WriteFaults,  \* TRUE when an upsert may report a failure
  Isolated      \* TRUE when requests in flight share no note id

ASSUME NotesAreNotes  == Notes \subseteq Note
ASSUME MaxBatchIsNat  == MaxBatch \in Nat
ASSUME SwitchesAreSet == {ReadFaults, WriteFaults, Isolated} \subseteq BOOLEAN

VARIABLES
  rows,      \* the notes table: note id -> row, or NoNote
  pc,        \* handler -> where its task is
  session,   \* handler -> the user the bearer token names
  batch,     \* handler -> the notes of the request
  pos,       \* handler -> where in the batch the note under way is
  fetched,   \* handler -> server_note, what the SELECT returned
  results    \* handler -> the verdicts pushed so far

vars == <<rows, pc, session, batch, pos, fetched, results>>

Batches == UNION {[1 .. n -> Notes] : n \in 0 .. MaxBatch}

Active(h)  == pc[h] \in {"loop", "fetched"}
Pending(h) == pos[h] <= Len(batch[h])
Current(h) == batch[h][pos[h]]
Verdict(h) == ReconcileNote(Current(h), fetched[h])

IdsOf(b) == {b[k].id : k \in DOMAIN b}

Init ==
  /\ rows    = [i \in NoteIds |-> NoNote]
  /\ pc      = [h \in Handlers |-> "idle"]
  /\ session \in [Handlers -> Users]
  /\ batch   = [h \in Handlers |-> <<>>]
  /\ pos     = [h \in Handlers |-> 1]
  /\ fetched = [h \in Handlers |-> NoNote]
  /\ results = [h \in Handlers |-> <<>>]

(***************************************************************************)
(* The request has passed require_auth and its body has been decoded.      *)
(***************************************************************************)
Accept(h, u, b) ==
  /\ ~Active(h)
  /\ Isolated => \A g \in Handlers \ {h} :
                   Active(g) => IdsOf(batch[g]) \cap IdsOf(b) = {}
  /\ pc'      = [pc EXCEPT ![h] = "loop"]
  /\ session' = [session EXCEPT ![h] = u]
  /\ batch'   = [batch EXCEPT ![h] = b]
  /\ pos'     = [pos EXCEPT ![h] = 1]
  /\ fetched' = [fetched EXCEPT ![h] = NoNote]
  /\ results' = [results EXCEPT ![h] = <<>>]
  /\ UNCHANGED rows

\* Mutant of Push: server_note is read once, before the loop.
PushKeepingRow(h, verdict) ==
  /\ pc'      = [pc EXCEPT ![h] = IF pos[h] < Len(batch[h]) THEN "fetched" ELSE "loop"]
  /\ pos'     = [pos EXCEPT ![h] = @ + 1]
  /\ results' = [results EXCEPT ![h] = Append(@, verdict)]
  /\ UNCHANGED <<session, batch, fetched>>

Push(h, verdict) ==
  /\ pc'      = [pc EXCEPT ![h] = "loop"]
  /\ pos'     = [pos EXCEPT ![h] = @ + 1]
  /\ fetched' = [fetched EXCEPT ![h] = NoNote]
  /\ results' = [results EXCEPT ![h] = Append(@, verdict)]
  /\ UNCHANGED <<session, batch>>

\* Mutant of Disown: the note is skipped without a verdict.
DisownSilently(h) ==
  /\ pc[h] = "loop" /\ Pending(h)
  /\ Current(h).user_id # session[h]
  /\ pos' = [pos EXCEPT ![h] = @ + 1]
  /\ UNCHANGED <<rows, pc, session, batch, fetched, results>>

(***************************************************************************)
(* A note that names another user is answered with an error and skipped.   *)
(***************************************************************************)
Disown(h) ==
  /\ pc[h] = "loop" /\ Pending(h)
  /\ Current(h).user_id # session[h]
  /\ Push(h, Error)
  /\ UNCHANGED rows

(***************************************************************************)
(* SELECT * FROM notes WHERE id = $1 AND user_id = $2.  A failed SELECT    *)
(* counts as "no such note" (unwrap_or(None)).                             *)
(***************************************************************************)
VisibleRow(i, u) ==
  IF rows[i] # NoNote /\ rows[i].user_id = u THEN rows[i] ELSE NoNote

\* Mutant of Fetch: the owner is not checked.
FetchAnyones(h) ==
  /\ pc[h] = "loop" /\ Pending(h)
  /\ fetched' = [fetched EXCEPT ![h] = VisibleRow(Current(h).id, session[h])]
  /\ pc' = [pc EXCEPT ![h] = "fetched"]
  /\ UNCHANGED <<rows, session, batch, pos, results>>

Fetch(h) ==
  /\ pc[h] = "loop" /\ Pending(h)
  /\ Current(h).user_id = session[h]
  /\ \/ fetched' = [fetched EXCEPT ![h] = VisibleRow(Current(h).id, session[h])]
     \/ ReadFaults /\ fetched' = [fetched EXCEPT ![h] = NoNote]
  /\ pc' = [pc EXCEPT ![h] = "fetched"]
  /\ UNCHANGED <<rows, session, batch, pos, results>>

\* Mutants of Upserted: the upsert also takes the owner over, or does nothing
\* when the row exists.
UpsertedWithOwner(n) == n
UpsertedIfAbsent(n)  == IF rows[n.id] = NoNote THEN n ELSE rows[n.id]

(***************************************************************************)
(* INSERT ... ON CONFLICT (id) DO UPDATE: an existing row keeps its owner. *)
(***************************************************************************)
Upserted(n) ==
  IF rows[n.id] = NoNote THEN n
  ELSE [n EXCEPT !.user_id = rows[n.id].user_id]

Upsert(n) == rows' = [rows EXCEPT ![n.id] = Upserted(n)]

Store(h) ==
  /\ pc[h] = "fetched" /\ Verdict(h).tag = "Success"
  /\ Upsert(Verdict(h).note)
  /\ Push(h, Verdict(h))

(***************************************************************************)
(* The upsert reports an error.  When the connection broke after the       *)
(* commit the row has been written all the same.                           *)
(***************************************************************************)
StoreFails(h) ==
  /\ WriteFaults
  /\ pc[h] = "fetched" /\ Verdict(h).tag = "Success"
  /\ Upsert(Verdict(h).note) \/ UNCHANGED rows
  /\ Push(h, Error)

\* Mutant of Refuse: the handler tries again instead of answering.
RefuseAndRetry(h) ==
  /\ pc[h] = "fetched" /\ Verdict(h).tag = "Conflict"
  /\ pc'      = [pc EXCEPT ![h] = "loop"]
  /\ fetched' = [fetched EXCEPT ![h] = NoNote]
  /\ UNCHANGED <<rows, session, batch, pos, results>>

Refuse(h) ==
  /\ pc[h] = "fetched" /\ Verdict(h).tag = "Conflict"
  /\ Push(h, Verdict(h))
  /\ UNCHANGED rows

Respond(h) ==
  /\ pc[h] = "loop" /\ ~Pending(h)
  /\ pc' = [pc EXCEPT ![h] = "done"]
  /\ UNCHANGED <<rows, session, batch, pos, fetched, results>>

(***************************************************************************)
(* The task ends without an answer: the verdicts so far are lost, the      *)
(* writes so far are not.                                                  *)
(***************************************************************************)
Abort(h) ==
  /\ pc'      = [pc EXCEPT ![h] = "idle"]
  /\ batch'   = [batch EXCEPT ![h] = <<>>]
  /\ pos'     = [pos EXCEPT ![h] = 1]
  /\ fetched' = [fetched EXCEPT ![h] = NoNote]
  /\ results' = [results EXCEPT ![h] = <<>>]
  /\ UNCHANGED session

\* version += 1 overflows in a build with overflow checks.
Overflow(h) ==
  /\ pc[h] = "fetched" /\ Verdict(h).tag = "Panic"
  /\ Abort(h)
  /\ UNCHANGED rows

(***************************************************************************)
(* The client gives up and hyper drops the task at an await, or the server *)
(* dies.  An upsert already sent may be carried out all the same; the slot *)
(* is free again when PostgreSQL is done with it.                          *)
(***************************************************************************)
Drop(h) ==
  /\ Active(h)
  /\ \/ UNCHANGED rows
     \/ pc[h] = "fetched" /\ Verdict(h).tag = "Success" /\ Upsert(Verdict(h).note)
  /\ Abort(h)

Handle(h) ==
  \/ Disown(h) \/ Fetch(h) \/ Store(h) \/ StoreFails(h)
  \/ Refuse(h) \/ Respond(h) \/ Overflow(h)

Next ==
  \E h \in Handlers :
    \/ \E u \in Users, b \in Batches : Accept(h, u, b)
    \/ Handle(h)
    \/ Drop(h)

Spec == Init /\ [][Next]_vars

FairSpec == Spec /\ \A h \in Handlers : WF_vars(Handle(h))

-----------------------------------------------------------------------------
\* Every variable holds what its Rust or SQL type admits.
TypeOK ==
  /\ rows    \in [NoteIds -> Note \cup {NoNote}]
  /\ pc      \in [Handlers -> {"idle", "loop", "fetched", "done"}]
  /\ session \in [Handlers -> Users]
  /\ batch   \in [Handlers -> Seq(Notes)]
  /\ pos     \in [Handlers -> Nat \ {0}]
  /\ fetched \in [Handlers -> Note \cup {NoNote}]
  /\ results \in [Handlers -> Seq(SyncResult)]

(***************************************************************************)
(* The client pairs the k-th verdict with the k-th note it sent            *)
(* (sync_service.dart), so a reply has one verdict for each note, about    *)
(* that note, whichever of the four ways out of the loop body it took.     *)
(***************************************************************************)
VerdictsLineUp ==
  \A h \in Handlers :
    /\ Len(results[h]) <= Len(batch[h])
    /\ pc[h] = "done" => Len(results[h]) = Len(batch[h])
    /\ \A k \in DOMAIN results[h] :
         results[h][k] # Error => results[h][k].note.id = batch[h][k].id

\* A verdict names the user who asked.  Whose text it carries is another
\* question: see RepliesCarryOwnText.
VerdictsNameTheCaller ==
  \A h \in Handlers : \A k \in DOMAIN results[h] :
    results[h][k] # Error => results[h][k].note.user_id = session[h]

(***************************************************************************)
(* A row once inserted stays, with its owner, whoever upserts its id.      *)
(***************************************************************************)
OwnerNeverChanges ==
  [][\A i \in NoteIds :
       rows[i] # NoNote =>
         rows'[i] # NoNote /\ rows'[i].user_id = rows[i].user_id]_vars

(***************************************************************************)
(* "Enforce user ownership" (routes/sync.rs:55): a stored note is only     *)
(* rewritten by a request of its owner.                                    *)
(***************************************************************************)
Writes(h) == pc[h] = "fetched" /\ pc'[h] # pc[h] /\ rows' # rows

OnlyOwnersWrite ==
  [][\A h \in Handlers, i \in NoteIds :
       Writes(h) /\ rows[i] # NoNote /\ rows'[i] # rows[i] =>
         rows[i].user_id = session[h]]_vars

(***************************************************************************)
(* What a verdict carries is a text that its own user has sent under this  *)
(* id, in this request or an earlier one: never another user's, and never  *)
(* the text of another note.                                               *)
(***************************************************************************)
RepliesCarryOwnText ==
  \A h \in Handlers : \A k \in DOMAIN results[h] :
    results[h][k] # Error =>
      \E n \in Notes : /\ n.id = batch[h][k].id /\ n.user_id = session[h]
                        /\ n.cipher = results[h][k].note.cipher

(***************************************************************************)
(* Optimistic locking: a note that has been stored is replaced only by the *)
(* next version of itself, so no stored version is overwritten unseen.     *)
(***************************************************************************)
NoLostUpdate ==
  [][\A i \in NoteIds :
       rows[i] # NoNote /\ rows'[i] # rows[i] =>
         rows'[i].version = NextVersion(rows[i].version)]_vars

(***************************************************************************)
(* A handler that found the versions equal replaces the very row it        *)
(* compared: nobody else's change has come in between.                     *)
(***************************************************************************)
Stores(h) == pc[h] = "fetched" /\ pc'[h] = "loop" /\ rows' # rows

ReplacesWhatItCompared ==
  [][\A h \in Handlers :
       Stores(h) /\ fetched[h] # NoNote => rows[Current(h).id] = fetched[h]]_vars

(***************************************************************************)
(* A handler replaces a stored note only when the note it was sent names   *)
(* the stored version; any other note is answered with a conflict.         *)
(***************************************************************************)
MismatchIsNotStored ==
  [][\A h \in Handlers :
       Stores(h) =>
         \/ rows[Current(h).id] = NoNote
         \/ rows[Current(h).id].version = Current(h).version]_vars

(***************************************************************************)
(* Every request that has been accepted ends.                              *)
(***************************************************************************)
RequestsEnd == \A h \in Handlers : Active(h) ~> ~Active(h)

(***************************************************************************)
(* Why it does: whatever happens to a request that goes on, other than     *)
(* nothing, takes it nearer to the end of its batch.                       *)
(***************************************************************************)
Left(h) == 2 * (Len(batch[h]) + 1 - pos[h]) - (IF pc[h] = "fetched" THEN 1 ELSE 0)

RequestsRunDown ==
  [][\A h \in Handlers :
       Active(h) /\ pc'[h] \in {"loop", "fetched"} =>
         \/ UNCHANGED <<pc[h], session[h], batch[h], pos[h], fetched[h], results[h]>>
         \/ batch'[h] = batch[h] /\ Left(h)' \in Nat /\ Left(h)' < Left(h)]_vars

(***************************************************************************)
(* The bookkeeping of the loop, on which the invariants above rest: the    *)
(* verdicts are those of the notes before pos, and a row that was read is  *)
(* the one of the note under way, which is the caller's own.               *)
(***************************************************************************)
LoopInv ==
  /\ \A i \in NoteIds : rows[i] # NoNote => rows[i].id = i
  /\ \A h \in Handlers :
       /\ pos[h] = Len(results[h]) + 1
       /\ pos[h] <= Len(batch[h]) + 1
       /\ pc[h] = "done" => ~Pending(h)
       /\ pc[h] = "fetched" => Pending(h) /\ Current(h).user_id = session[h]
       /\ pc[h] = "fetched" /\ fetched[h] # NoNote =>
            fetched[h].id = Current(h).id /\ fetched[h].user_id = session[h]

IInv == TypeOK /\ LoopInv /\ VerdictsLineUp /\ VerdictsNameTheCaller

-----------------------------------------------------------------------------
(***************************************************************************)
(* When requests in flight share no note, reads do not fail and a note id  *)
(* belongs to one user, the two statements of a handler act as one.        *)
(***************************************************************************)
UniqueIds == \A m, n \in Notes : m.id = n.id => m.user_id = n.user_id

\* What the handler read is still the row when it comes to write it.
FetchedIsCurrent ==
  \A h \in Handlers :
    pc[h] = "fetched" => fetched[h] = rows[Current(h).id]

\* Why it is: nobody else is at work on the note, and the row is the caller's.
Apart ==
  \A g, h \in Handlers :
    g # h /\ Active(g) /\ Active(h) => IdsOf(batch[g]) \cap IdsOf(batch[h]) = {}

RowsHaveSenders ==
  \A i \in NoteIds : rows[i] # NoNote =>
    \E n \in Notes : n.id = i /\ n.user_id = rows[i].user_id

\* While an id is one user's alone, what is stored, or has been read, is a text
\* that the owner of the row has sent.
IsOwnText(row) ==
  \E n \in Notes : n.id = row.id /\ n.user_id = row.user_id /\ n.cipher = row.cipher

TextsAreOwn ==
  /\ \A i \in NoteIds : rows[i] # NoNote => IsOwnText(rows[i])
  /\ \A h \in Handlers : fetched[h] # NoNote => IsOwnText(fetched[h])

IsolationInv == FetchedIsCurrent /\ Apart /\ RowsHaveSenders

(***************************************************************************)
(* The verdicts of a reply under way are true together: the row of each    *)
(* note answered so far is the note its last verdict carries, so what the  *)
(* client will keep as synced, or show as the server's side of a conflict, *)
(* is what is stored when the reply is complete.                           *)
(***************************************************************************)
LastAnswer(h, k) ==
  \A j \in DOMAIN results[h] : j > k => batch[h][j].id # batch[h][k].id

VerdictsAreCurrent ==
  \A h \in Handlers : Active(h) =>
    \A k \in DOMAIN results[h] :
      results[h][k] # Error /\ LastAnswer(h, k) =>
        rows[batch[h][k].id] = results[h][k].note

Phase ==
  [h \in Handlers |-> IF Active(h) THEN "serving" ELSE pc[h]]

Atomic == INSTANCE AtomicSync WITH phase <- Phase

ImplementsAtomicSync == Atomic!Spec
==============================================================================
