------------------------------- MODULE NoteStore -------------------------------
(***************************************************************************)
(* PgNyrexStore: create, read, update and delete on the notes table, next  *)
(* to the sync endpoint that reads and writes the same rows.               *)
(*                                                                         *)
(* Every method is one SQL statement.  update_note compares no version and *)
(* delete_note only dates the row, which stays: sync goes on reading and   *)
(* replacing it.  No statement takes the date back.  A statement that      *)
(* reports an error has been carried out or has not: nothing is kept of    *)
(* the call but its effect on the table.                                   *)
(***************************************************************************)
EXTENDS SyncNotes

VARIABLE deletions   \* <<user, id>> when the user's delete_note dated the row

\* The ids of the rows whose deleted_at IS NOT NULL.
Deleted == {d[2] : d \in deletions}

storeVars == <<vars, deletions>>

StoreInit == Init /\ deletions = {}

\* Mutant of SyncStep: the upsert also sets deleted_at = NULL.
SyncStepReviving == Next /\ deletions' = {d \in deletions : rows'[d[2]] = rows[d[2]]}

\* The sync endpoint does not know deleted_at.
SyncStep == Next /\ UNCHANGED deletions

\* SELECT ... WHERE user_id = $1 AND id = $2 AND deleted_at IS NULL
GetNote(u, i) == IF i \in Deleted THEN NoNote ELSE VisibleRow(i, u)

ListNotes(u) == {GetNote(u, i) : i \in NoteIds} \ {NoNote}

OnlyRows == UNCHANGED <<pc, session, batch, pos, fetched, results>>

\* INSERT ... RETURNING *: a duplicate key is an error.
CreateNote(n) ==
  /\ rows[n.id] = NoNote
  /\ rows' = [rows EXCEPT ![n.id] = n]
  /\ OnlyRows /\ UNCHANGED deletions

\* UPDATE ... WHERE id = $8 AND user_id = $9 RETURNING *: no row is an error.
UpdateNote(n) ==
  /\ VisibleRow(n.id, n.user_id) # NoNote
  /\ rows' = [rows EXCEPT ![n.id] = n]
  /\ OnlyRows /\ UNCHANGED deletions

\* Mutant of DeleteNote: WHERE id = $1 alone.
DeleteAnyNote(u, i) ==
  /\ rows[i] # NoNote
  /\ deletions' = deletions \cup {<<u, i>>}
  /\ UNCHANGED vars

\* UPDATE ... WHERE id = $1 AND user_id = $2: Ok also when there is no row.
DeleteNote(u, i) ==
  /\ VisibleRow(i, u) # NoNote
  /\ deletions' = deletions \cup {<<u, i>>}
  /\ UNCHANGED vars

StoreNext ==
  \/ SyncStep
  \/ \E n \in Notes : CreateNote(n) \/ UpdateNote(n)
  \/ \E u \in Users, i \in NoteIds : DeleteNote(u, i)

StoreSpec == StoreInit /\ [][StoreNext]_storeVars

-----------------------------------------------------------------------------
(***************************************************************************)
(* A deleted note is never got or listed again, whatever a sync that read  *)
(* it before the deletion, a device that still has it or an update with an *)
(* older copy of it writes to the row.                                     *)
(***************************************************************************)
HiddenForGood ==
  [][\A u \in Users, i \in NoteIds :
       rows[i] # NoNote /\ GetNote(u, i) = NoNote => GetNote(u, i)' = NoNote]_storeVars

(***************************************************************************)
(* Only its owner makes a note disappear: one that its owner is not shown  *)
(* has been deleted by the owner, not by another user's call and not by    *)
(* what a sync or an update made of the row.                               *)
(***************************************************************************)
OnlyTheOwnerHides ==
  \A i \in NoteIds :
    LET n == rows[i] IN
      n # NoNote /\ n \notin ListNotes(n.user_id) => <<n.user_id, i>> \in deletions
===============================================================================
