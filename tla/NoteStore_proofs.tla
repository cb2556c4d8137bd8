--------------------------- MODULE NoteStore_proofs ---------------------------
(***************************************************************************)
(* Theorems about the notes table with both its users, the sync endpoint   *)
(* and the methods of PgNyrexStore.  What SyncNotes_proofs shows of the    *)
(* endpoint survives the other statements, for any number of handlers,     *)
(* users, notes and versions.                                              *)
(***************************************************************************)
EXTENDS NoteStore, SyncNotes_proofs

USE NoNoteIsNoNote, NotesAreNotes

StoreIInv ==
  /\ IInv
  /\ \A d \in deletions :
       \E i \in NoteIds : rows[i] # NoNote /\ d = <<rows[i].user_id, i>>

\* A row that a user may see is the user's, with the id asked for.
LEMMA VisibleIsOwn ==
  ASSUME NEW i \in NoteIds, NEW u \in Users, VisibleRow(i, u) # NoNote
  PROVE  rows[i] # NoNote /\ rows[i].user_id = u /\ VisibleRow(i, u) = rows[i]
BY DEF VisibleRow

\* create_note and update_note: the row of n becomes n, its owner stays.
LEMMA RowIsWritten ==
  ASSUME NEW n \in Notes, CreateNote(n) \/ UpdateNote(n)
  PROVE  /\ n \in Note
         /\ rows' = [rows EXCEPT ![n.id] = n]
         /\ rows[n.id] # NoNote => rows[n.id].user_id = n.user_id
         /\ OnlyRows /\ UNCHANGED deletions
<1>1. n \in Note /\ n.id \in NoteIds /\ n.user_id \in Users
  BY DEF Note
<1>2. CASE CreateNote(n)
  BY <1>1, <1>2 DEF CreateNote
<1>3. CASE UpdateNote(n)
  BY <1>1, <1>3, VisibleIsOwn DEF UpdateNote
<1> QED
  BY <1>2, <1>3

\* Such a write keeps the invariant of the sync endpoint and every owner.
LEMMA WriteKeepsIInv ==
  ASSUME IInv, NEW n \in Notes, CreateNote(n) \/ UpdateNote(n)
  PROVE  /\ IInv'
         /\ \A i \in NoteIds : rows[i] # NoNote =>
              rows'[i] # NoNote /\ rows'[i].user_id = rows[i].user_id
<1>1. /\ n \in Note
      /\ rows' = [rows EXCEPT ![n.id] = n]
      /\ rows[n.id] # NoNote => rows[n.id].user_id = n.user_id
      /\ OnlyRows
  BY RowIsWritten
<1>2. n.id \in NoteIds /\ n # NoNote
  BY <1>1 DEF Note
<1>3. rows \in [NoteIds -> Note \cup {NoNote}]
  BY DEF IInv, TypeOK
<1>4. /\ rows' \in [NoteIds -> Note \cup {NoNote}]
      /\ \A i \in NoteIds : rows'[i] = IF i = n.id THEN n ELSE rows[i]
  BY <1>1, <1>2, <1>3
<1>5. UNCHANGED <<pc, session, batch, pos, fetched, results>>
  BY <1>1 DEF OnlyRows
<1>6. TypeOK'
  BY <1>4, <1>5 DEF IInv, TypeOK
<1>7. \A i \in NoteIds : rows'[i] # NoNote => rows'[i].id = i
  BY <1>4 DEF IInv, LoopInv
<1>8. LoopInv'
  BY <1>5, <1>7 DEF IInv, LoopInv, Pending, Current
<1>9. VerdictsLineUp' /\ VerdictsNameTheCaller'
  BY <1>5 DEF IInv, VerdictsLineUp, VerdictsNameTheCaller
<1> QED
  BY <1>1, <1>2, <1>4, <1>6, <1>8, <1>9 DEF IInv

\* delete_note and stuttering change nothing that the invariant reads.
LEMMA UnchangedKeepsIInv == IInv /\ UNCHANGED vars => IInv'
BY IInvStep

\* Every step of the store keeps the invariant; rows stay, with their owner.
LEMMA StoreStep ==
  ASSUME IInv, [StoreNext]_storeVars
  PROVE  /\ IInv'
         /\ \A i \in NoteIds : rows[i] # NoNote =>
              rows'[i] # NoNote /\ rows'[i].user_id = rows[i].user_id
<1>1. CASE [Next]_vars
  BY <1>1, IInvStep, RowsStep DEF IInv
<1>2. CASE \E n \in Notes : CreateNote(n) \/ UpdateNote(n)
  BY <1>2, WriteKeepsIInv
<1>3. CASE \E u \in Users, i \in NoteIds : DeleteNote(u, i)
  BY <1>1, <1>3 DEF DeleteNote
<1> QED
  BY <1>1, <1>2, <1>3 DEF StoreNext, SyncStep, storeVars

\* Only delete_note touches deleted_at, and only of a row of its caller.
LEMMA DeletedStep ==
  ASSUME [StoreNext]_storeVars
  PROVE  \/ UNCHANGED deletions
         \/ \E u \in Users, i \in NoteIds :
              /\ DeleteNote(u, i) /\ deletions' = deletions \cup {<<u, i>>}
              /\ rows[i] # NoNote /\ rows[i].user_id = u /\ UNCHANGED rows
<1>1. ASSUME NEW u \in Users, NEW i \in NoteIds, DeleteNote(u, i)
      PROVE  /\ deletions' = deletions \cup {<<u, i>>}
             /\ rows[i] # NoNote /\ rows[i].user_id = u /\ UNCHANGED rows
  BY <1>1, VisibleIsOwn DEF DeleteNote, vars
<1>2. ASSUME NEW n \in Notes, CreateNote(n) \/ UpdateNote(n)
      PROVE  UNCHANGED deletions
  BY <1>2 DEF CreateNote, UpdateNote
<1> QED
  BY <1>1, <1>2 DEF StoreNext, SyncStep, storeVars

\* The inductive invariant always holds.
LEMMA StoreInvariance == StoreSpec => []StoreIInv
<1>1. StoreInit => StoreIInv
  BY IInvInit DEF StoreInit, StoreIInv
<1>2. ASSUME StoreIInv, [StoreNext]_storeVars
      PROVE  StoreIInv'
  BY <1>2, StoreStep, DeletedStep DEF StoreIInv
<1> QED
  BY <1>1, <1>2, PTL DEF StoreSpec

-----------------------------------------------------------------------------
(***************************************************************************)
(* The bookkeeping of the sync loop holds whatever else is done to the     *)
(* table while a handler is at work.                                       *)
(***************************************************************************)
THEOREM LoopIsSound == StoreSpec => []LoopInv
<1>1. StoreIInv => LoopInv
  BY DEF StoreIInv, IInv
<1> QED
  BY <1>1, StoreInvariance, PTL

(***************************************************************************)
(* The replies of sync_notes stay lined up with the notes sent, although   *)
(* other statements change the rows they carry.                            *)
(***************************************************************************)
THEOREM RepliesStillLineUp == StoreSpec => []VerdictsLineUp
<1>1. StoreIInv => VerdictsLineUp
  BY DEF StoreIInv, IInv
<1> QED
  BY <1>1, StoreInvariance, PTL

(***************************************************************************)
(* A request of sync_notes runs down as if it were alone: no statement on  *)
(* its rows gives its handler more to do.                                  *)
(***************************************************************************)
THEOREM RequestsStillGetShorter == StoreSpec => RequestsRunDown
<1>1. ASSUME StoreIInv, [StoreNext]_storeVars, NEW h \in Handlers, Active(h),
             pc'[h] \in {"loop", "fetched"}
      PROVE  \/ UNCHANGED <<pc[h], session[h], batch[h], pos[h], fetched[h], results[h]>>
             \/ batch'[h] = batch[h] /\ Left(h)' \in Nat /\ Left(h)' < Left(h)
  <2>1. CASE [Next]_vars
    BY <1>1, <2>1, RunDownStep DEF StoreIInv
  <2>2. CASE OnlyRows
    BY <2>2 DEF OnlyRows
  <2> QED
    BY <1>1, <2>1, <2>2
       DEF StoreNext, SyncStep, CreateNote, UpdateNote, DeleteNote, storeVars
<1>2. StoreIInv /\ [StoreNext]_storeVars =>
        [\A h \in Handlers :
           Active(h) /\ pc'[h] \in {"loop", "fetched"} =>
             \/ UNCHANGED <<pc[h], session[h], batch[h], pos[h], fetched[h], results[h]>>
             \/ batch'[h] = batch[h] /\ Left(h)' \in Nat /\ Left(h)' < Left(h)]_vars
  BY <1>1
<1> QED
  BY <1>2, StoreInvariance, PTL DEF StoreSpec, RequestsRunDown

(***************************************************************************)
(* No statement on the notes table removes a row or gives it away.         *)
(***************************************************************************)
THEOREM OwnersNeverChange == StoreSpec => OwnerNeverChanges
<1>1. StoreIInv /\ [StoreNext]_storeVars =>
        [\A i \in NoteIds : rows[i] # NoNote =>
           rows'[i] # NoNote /\ rows'[i].user_id = rows[i].user_id]_vars
  BY StoreStep DEF StoreIInv
<1> QED
  BY <1>1, StoreInvariance, PTL DEF StoreSpec, OwnerNeverChanges

(***************************************************************************)
(* A note that get_note and list_notes do not show is not shown later.     *)
(***************************************************************************)
THEOREM DeletedStaysHidden == StoreSpec => HiddenForGood
<1>1. ASSUME StoreIInv, [StoreNext]_storeVars, NEW u \in Users, NEW i \in NoteIds,
             rows[i] # NoNote, GetNote(u, i) = NoNote
      PROVE  GetNote(u, i)' = NoNote
  <2>1. rows'[i] # NoNote /\ rows'[i].user_id = rows[i].user_id
    BY <1>1, StoreStep DEF StoreIInv
  <2>2. Deleted \subseteq Deleted'
    BY <1>1, DeletedStep DEF Deleted
  <2> QED
    BY <1>1, <2>1, <2>2 DEF GetNote, VisibleRow
<1>2. StoreIInv /\ [StoreNext]_storeVars =>
        [\A u \in Users, i \in NoteIds :
           rows[i] # NoNote /\ GetNote(u, i) = NoNote => GetNote(u, i)' = NoNote]_storeVars
  BY <1>1
<1> QED
  BY <1>2, StoreInvariance, PTL DEF StoreSpec, HiddenForGood

(***************************************************************************)
(* A note that its owner is not shown has been deleted by its owner.       *)
(***************************************************************************)
THEOREM OwnersHide == StoreSpec => []OnlyTheOwnerHides
<1>1. ASSUME StoreIInv, NEW i \in NoteIds, rows[i] # NoNote,
             rows[i] \notin ListNotes(rows[i].user_id)
      PROVE  <<rows[i].user_id, i>> \in deletions
  <2>1. VisibleRow(i, rows[i].user_id) = rows[i]
    BY <1>1 DEF VisibleRow
  <2>2. GetNote(rows[i].user_id, i) # rows[i]
    BY <1>1 DEF ListNotes
  <2>3. i \in Deleted
    BY <2>1, <2>2 DEF GetNote
  <2>4. PICK d \in deletions : i = d[2]
    BY <2>3 DEF Deleted
  <2>5. PICK j \in NoteIds : d = <<rows[j].user_id, j>>
    BY <1>1, <2>4 DEF StoreIInv
  <2> QED
    BY <2>4, <2>5
<1>2. StoreIInv => OnlyTheOwnerHides
  BY <1>1 DEF OnlyTheOwnerHides
<1> QED
  BY <1>2, StoreInvariance, PTL
===============================================================================
