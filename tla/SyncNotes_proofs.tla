--------------------------- MODULE SyncNotes_proofs ---------------------------
(***************************************************************************)
(* Theorems about SyncNotes, for any number of handlers, users, notes and  *)
(* versions and for batches of any length.                                 *)
(***************************************************************************)
EXTENDS SyncNotes, SequenceTheorems, TLAPS

USE IntRange, NoNoteIsNoNote, ChecksIsBoolean, NotesAreNotes, MaxBatchIsNat,
    SwitchesAreSet

(***************************************************************************)
(* What SyncEngine::reconcile_note returns.                                *)
(***************************************************************************)
LEMMA ReconcileResult ==
  ASSUME NEW c \in Note, NEW s \in Note \cup {NoNote}
  PROVE  LET v == ReconcileNote(c, s) IN
           /\ v.tag \in {"Success", "Conflict", "Panic"}
           /\ v.tag = "Success" =>
                /\ v \in SyncResult /\ v # Error
                /\ v.note \in Note
                /\ v.note.id = c.id /\ v.note.user_id = c.user_id
                /\ v.note.cipher = c.cipher
                /\ s # NoNote => /\ v.note.version = NextVersion(s.version)
                                 /\ c.version = s.version
           /\ v.tag = "Conflict" =>
                /\ v \in SyncResult /\ v # Error
                /\ s # NoNote /\ v.note = s
<1> DEFINE v == ReconcileNote(c, s)
<1>1. NextVersion(c.version) \in Versions
  BY DEF NextVersion, Versions, Note
<1>2. [c EXCEPT !.version = NextVersion(@)] \in Note
  BY <1>1 DEF Note
<1>3. CASE s = NoNote
  BY <1>3 DEF ReconcileNote, Success, SyncResult, Error, Note
<1>4. CASE s # NoNote /\ c.version # s.version
  BY <1>4 DEF ReconcileNote, Conflict, SyncResult, Error
<1>5. CASE s # NoNote /\ c.version = s.version /\ OverflowChecks /\ c.version = MaxInt
  BY <1>5 DEF ReconcileNote, Panic
<1>6. CASE s # NoNote /\ c.version = s.version /\ ~(OverflowChecks /\ c.version = MaxInt)
  BY <1>1, <1>2, <1>6 DEF ReconcileNote, Success, SyncResult, Error, Note
<1> QED
  BY <1>3, <1>4, <1>5, <1>6

(***************************************************************************)
(* The counter never stands still: the next version of a note is another   *)
(* one, even where it wraps.                                               *)
(***************************************************************************)
LEMMA NextVersionDiffers ==
  ASSUME NEW v \in Versions
  PROVE  NextVersion(v) \in Versions /\ NextVersion(v) # v
BY DEF NextVersion, Versions

(***************************************************************************)
(* Of two updates that start from the same version only one is applied:    *)
(* once c has replaced a stored note, d, which names the same version, is  *)
(* answered with a conflict that shows the text c stored.  With d = c this *)
(* is the update a client sends again because its answer was lost: it is   *)
(* not applied twice, and the client is shown its own text.                *)
(***************************************************************************)
THEOREM OneUpdatePerVersion ==
  ASSUME NEW c \in Note, NEW s \in Note, NEW d \in Note,
         ReconcileNote(c, s).tag = "Success",
         d.version = c.version
  PROVE  /\ ReconcileNote(d, ReconcileNote(c, s).note) = Conflict(ReconcileNote(c, s).note)
         /\ ReconcileNote(c, s).note.cipher = c.cipher
<1> DEFINE stored == [c EXCEPT !.version = NextVersion(@)]
<1>1. NextVersion(c.version) \in Versions /\ NextVersion(c.version) # c.version
  BY NextVersionDiffers DEF Note
<1>2. s # NoNote
  OBVIOUS
<1>3. ReconcileNote(c, s) = Success(stored)
  BY <1>2 DEF ReconcileNote, Conflict, Panic
<1>4. ReconcileNote(c, s).note = stored
  BY <1>3 DEF Success
<1>5. stored \in Note /\ stored.version # d.version /\ stored.cipher = c.cipher
  BY <1>1 DEF Note
<1>6. stored # NoNote
  BY <1>5
<1>7. ReconcileNote(d, stored) = Conflict(stored)
  BY <1>5, <1>6 DEF ReconcileNote
<1> QED
  BY <1>4, <1>5, <1>7

(***************************************************************************)
(* A creation sent again is not recognised: the row the first one inserted *)
(* has the version the note names, so the second counts it up.             *)
(***************************************************************************)
THEOREM CreationsAreNotRecognised ==
  ASSUME NEW c \in Note, ReconcileNote(c, ReconcileNote(c, NoNote).note).tag # "Panic"
  PROVE  /\ ReconcileNote(c, NoNote).note = c
         /\ ReconcileNote(c, c) = Success([c EXCEPT !.version = NextVersion(@)])
<1>1. ReconcileNote(c, NoNote).note = c
  BY DEF ReconcileNote, Success
<1>2. c # NoNote
  OBVIOUS
<1> QED
  BY <1>1, <1>2 DEF ReconcileNote, Panic

(***************************************************************************)
(* The facts about the handler under way that its actions use.             *)
(***************************************************************************)
LEMMA CurrentIsNote ==
  ASSUME TypeOK, NEW h \in Handlers, Pending(h)
  PROVE  /\ Current(h) \in Notes
         /\ Current(h) \in Note
         /\ pos[h] \in DOMAIN batch[h]
<1>1. pos[h] \in 1 .. Len(batch[h])
  BY DEF TypeOK, Pending
<1> QED
  BY <1>1 DEF TypeOK, Current

\* What is stored for a note is a note with its id.
LEMMA UpsertedIsNote ==
  ASSUME TypeOK, LoopInv, NEW n \in Note
  PROVE  /\ Upserted(n) \in Note
         /\ Upserted(n).id = n.id
BY DEF TypeOK, LoopInv, Upserted, Note

\* The verdict on a note whose row has been read.
LEMMA VerdictResult ==
  ASSUME TypeOK, LoopInv, NEW h \in Handlers, pc[h] = "fetched"
  PROVE  LET v == Verdict(h) IN
           /\ v.tag \in {"Success", "Conflict", "Panic"}
           /\ v.tag = "Success" =>
                /\ v \in SyncResult /\ v # Error
                /\ v.note \in Note
                /\ v.note.id = Current(h).id /\ v.note.user_id = session[h]
                /\ v.note.cipher = Current(h).cipher
                /\ fetched[h] # NoNote => /\ v.note.version = NextVersion(fetched[h].version)
                                          /\ Current(h).version = fetched[h].version
           /\ v.tag = "Conflict" =>
                /\ v \in SyncResult /\ v # Error
                /\ v.note.id = Current(h).id /\ v.note.user_id = session[h]
                /\ v.note = fetched[h]
<1>1. Pending(h) /\ Current(h).user_id = session[h]
  BY DEF LoopInv
<1>2. Current(h) \in Note
  BY <1>1, CurrentIsNote
<1>3. fetched[h] \in Note \cup {NoNote}
  BY DEF TypeOK
<1>4. fetched[h] # NoNote => fetched[h].id = Current(h).id /\ fetched[h].user_id = session[h]
  BY DEF LoopInv
<1> QED
  BY <1>1, <1>2, <1>3, <1>4, ReconcileResult DEF Verdict

-----------------------------------------------------------------------------
\* Pushing a verdict and going on to the next note keeps the types.
LEMMA PushType ==
  ASSUME TypeOK, NEW h \in Handlers, NEW v \in SyncResult, Push(h, v)
  PROVE  /\ pc' \in [Handlers -> {"idle", "loop", "fetched", "done"}]
         /\ session' \in [Handlers -> Users]
         /\ batch' \in [Handlers -> Seq(Notes)]
         /\ pos' \in [Handlers -> Nat \ {0}]
         /\ fetched' \in [Handlers -> Note \cup {NoNote}]
         /\ results' \in [Handlers -> Seq(SyncResult)]
BY DEF TypeOK, Push

\* An upsert leaves a table of notes.
LEMMA UpsertType ==
  ASSUME TypeOK, LoopInv, NEW n \in Note, Upsert(n)
  PROVE  rows' \in [NoteIds -> Note \cup {NoNote}]
<1>1. Upserted(n) \in Note /\ n.id \in NoteIds
  BY UpsertedIsNote DEF Note
<1> QED
  BY <1>1 DEF TypeOK, Upsert

\* A handler that gives up has the types of an idle one.
LEMMA AbortType ==
  ASSUME TypeOK, NEW h \in Handlers, Abort(h)
  PROVE  /\ pc' \in [Handlers -> {"idle", "loop", "fetched", "done"}]
         /\ session' \in [Handlers -> Users]
         /\ batch' \in [Handlers -> Seq(Notes)]
         /\ pos' \in [Handlers -> Nat \ {0}]
         /\ fetched' \in [Handlers -> Note \cup {NoNote}]
         /\ results' \in [Handlers -> Seq(SyncResult)]
BY DEF TypeOK, Abort

\* Every step keeps the types.
LEMMA TypeStep == TypeOK /\ LoopInv /\ [Next]_vars => TypeOK'
<1> SUFFICES ASSUME TypeOK, LoopInv, [Next]_vars PROVE TypeOK'
  OBVIOUS
<1>e. Error \in SyncResult
  BY DEF SyncResult
<1>1. CASE UNCHANGED vars
  BY <1>1 DEF TypeOK, vars
<1>2. ASSUME NEW h \in Handlers, NEW u \in Users, NEW b \in Batches, Accept(h, u, b)
      PROVE  TypeOK'
  <2>1. b \in Seq(Notes)
    BY DEF Batches
  <2> QED
    BY <1>2, <2>1 DEF TypeOK, Accept
<1>3. ASSUME NEW h \in Handlers, Handle(h)
      PROVE  TypeOK'
  <2>1. CASE Disown(h)
    BY <1>e, <2>1, PushType DEF TypeOK, Disown
  <2>2. CASE Fetch(h)
    <3>1. VisibleRow(Current(h).id, session[h]) \in Note \cup {NoNote}
      BY <2>2, CurrentIsNote DEF TypeOK, VisibleRow, Fetch, Note
    <3> QED
      BY <2>2, <3>1 DEF TypeOK, Fetch
  <2>3. CASE Store(h)
    <3>1. pc[h] = "fetched" /\ Verdict(h).tag = "Success"
      BY <2>3 DEF Store
    <3>2. Verdict(h) \in SyncResult /\ Verdict(h).note \in Note
      BY <3>1, VerdictResult
    <3> QED
      BY <2>3, <3>2, PushType, UpsertType DEF TypeOK, Store
  <2>4. CASE StoreFails(h)
    <3>1. pc[h] = "fetched" /\ Verdict(h).tag = "Success"
      BY <2>4 DEF StoreFails
    <3>2. Verdict(h).note \in Note
      BY <3>1, VerdictResult
    <3>3. rows' \in [NoteIds -> Note \cup {NoNote}]
      BY <2>4, <3>2, UpsertType DEF TypeOK, StoreFails
    <3> QED
      BY <1>e, <2>4, <3>3, PushType DEF TypeOK, StoreFails
  <2>5. CASE Refuse(h)
    <3>1. pc[h] = "fetched" /\ Verdict(h).tag = "Conflict"
      BY <2>5 DEF Refuse
    <3>2. Verdict(h) \in SyncResult
      BY <3>1, VerdictResult
    <3> QED
      BY <2>5, <3>2, PushType DEF TypeOK, Refuse
  <2>6. CASE Respond(h)
    BY <2>6 DEF TypeOK, Respond
  <2>7. CASE Overflow(h)
    BY <2>7, AbortType DEF TypeOK, Overflow
  <2> QED
    BY <1>3, <2>1, <2>2, <2>3, <2>4, <2>5, <2>6, <2>7 DEF Handle
<1>4. ASSUME NEW h \in Handlers, Drop(h)
      PROVE  TypeOK'
  <2>1. rows' \in [NoteIds -> Note \cup {NoNote}]
    BY <1>4, VerdictResult, UpsertType DEF TypeOK, Drop
  <2> QED
    BY <1>4, <2>1, AbortType DEF TypeOK, Drop
<1> QED
  BY <1>1, <1>2, <1>3, <1>4 DEF Next

-----------------------------------------------------------------------------
(***************************************************************************)
(* The replies.  ReplyInv gathers, for one handler, everything the         *)
(* invariant says about the reply it is building.                          *)
(***************************************************************************)
ReplyInv(h) ==
  /\ pos[h] = Len(results[h]) + 1
  /\ pos[h] <= Len(batch[h]) + 1
  /\ pc[h] = "done" => ~Pending(h)
  /\ pc[h] = "fetched" => Pending(h) /\ Current(h).user_id = session[h]
  /\ pc[h] = "fetched" /\ fetched[h] # NoNote =>
       fetched[h].id = Current(h).id /\ fetched[h].user_id = session[h]
  /\ \A k \in DOMAIN results[h] :
       results[h][k] # Error =>
         /\ results[h][k].note.id = batch[h][k].id
         /\ results[h][k].note.user_id = session[h]

RowsKeyed == \A i \in NoteIds : rows[i] # NoNote => rows[i].id = i

\* The inductive invariant, with what it says of one handler on its own.
LEMMA IInvByHandler ==
  IInv <=> TypeOK /\ RowsKeyed /\ \A h \in Handlers : ReplyInv(h)
<1>1. ASSUME TypeOK, NEW h \in Handlers
      PROVE  Len(results[h]) \in Nat /\ Len(batch[h]) \in Nat
  BY <1>1 DEF TypeOK
<1> QED
  BY <1>1 DEF IInv, LoopInv, VerdictsLineUp, VerdictsNameTheCaller, ReplyInv, RowsKeyed, Pending

\* The steps of one handler leave the replies of the others alone.
LEMMA OthersKeepReply ==
  ASSUME NEW h \in Handlers, NEW g \in Handlers \ {h}, ReplyInv(g), TypeOK,
         Handle(h) \/ Drop(h) \/ \E u \in Users, b \in Batches : Accept(h, u, b)
  PROVE  ReplyInv(g)'
<1>1. /\ pc'[g] = pc[g] /\ session'[g] = session[g] /\ batch'[g] = batch[g]
      /\ pos'[g] = pos[g] /\ fetched'[g] = fetched[g] /\ results'[g] = results[g]
  BY DEF TypeOK, Handle, Disown, Fetch, Store, StoreFails, Refuse, Respond, Overflow,
         Drop, Accept, Push, Abort
<1> QED
  BY <1>1 DEF ReplyInv, Pending, Current

\* A verdict about the note under way extends the reply correctly.
LEMMA PushReply ==
  ASSUME TypeOK, NEW h \in Handlers, ReplyInv(h), Pending(h), NEW v \in SyncResult, Push(h, v),
         v # Error => v.note.id = Current(h).id /\ v.note.user_id = session[h]
  PROVE  ReplyInv(h)'
<1>1. /\ results[h] \in Seq(SyncResult) /\ batch[h] \in Seq(Notes)
      /\ pos[h] = Len(results[h]) + 1 /\ pos[h] <= Len(batch[h])
  BY DEF TypeOK, ReplyInv, Pending
<1>2. /\ results'[h] = Append(results[h], v) /\ pos'[h] = pos[h] + 1 /\ pc'[h] = "loop"
      /\ batch'[h] = batch[h] /\ session'[h] = session[h]
  BY DEF TypeOK, Push
<1>3. /\ Len(results'[h]) = pos[h]
      /\ DOMAIN results'[h] = 1 .. pos[h]
      /\ results'[h][pos[h]] = v
      /\ \A k \in DOMAIN results[h] : results'[h][k] = results[h][k]
      /\ DOMAIN results[h] = 1 .. pos[h] - 1
  BY <1>1, <1>2
<1>4. ASSUME NEW k \in DOMAIN results'[h], results'[h][k] # Error
      PROVE  /\ results'[h][k].note.id = batch'[h][k].id
             /\ results'[h][k].note.user_id = session'[h]
  <2>1. CASE k = pos[h]
    BY <1>2, <1>3, <1>4, <2>1 DEF Current
  <2>2. CASE k # pos[h]
    <3>1. k \in DOMAIN results[h]
      BY <1>1, <1>3, <2>2
    <3> QED
      BY <1>2, <1>3, <1>4, <3>1 DEF ReplyInv
  <2> QED
    BY <2>1, <2>2
<1> QED
  BY <1>1, <1>2, <1>3, <1>4 DEF ReplyInv

\* A handler that gave up has no reply to vouch for.
LEMMA AbortReply ==
  ASSUME TypeOK, NEW h \in Handlers, Abort(h)
  PROVE  ReplyInv(h)'
BY DEF TypeOK, Abort, ReplyInv

\* The steps of a handler keep its reply in line with its batch.
LEMMA ReplyStep ==
  ASSUME IInv, NEW h \in Handlers,
         Handle(h) \/ Drop(h) \/ \E u \in Users, b \in Batches : Accept(h, u, b)
  PROVE  ReplyInv(h)'
<1>0. TypeOK /\ LoopInv /\ RowsKeyed /\ ReplyInv(h)
  BY IInvByHandler DEF IInv
<1>1. CASE \E u \in Users, b \in Batches : Accept(h, u, b)
  <2>1. PICK u \in Users, b \in Batches : Accept(h, u, b)
    BY <1>1
  <2>2. Len(b) \in Nat
    BY DEF Batches
  <2>3. /\ pc'[h] = "loop" /\ pos'[h] = 1 /\ results'[h] = <<>> /\ batch'[h] = b
    BY <1>0, <2>1 DEF TypeOK, Accept
  <2> QED
    BY <2>2, <2>3 DEF ReplyInv
<1>2. CASE Disown(h)
  BY <1>0, <1>2, PushReply DEF Disown, SyncResult
<1>3. CASE Fetch(h)
  <2>1. /\ pc'[h] = "fetched" /\ UNCHANGED <<session, batch, pos, results>>
        /\ fetched'[h] \in {VisibleRow(Current(h).id, session[h]), NoNote}
        /\ Pending(h) /\ Current(h).user_id = session[h]
    BY <1>0, <1>3 DEF TypeOK, Fetch
  <2>2. Current(h).id \in NoteIds
    BY <1>0, <2>1, CurrentIsNote DEF Note
  <2>3. fetched'[h] # NoNote => fetched'[h].id = Current(h).id /\ fetched'[h].user_id = session[h]
    BY <1>0, <2>1, <2>2 DEF VisibleRow, RowsKeyed
  <2>4. Pending(h)' /\ Current(h)' = Current(h)
    BY <2>1 DEF Pending, Current
  <2> QED
    BY <1>0, <2>1, <2>3, <2>4 DEF ReplyInv
<1>4. CASE Store(h) \/ Refuse(h)
  <2>1. Pending(h) /\ Push(h, Verdict(h))
    BY <1>0, <1>4 DEF Store, Refuse, ReplyInv
  <2>2. /\ Verdict(h) \in SyncResult
        /\ Verdict(h).note.id = Current(h).id /\ Verdict(h).note.user_id = session[h]
    BY <1>0, <1>4, VerdictResult DEF Store, Refuse
  <2> QED
    BY <1>0, <2>1, <2>2, PushReply
<1>5. CASE StoreFails(h)
  BY <1>0, <1>5, PushReply DEF StoreFails, ReplyInv, SyncResult
<1>6. CASE Respond(h)
  BY <1>0, <1>6 DEF TypeOK, Respond, ReplyInv, Pending
<1>7. CASE Overflow(h) \/ Drop(h)
  BY <1>0, <1>7, AbortReply DEF Overflow, Drop
<1> QED
  BY <1>1, <1>2, <1>3, <1>4, <1>5, <1>6, <1>7 DEF Handle

\* A row is written only under its own id.
LEMMA RowsStep ==
  ASSUME TypeOK, LoopInv, [Next]_vars
  PROVE  /\ RowsKeyed'
         /\ \A i \in NoteIds : rows[i] # NoNote =>
              rows'[i] # NoNote /\ rows'[i].user_id = rows[i].user_id
<1>1. CASE UNCHANGED rows
  BY <1>1, NoNoteIsNoNote DEF TypeOK, LoopInv, RowsKeyed
<1>2. ASSUME NEW n \in Note, Upsert(n)
      PROVE  /\ RowsKeyed'
             /\ \A i \in NoteIds : rows[i] # NoNote =>
                  rows'[i] # NoNote /\ rows'[i].user_id = rows[i].user_id
  <2>1. Upserted(n) \in Note /\ Upserted(n).id = n.id /\ n.id \in NoteIds
    BY UpsertedIsNote DEF Note
  <2>2. rows[n.id] # NoNote => Upserted(n).user_id = rows[n.id].user_id
    BY <2>1 DEF TypeOK, Upserted, Note
  <2>3. \A i \in NoteIds : rows'[i] = IF i = n.id THEN Upserted(n) ELSE rows[i]
    BY <1>2 DEF TypeOK, Upsert
  <2> QED
    BY <2>1, <2>2, <2>3 DEF LoopInv, RowsKeyed
<1>3. ASSUME NEW h \in Handlers, Handle(h) \/ Drop(h), rows' # rows
      PROVE  \E n \in Note : Upsert(n)
  BY <1>3, VerdictResult DEF Handle, Disown, Fetch, Store, StoreFails, Refuse, Respond,
     Overflow, Drop
<1> QED
  BY <1>1, <1>2, <1>3 DEF Next, vars, Accept

\* The inductive invariant holds initially.
LEMMA IInvInit == Init => IInv
<1> SUFFICES ASSUME Init PROVE IInv
  OBVIOUS
<1>1. TypeOK
  BY DEF Init, TypeOK
<1>2. RowsKeyed /\ \A h \in Handlers : ReplyInv(h)
  BY DEF Init, RowsKeyed, ReplyInv
<1> QED
  BY <1>1, <1>2, IInvByHandler

\* Every step keeps the inductive invariant.
LEMMA IInvStep == IInv /\ [Next]_vars => IInv'
<1> SUFFICES ASSUME IInv, [Next]_vars PROVE IInv'
  OBVIOUS
<1>0. TypeOK /\ LoopInv /\ RowsKeyed /\ \A h \in Handlers : ReplyInv(h)
  BY IInvByHandler DEF IInv
<1>1. TypeOK'
  BY <1>0, TypeStep
<1>2. RowsKeyed'
  BY <1>0, RowsStep
<1>3. ASSUME NEW g \in Handlers PROVE ReplyInv(g)'
  <2>1. CASE UNCHANGED vars
    BY <1>0, <2>1 DEF vars, ReplyInv, Pending, Current
  <2>2. ASSUME NEW h \in Handlers,
               Handle(h) \/ Drop(h) \/ \E u \in Users, b \in Batches : Accept(h, u, b)
        PROVE  ReplyInv(g)'
    BY <1>0, <2>2, OthersKeepReply, ReplyStep
  <2> QED
    BY <2>1, <2>2 DEF Next
<1>4. \A h \in Handlers : Len(results'[h]) \in Nat /\ Len(batch'[h]) \in Nat
  BY <1>1 DEF TypeOK
<1> QED
  BY <1>1, <1>2, <1>3, <1>4 DEF IInv, LoopInv, VerdictsLineUp, VerdictsNameTheCaller, ReplyInv,
     RowsKeyed, Pending

\* The inductive invariant always holds.
LEMMA Invariance == Spec => []IInv
BY IInvInit, IInvStep, PTL DEF Spec

-----------------------------------------------------------------------------
(***************************************************************************)
(* Every variable keeps its type, whatever the interleaving.               *)
(***************************************************************************)
THEOREM TypeCorrect == Spec => []TypeOK
<1>1. IInv => TypeOK
  BY DEF IInv
<1> QED
  BY <1>1, Invariance, PTL

(***************************************************************************)
(* A reply has one verdict for each note sent, in the order they were sent *)
(* (what sync_service.dart relies on when it pairs them by index).         *)
(***************************************************************************)
THEOREM RepliesLineUp == Spec => []VerdictsLineUp
<1>1. IInv => VerdictsLineUp
  BY DEF IInv
<1> QED
  BY <1>1, Invariance, PTL

(***************************************************************************)
(* A request is at the note after its last verdict, whatever fails, and    *)
(* what it has read is the row of that note and of its own user.           *)
(***************************************************************************)
THEOREM LoopsKeepTheirPlace == Spec => []LoopInv
<1>1. IInv => LoopInv
  BY DEF IInv
<1> QED
  BY <1>1, Invariance, PTL

(***************************************************************************)
(* The upsert never removes a row nor hands it to another user.            *)
(***************************************************************************)
THEOREM RowsKeepTheirOwner == Spec => OwnerNeverChanges
<1>1. IInv /\ [Next]_vars =>
        [\A i \in NoteIds : rows[i] # NoNote =>
           rows'[i] # NoNote /\ rows'[i].user_id = rows[i].user_id]_vars
  BY RowsStep DEF IInv
<1> QED
  BY <1>1, Invariance, PTL DEF Spec, OwnerNeverChanges

-----------------------------------------------------------------------------
\* What the steps of its own handler do to a request that goes on.
LEMMA HandlerRunsDown ==
  ASSUME IInv, NEW h \in Handlers, Handle(h), pc'[h] \in {"loop", "fetched"}
  PROVE  batch'[h] = batch[h] /\ Left(h)' \in Nat /\ Left(h)' < Left(h)
<1>0. TypeOK /\ ReplyInv(h)
  BY IInvByHandler DEF IInv
<1>1. pos[h] \in Nat /\ Len(batch[h]) \in Nat
  BY <1>0 DEF TypeOK
<1>2. CASE Fetch(h)
  <2>1. /\ pc[h] = "loop" /\ pc'[h] = "fetched" /\ UNCHANGED <<batch, pos>>
        /\ pos[h] <= Len(batch[h])
    BY <1>0, <1>2 DEF Fetch, TypeOK, Pending
  <2> QED
    BY <1>1, <2>1 DEF Left
<1>3. ASSUME NEW v, Push(h, v), Pending(h)
      PROVE  batch'[h] = batch[h] /\ Left(h)' \in Nat /\ Left(h)' < Left(h)
  <2>1. /\ pc'[h] = "loop" /\ pos'[h] = pos[h] + 1 /\ batch' = batch
        /\ pos[h] <= Len(batch[h])
    BY <1>0, <1>3 DEF Push, TypeOK, Pending
  <2> DEFINE rest == Len(batch[h]) - pos[h]
  <2>2. rest \in Nat
    BY <1>1, <2>1
  <2>3. Left(h)' = 2 * rest
    BY <1>1, <2>1 DEF Left
  <2>4. Left(h) = 2 * rest + 1 \/ Left(h) = 2 * rest + 2
    BY <1>1 DEF Left
  <2> HIDE DEF rest
  <2> QED
    BY <2>1, <2>2, <2>3, <2>4
<1>4. CASE Disown(h) \/ Store(h) \/ StoreFails(h) \/ Refuse(h)
  <2>1. Pending(h) /\ \E v : Push(h, v)
    BY <1>0, <1>4 DEF Disown, Store, StoreFails, Refuse, ReplyInv
  <2> QED
    BY <1>3, <2>1
<1>5. CASE Respond(h) \/ Overflow(h)
  BY <1>0, <1>5 DEF Respond, Overflow, Abort, TypeOK
<1> QED
  BY <1>2, <1>4, <1>5 DEF Handle

\* No step of anybody else adds to what is left of a request.
LEMMA RunDownStep ==
  ASSUME IInv, [Next]_vars, NEW h \in Handlers, Active(h), pc'[h] \in {"loop", "fetched"}
  PROVE  \/ UNCHANGED <<pc[h], session[h], batch[h], pos[h], fetched[h], results[h]>>
         \/ batch'[h] = batch[h] /\ Left(h)' \in Nat /\ Left(h)' < Left(h)
<1> DEFINE Same == UNCHANGED <<pc[h], session[h], batch[h], pos[h], fetched[h], results[h]>>
<1>1. TypeOK
  BY DEF IInv
<1>2. CASE UNCHANGED vars
  BY <1>2 DEF vars
<1>3. CASE Handle(h)
  BY <1>3, HandlerRunsDown
<1>4. CASE \/ Drop(h)
           \/ \E u \in Users, b \in Batches : Accept(h, u, b)
  BY <1>1, <1>4 DEF Drop, Accept, Abort, TypeOK
<1>5. ASSUME NEW g \in Handlers \ {h},
             Handle(g) \/ Drop(g) \/ \E u \in Users, b \in Batches : Accept(g, u, b)
      PROVE  Same
  BY <1>1, <1>5 DEF TypeOK, Handle, Disown, Fetch, Store, StoreFails, Refuse, Respond,
     Overflow, Drop, Accept, Push, Abort
<1> QED
  BY <1>2, <1>3, <1>4, <1>5 DEF Next

(***************************************************************************)
(* A request runs down: each step of its handler that does not end it      *)
(* leaves less of its batch to do, and no step of anybody else adds to it. *)
(* A request of n notes is therefore answered after at most 2n + 1 steps   *)
(* of its handler, whatever fails and whatever the others do.              *)
(***************************************************************************)
THEOREM RequestsGetShorter == Spec => RequestsRunDown
<1>1. IInv /\ [Next]_vars =>
        [\A h \in Handlers :
           Active(h) /\ pc'[h] \in {"loop", "fetched"} =>
             \/ UNCHANGED <<pc[h], session[h], batch[h], pos[h], fetched[h], results[h]>>
             \/ batch'[h] = batch[h] /\ Left(h)' \in Nat /\ Left(h)' < Left(h)]_vars
  BY RunDownStep
<1> QED
  BY <1>1, Invariance, PTL DEF Spec, RequestsRunDown

-----------------------------------------------------------------------------
(***************************************************************************)
(* From here on a note id belongs to one user.  The upsert, which asks     *)
(* only for the id, then never meets a row of somebody else, and texts     *)
(* stay with the user who sent them.  Nothing is assumed of the requests:  *)
(* they may overlap on a note, and reads and writes may fail.              *)
(***************************************************************************)

\* A stored row under the id of a note clients send is its user's.
LEMMA RowIsTheSenders ==
  ASSUME UniqueIds, TypeOK, LoopInv, TextsAreOwn, NEW n \in Notes, rows[n.id] # NoNote
  PROVE  rows[n.id].user_id = n.user_id
<1>1. n.id \in NoteIds
  BY DEF Note
<1>2. rows[n.id].id = n.id
  BY <1>1 DEF LoopInv
<1>3. PICK m \in Notes : m.id = rows[n.id].id /\ m.user_id = rows[n.id].user_id
  BY <1>1 DEF TextsAreOwn, IsOwnText
<1> QED
  BY <1>2, <1>3 DEF UniqueIds

\* The verdicts of one handler, with the texts they carry.
ReplyIsOwnText(h) ==
  \A k \in DOMAIN results[h] :
    results[h][k] # Error =>
      \E n \in Notes : /\ n.id = batch[h][k].id /\ n.user_id = session[h]
                        /\ n.cipher = results[h][k].note.cipher

\* The note a handler is to write is a text its own user has sent, and the row
\* it falls on, if there is one, is that user's.
LEMMA WriteIsOwn ==
  ASSUME UniqueIds, TypeOK, LoopInv, TextsAreOwn, NEW h \in Handlers,
         pc[h] = "fetched", Verdict(h).tag = "Success"
  PROVE  LET n == Verdict(h).note IN
           /\ n \in Note /\ n.id = Current(h).id
           /\ rows[n.id] # NoNote => rows[n.id].user_id = session[h]
           /\ IsOwnText(Upserted(n))
<1> DEFINE c == Current(h)
           n == Verdict(h).note
<1>1. c \in Notes /\ c \in Note /\ c.user_id = session[h]
  BY CurrentIsNote DEF LoopInv
<1>2. n \in Note /\ n.id = c.id /\ n.user_id = session[h] /\ n.cipher = c.cipher
  BY VerdictResult
<1> HIDE DEF c, n
<1>3. rows[n.id] # NoNote => rows[n.id].user_id = session[h]
  BY <1>1, <1>2, RowIsTheSenders
<1>4. /\ Upserted(n).id = n.id /\ Upserted(n).user_id = session[h]
      /\ Upserted(n).cipher = n.cipher
  BY <1>2, <1>3 DEF Upserted, Note
<1>5. IsOwnText(Upserted(n))
  BY <1>1, <1>2, <1>4 DEF IsOwnText
<1> QED
  BY <1>2, <1>3, <1>5 DEF c, n

\* A row that changes is written by one handler, which the others do not
\* notice, with the note its verdict carries.
LEMMA WriterOfRows ==
  ASSUME IInv, [Next]_vars, rows' # rows
  PROVE  \E h \in Handlers :
           /\ pc[h] = "fetched" /\ Verdict(h).tag = "Success"
           /\ Upsert(Verdict(h).note)
           /\ \A g \in Handlers \ {h} : pc'[g] = pc[g]
<1>1. PICK h \in Handlers : Handle(h) \/ Drop(h)
  BY DEF Next, Accept, vars
<1>2. pc[h] = "fetched" /\ Verdict(h).tag = "Success" /\ Upsert(Verdict(h).note)
  BY <1>1 DEF Handle, Disown, Fetch, Store, StoreFails, Refuse, Respond, Overflow, Drop
<1>3. \A g \in Handlers \ {h} : pc'[g] = pc[g]
  BY <1>1, <1>2 DEF IInv, TypeOK, Handle, Disown, Fetch, Store, StoreFails, Refuse,
     Respond, Overflow, Drop, Push, Abort
<1> QED
  BY <1>2, <1>3

\* A step keeps every stored and every fetched text its owner's.
LEMMA TextStep ==
  ASSUME UniqueIds, IInv, TextsAreOwn, [Next]_vars
  PROVE  TextsAreOwn'
<1>0. TypeOK /\ LoopInv
  BY DEF IInv
<1>1. \A i \in NoteIds : rows'[i] # NoNote => IsOwnText(rows'[i])
  <2>1. CASE rows' = rows
    BY <2>1 DEF TextsAreOwn
  <2>2. CASE rows' # rows
    <3>1. PICK h \in Handlers : /\ pc[h] = "fetched" /\ Verdict(h).tag = "Success"
                                /\ Upsert(Verdict(h).note)
      BY <2>2, WriterOfRows
    <3>2. IsOwnText(Upserted(Verdict(h).note))
      BY <1>0, <3>1, WriteIsOwn
    <3> QED
      BY <1>0, <3>1, <3>2 DEF Upsert, TypeOK, TextsAreOwn
  <2> QED
    BY <2>1, <2>2
<1>2. ASSUME NEW g \in Handlers, fetched'[g] # NoNote
      PROVE  IsOwnText(fetched'[g])
  <2>1. CASE fetched'[g] = fetched[g]
    BY <1>2, <2>1 DEF TextsAreOwn
  <2>2. CASE fetched'[g] # fetched[g]
    <3>1. fetched'[g] = VisibleRow(Current(g).id, session[g]) /\ Pending(g)
      BY <1>0, <1>2, <2>2 DEF TypeOK, Next, vars, Accept, Handle, Disown, Fetch, Store,
         StoreFails, Refuse, Respond, Overflow, Drop, Push, Abort
    <3>2. Current(g).id \in NoteIds
      BY <1>0, <3>1, CurrentIsNote DEF Note
    <3> QED
      BY <1>2, <3>1, <3>2 DEF VisibleRow, TextsAreOwn
  <2> QED
    BY <2>1, <2>2
<1> QED
  BY <1>1, <1>2 DEF TextsAreOwn, IsOwnText

\* A verdict about the note under way that carries one of its user's texts.
LEMMA PushText ==
  ASSUME IInv, NEW h \in Handlers, ReplyIsOwnText(h), Pending(h),
         NEW v \in SyncResult, Push(h, v),
         v # Error => \E n \in Notes : /\ n.id = Current(h).id /\ n.user_id = session[h]
                                       /\ n.cipher = v.note.cipher
  PROVE  ReplyIsOwnText(h)'
<1>0. TypeOK /\ ReplyInv(h)
  BY IInvByHandler DEF IInv
<1>1. /\ results[h] \in Seq(SyncResult) /\ pos[h] = Len(results[h]) + 1
      /\ results'[h] = Append(results[h], v)
      /\ batch'[h] = batch[h] /\ session'[h] = session[h]
  BY <1>0 DEF TypeOK, ReplyInv, Push
<1>2. ASSUME NEW k \in DOMAIN results'[h], results'[h][k] # Error
      PROVE  \E n \in Notes : /\ n.id = batch'[h][k].id /\ n.user_id = session'[h]
                              /\ n.cipher = results'[h][k].note.cipher
  <2>1. CASE k = pos[h]
    BY <1>1, <1>2, <2>1 DEF Current
  <2>2. CASE k # pos[h]
    <3>1. k \in DOMAIN results[h] /\ results'[h][k] = results[h][k]
      BY <1>1, <2>2
    <3> QED
      BY <1>1, <1>2, <3>1 DEF ReplyIsOwnText
  <2> QED
    BY <2>1, <2>2
<1> QED
  BY <1>2 DEF ReplyIsOwnText

\* A step keeps the texts of every reply its caller's.
LEMMA ReplyTextStep ==
  ASSUME UniqueIds, IInv, TextsAreOwn, [Next]_vars, NEW h \in Handlers, ReplyIsOwnText(h)
  PROVE  ReplyIsOwnText(h)'
<1>0. TypeOK /\ LoopInv
  BY DEF IInv
<1>1. CASE UNCHANGED <<session[h], batch[h], results[h]>>
  BY <1>1 DEF ReplyIsOwnText
<1>2. CASE results'[h] = <<>>
  BY <1>2 DEF ReplyIsOwnText
<1>3. CASE Disown(h) \/ StoreFails(h)
  BY <1>0, <1>3, PushText DEF Disown, StoreFails, SyncResult, LoopInv
<1>4. CASE Store(h) \/ Refuse(h)
  <2>1. pc[h] = "fetched" /\ Pending(h) /\ Push(h, Verdict(h)) /\ Verdict(h) \in SyncResult
    BY <1>0, <1>4, VerdictResult DEF Store, Refuse, LoopInv
  <2>2. \E n \in Notes : /\ n.id = Current(h).id /\ n.user_id = session[h]
                         /\ n.cipher = Verdict(h).note.cipher
    <3>1. CASE Store(h)
      BY <1>0, <2>1, <3>1, VerdictResult, CurrentIsNote DEF Store, LoopInv
    <3>2. CASE Refuse(h)
      <4>1. Verdict(h).note = fetched[h] /\ fetched[h].id = Current(h).id
            /\ fetched[h].user_id = session[h]
        BY <1>0, <2>1, <3>2, VerdictResult DEF Refuse
      <4>2. fetched[h] # NoNote
        BY <1>0, <2>1, <3>2 DEF Refuse, Verdict, ReconcileNote, Success
      <4> QED
        BY <4>1, <4>2 DEF TextsAreOwn, IsOwnText
    <3> QED
      BY <1>4, <3>1, <3>2
  <2> QED
    BY <2>1, <2>2, PushText
<1>5. CASE \/ Fetch(h) \/ Respond(h)
  BY <1>0, <1>1, <1>5 DEF Fetch, Respond
<1>6. CASE \/ Overflow(h) \/ Drop(h)
           \/ \E u \in Users, b \in Batches : Accept(h, u, b)
  BY <1>0, <1>2, <1>6 DEF Overflow, Drop, Accept, Abort, TypeOK
<1>7. ASSUME NEW g \in Handlers \ {h},
             Handle(g) \/ Drop(g) \/ \E u \in Users, b \in Batches : Accept(g, u, b)
      PROVE  UNCHANGED <<session[h], batch[h], results[h]>>
  BY <1>0, <1>7 DEF TypeOK, Handle, Disown, Fetch, Store, StoreFails, Refuse, Respond,
     Overflow, Drop, Accept, Push, Abort
<1>8. CASE UNCHANGED vars
  BY <1>1, <1>8 DEF vars
<1> QED
  BY <1>1, <1>3, <1>4, <1>5, <1>6, <1>7, <1>8 DEF Next, Handle

\* The texts together: the inductive invariant of the theorems below.
TextInv == IInv /\ TextsAreOwn /\ \A h \in Handlers : ReplyIsOwnText(h)

LEMMA TextInvariance == UniqueIds => (Spec => []TextInv)
<1> SUFFICES ASSUME UniqueIds PROVE Spec => []TextInv
  OBVIOUS
<1>1. Init => TextInv
  BY IInvInit DEF Init, TextInv, TextsAreOwn, ReplyIsOwnText
<1>2. TextInv /\ [Next]_vars => TextInv'
  BY IInvStep, TextStep, ReplyTextStep DEF TextInv
<1> QED
  BY <1>1, <1>2, PTL DEF Spec

(***************************************************************************)
(* While a note id belongs to one user, a user is only ever sent texts of  *)
(* the user's own, under the ids they were sent under, however requests    *)
(* overlap and whatever fails.                                             *)
(***************************************************************************)
THEOREM RepliesAreOnesOwn == UniqueIds => (Spec => []RepliesCarryOwnText)
<1> SUFFICES ASSUME UniqueIds PROVE Spec => []RepliesCarryOwnText
  OBVIOUS
<1>1. TextInv => RepliesCarryOwnText
  BY DEF TextInv, ReplyIsOwnText, RepliesCarryOwnText
<1> QED
  BY <1>1, TextInvariance, PTL

(***************************************************************************)
(* While a note id belongs to one user, a stored note is only rewritten by *)
(* a request of its owner, also one whose task has been dropped at the     *)
(* await or whose upsert reported a failure.                               *)
(***************************************************************************)
THEOREM OwnersRewriteTheirRows == UniqueIds => (Spec => OnlyOwnersWrite)
<1> SUFFICES ASSUME UniqueIds PROVE Spec => OnlyOwnersWrite
  OBVIOUS
<1>1. ASSUME TextInv, [Next]_vars, NEW h \in Handlers, NEW i \in NoteIds,
             Writes(h), rows[i] # NoNote, rows'[i] # rows[i]
      PROVE  rows[i].user_id = session[h]
  <2>0. TypeOK /\ LoopInv /\ TextsAreOwn
    BY <1>1 DEF TextInv, IInv
  <2>1. PICK g \in Handlers : /\ pc[g] = "fetched" /\ Verdict(g).tag = "Success"
                              /\ Upsert(Verdict(g).note)
                              /\ \A f \in Handlers \ {g} : pc'[f] = pc[f]
    BY <1>1, WriterOfRows DEF Writes, TextInv
  <2>2. g = h
    BY <1>1, <2>1 DEF Writes
  <2>3. i = Verdict(h).note.id
    BY <1>1, <2>0, <2>1, <2>2 DEF Upsert, TypeOK
  <2> QED
    BY <1>1, <2>0, <2>1, <2>2, <2>3, WriteIsOwn
<1>2. TextInv /\ [Next]_vars =>
        [\A h \in Handlers, i \in NoteIds :
           Writes(h) /\ rows[i] # NoNote /\ rows'[i] # rows[i] =>
             rows[i].user_id = session[h]]_vars
  BY <1>1
<1> QED
  BY <1>2, TextInvariance, PTL DEF Spec, OnlyOwnersWrite

-----------------------------------------------------------------------------
(***************************************************************************)
(* From here on: requests in flight share no note, reads do not fail and a *)
(* note id belongs to one user.  Write failures, dropped requests and      *)
(* panics remain.                                                          *)
(***************************************************************************)
Alone == Isolated /\ ~ReadFaults /\ UniqueIds

\* A row that exists under the id of one's own note is one's own.
LEMMA RowIsOwn ==
  ASSUME TypeOK, RowsHaveSenders, UniqueIds, NEW n \in Notes, rows[n.id] # NoNote
  PROVE  rows[n.id].user_id = n.user_id
BY DEF RowsHaveSenders, UniqueIds, Note

\* The upsert then replaces the whole row by the note it was given.
LEMMA UpsertReplaces ==
  ASSUME Alone, IInv, IsolationInv, NEW h \in Handlers,
         pc[h] = "fetched", Verdict(h).tag = "Success"
  PROVE  /\ Upserted(Verdict(h).note) = Verdict(h).note
         /\ Verdict(h).note.id = Current(h).id
         /\ Verdict(h).note.user_id = Current(h).user_id
         /\ Current(h) \in Notes /\ Current(h).id \in NoteIds
         /\ fetched[h] = rows[Current(h).id]
<1>1. TypeOK /\ LoopInv /\ ReplyInv(h)
  BY IInvByHandler DEF IInv
<1>2. Current(h) \in Notes /\ Current(h) \in Note /\ Current(h).user_id = session[h]
  BY <1>1, CurrentIsNote DEF ReplyInv
<1>3. /\ Verdict(h).note \in Note /\ Verdict(h).note.id = Current(h).id
      /\ Verdict(h).note.user_id = session[h]
  BY <1>1, VerdictResult
<1>4. fetched[h] = rows[Current(h).id] /\ Current(h).id \in NoteIds
  BY <1>2 DEF IsolationInv, FetchedIsCurrent, Note
<1> DEFINE n == Verdict(h).note
           r == rows[Current(h).id]
<1>5. Upserted(n) = n
  <2>1. CASE r = NoNote
    BY <1>3, <2>1 DEF Upserted
  <2>2. CASE r # NoNote
    <3>1. r \in Note /\ r.id = n.id /\ r.user_id = n.user_id
      BY <1>1, <1>2, <1>3, <1>4, <2>2, RowIsOwn DEF TypeOK, LoopInv, IsolationInv, Alone
    <3>2. Upserted(n) = [n EXCEPT !.user_id = n.user_id]
      BY <1>3, <2>2, <3>1 DEF Upserted
    <3>3. [n EXCEPT !.user_id = n.user_id] = n
      BY <1>3 DEF Note
    <3> QED
      BY <3>2, <3>3
  <2> QED
    BY <2>1, <2>2
<1> QED
  BY <1>2, <1>3, <1>4, <1>5

\* What a step does to the rows: nothing, or the write of a matching note.
LEMMA RowsWhenAlone ==
  ASSUME Alone, IInv, IsolationInv, [Next]_vars, rows' # rows
  PROVE  \E h \in Handlers :
           /\ pc[h] = "fetched" /\ pc'[h] # "fetched" /\ Verdict(h).tag = "Success"
           /\ rows' = [rows EXCEPT ![Current(h).id] = Verdict(h).note]
           /\ \A g \in Handlers \ {h} :
                pc'[g] = pc[g] /\ batch'[g] = batch[g] /\ pos'[g] = pos[g] /\ fetched'[g] = fetched[g]
<1>1. PICK h \in Handlers : Handle(h) \/ Drop(h)
  BY DEF Next, Accept, vars
<1>2. pc[h] = "fetched" /\ Verdict(h).tag = "Success" /\ Upsert(Verdict(h).note)
  BY <1>1 DEF Handle, Disown, Fetch, Store, StoreFails, Refuse, Respond, Overflow, Drop
<1>3. rows' = [rows EXCEPT ![Current(h).id] = Verdict(h).note]
  BY <1>2, UpsertReplaces DEF Upsert
<1>4. Store(h) \/ StoreFails(h) \/ Drop(h)
  BY <1>1, <1>2, NoNoteIsNoNote DEF Handle, Disown, Fetch, Refuse, Respond, Overflow
<1>5. /\ pc'[h] # "fetched"
      /\ \A g \in Handlers \ {h} :
           pc'[g] = pc[g] /\ batch'[g] = batch[g] /\ pos'[g] = pos[g] /\ fetched'[g] = fetched[g]
  BY <1>4 DEF IInv, TypeOK, Store, StoreFails, Drop, Push, Abort
<1> QED
  BY <1>2, <1>3, <1>5

\* Nothing overlaps initially.
LEMMA IsolationInit == Init => IsolationInv
BY DEF Init, IsolationInv, FetchedIsCurrent, Apart, RowsHaveSenders, Active

\* Batches under way share no note after a step, if accepting keeps them apart.
LEMMA ApartStep ==
  ASSUME Alone, IInv, IsolationInv, [Next]_vars
  PROVE  Apart'
<1>1. CASE UNCHANGED vars
  BY <1>1 DEF IsolationInv, Apart, Active, vars
<1>2. ASSUME NEW h \in Handlers, NEW u \in Users, NEW b \in Batches, Accept(h, u, b)
      PROVE  Apart'
  <2>1. \A g \in Handlers \ {h} : pc'[g] = pc[g] /\ batch'[g] = batch[g]
    BY <1>2 DEF Accept, IInv, TypeOK
  <2>2. batch'[h] = b
    BY <1>2 DEF Accept, IInv, TypeOK
  <2>3. \A g \in Handlers \ {h} : Active(g) => IdsOf(batch[g]) \cap IdsOf(b) = {}
    BY <1>2 DEF Accept, Alone
  <2> QED
    BY <2>1, <2>2, <2>3 DEF IsolationInv, Apart, Active
<1>3. ASSUME NEW h \in Handlers, Handle(h) \/ Drop(h)
      PROVE  Apart'
  <2>1. \A g \in Handlers : Active(g)' => Active(g) /\ batch'[g] = batch[g]
    BY <1>3 DEF IInv, TypeOK, Active, Pending, Handle, Disown, Fetch, Store, StoreFails, Refuse,
       Respond, Overflow, Drop, Push, Abort
  <2> QED
    BY <2>1 DEF IsolationInv, Apart, Active
<1> QED
  BY <1>1, <1>2, <1>3 DEF Next

\* Every row belongs to a user who may send it.
LEMMA SendersStep ==
  ASSUME Alone, IInv, IsolationInv, [Next]_vars
  PROVE  RowsHaveSenders'
<1>1. CASE rows' = rows
  BY <1>1 DEF IsolationInv, RowsHaveSenders
<1>2. CASE rows' # rows
  <2>1. PICK h \in Handlers :
          /\ pc[h] = "fetched" /\ Verdict(h).tag = "Success"
          /\ rows' = [rows EXCEPT ![Current(h).id] = Verdict(h).note]
    BY <1>2, RowsWhenAlone
  <2>2. /\ Verdict(h).note.user_id = Current(h).user_id
        /\ Current(h) \in Notes
    BY <2>1, UpsertReplaces
  <2>3. \A i \in NoteIds :
          rows'[i] = IF i = Current(h).id THEN Verdict(h).note ELSE rows[i]
    BY <2>1 DEF IInv, TypeOK
  <2> QED
    BY <2>2, <2>3 DEF IsolationInv, RowsHaveSenders
<1> QED
  BY <1>1, <1>2

\* What a handler has fetched is what the table holds: nobody else writes that row.
LEMMA FetchedStep ==
  ASSUME Alone, IInv, IsolationInv, [Next]_vars
  PROVE  FetchedIsCurrent'
<1> SUFFICES ASSUME NEW g \in Handlers, pc'[g] = "fetched"
             PROVE  fetched'[g] = rows'[Current(g)'.id]
  BY DEF FetchedIsCurrent
<1>0. TypeOK /\ LoopInv /\ \A h \in Handlers : ReplyInv(h)
  BY IInvByHandler DEF IInv
<1>1. CASE rows' # rows
  <2>1. PICK h \in Handlers :
          /\ pc[h] = "fetched" /\ pc'[h] # "fetched" /\ Verdict(h).tag = "Success"
          /\ rows' = [rows EXCEPT ![Current(h).id] = Verdict(h).note]
          /\ \A k \in Handlers \ {h} :
               pc'[k] = pc[k] /\ batch'[k] = batch[k] /\ pos'[k] = pos[k] /\ fetched'[k] = fetched[k]
    BY <1>1, RowsWhenAlone
  <2>2. /\ g # h /\ pc[g] = "fetched" /\ fetched'[g] = fetched[g]
        /\ Current(g)' = Current(g)
    BY <2>1 DEF Current
  <2>3. /\ Current(g).id \in IdsOf(batch[g]) /\ Current(h).id \in IdsOf(batch[h])
        /\ Current(g).id \in NoteIds
    BY <1>0, <2>1, <2>2, CurrentIsNote DEF ReplyInv, IdsOf, Current, Note
  <2>4. Current(g).id # Current(h).id
    BY <2>1, <2>2, <2>3 DEF IsolationInv, Apart, Active
  <2> QED
    BY <1>0, <2>1, <2>2, <2>3, <2>4 DEF IsolationInv, FetchedIsCurrent, TypeOK
<1>2. CASE rows' = rows /\ pc[g] = "fetched" /\ UNCHANGED <<batch[g], pos[g], fetched[g]>>
  BY <1>2 DEF IsolationInv, FetchedIsCurrent, Current
<1>3. CASE Fetch(g)
  <2>1. /\ fetched'[g] = VisibleRow(Current(g).id, session[g])
        /\ UNCHANGED <<rows, batch, pos>>
        /\ Pending(g) /\ Current(g).user_id = session[g]
    BY <1>0, <1>3 DEF Fetch, Alone, TypeOK
  <2>2. Current(g) \in Notes /\ Current(g)' = Current(g)
    BY <1>0, <2>1, CurrentIsNote DEF Current
  <2>3. VisibleRow(Current(g).id, session[g]) = rows[Current(g).id]
    BY <1>0, <2>1, <2>2, RowIsOwn DEF VisibleRow, Alone, IsolationInv
  <2> QED
    BY <2>1, <2>2, <2>3
<1>4. \/ Fetch(g)
      \/ pc[g] = "fetched" /\ UNCHANGED <<batch[g], pos[g], fetched[g]>>
  <2>1. CASE UNCHANGED vars
    BY <2>1 DEF vars
  <2>2. ASSUME NEW h \in Handlers,
               Handle(h) \/ Drop(h) \/ \E u \in Users, b \in Batches : Accept(h, u, b)
        PROVE  <1>4!2 \/ <1>4!1
    BY <1>0, <2>2 DEF TypeOK, Handle, Disown, Fetch, Store, StoreFails, Refuse, Respond,
       Overflow, Drop, Accept, Push, Abort
  <2> QED
    BY <2>1, <2>2 DEF Next
<1> QED
  BY <1>1, <1>2, <1>3, <1>4

\* While requests share no note, the isolation invariant always holds.
LEMMA IsolationInvariance == Alone => (Spec => [](IInv /\ IsolationInv))
<1> SUFFICES ASSUME Alone PROVE Spec => [](IInv /\ IsolationInv)
  OBVIOUS
<1>1. IInv /\ IsolationInv /\ [Next]_vars => IsolationInv'
  BY ApartStep, SendersStep, FetchedStep DEF IsolationInv
<1> QED
  BY <1>1, IInvInit, IInvStep, IsolationInit, PTL DEF Spec

(***************************************************************************)
(* While requests that touch the same note do not overlap, what a handler  *)
(* read is still the row when it writes: no statement of another handler   *)
(* comes between its SELECT and its upsert.                                *)
(***************************************************************************)
THEOREM FetchedStaysCurrent == Alone => (Spec => []IsolationInv)
BY IsolationInvariance, PTL

(***************************************************************************)
(* Hence the version counter does its work: a stored note is replaced only *)
(* by its next version.                                                    *)
(***************************************************************************)
THEOREM UpdatesAreNotLost == Alone => (Spec => NoLostUpdate)
<1> SUFFICES ASSUME Alone PROVE Spec => NoLostUpdate
  OBVIOUS
<1>1. ASSUME IInv, IsolationInv, [Next]_vars, NEW i \in NoteIds,
             rows[i] # NoNote, rows'[i] # rows[i]
      PROVE  rows'[i].version = NextVersion(rows[i].version)
  <2>0. TypeOK /\ LoopInv
    BY <1>1 DEF IInv
  <2>1. PICK h \in Handlers :
          /\ pc[h] = "fetched" /\ Verdict(h).tag = "Success"
          /\ rows' = [rows EXCEPT ![Current(h).id] = Verdict(h).note]
    BY <1>1, RowsWhenAlone
  <2>2. i = Current(h).id /\ rows'[i] = Verdict(h).note
    BY <1>1, <2>0, <2>1 DEF TypeOK
  <2>3. fetched[h] = rows[i]
    BY <1>1, <2>1, <2>2, UpsertReplaces
  <2> QED
    BY <1>1, <2>0, <2>1, <2>2, <2>3, VerdictResult
<1>2. IInv /\ IsolationInv /\ [Next]_vars =>
        [\A i \in NoteIds :
           rows[i] # NoNote /\ rows'[i] # rows[i] =>
             rows'[i].version = NextVersion(rows[i].version)]_vars
  BY <1>1
<1> QED
  BY <1>2, IsolationInvariance, PTL DEF Spec, NoLostUpdate

(***************************************************************************)
(* And a handler whose note names another version than the stored one does *)
(* not write.                                                              *)
(***************************************************************************)
THEOREM MismatchesAreRefused == Alone => (Spec => MismatchIsNotStored)
<1> SUFFICES ASSUME Alone PROVE Spec => MismatchIsNotStored
  OBVIOUS
<1>1. ASSUME IInv, IsolationInv, [Next]_vars, NEW h \in Handlers, Stores(h)
      PROVE  \/ rows[Current(h).id] = NoNote
             \/ rows[Current(h).id].version = Current(h).version
  <2>0. TypeOK /\ LoopInv
    BY <1>1 DEF IInv
  <2>1. PICK g \in Handlers :
          /\ pc[g] = "fetched" /\ Verdict(g).tag = "Success"
          /\ \A f \in Handlers \ {g} : pc'[f] = pc[f]
    BY <1>1, RowsWhenAlone DEF Stores
  <2>2. g = h
    BY <1>1, <2>1 DEF Stores
  <2>3. fetched[h] = rows[Current(h).id] /\ Current(h) \in Note
    BY <1>1, <2>0, <2>1, <2>2, UpsertReplaces
  <2> QED
    BY <1>1, <2>0, <2>1, <2>2, <2>3, ReconcileResult DEF Verdict, TypeOK
<1>2. IInv /\ IsolationInv /\ [Next]_vars =>
        [\A h \in Handlers :
           Stores(h) =>
             \/ rows[Current(h).id] = NoNote
             \/ rows[Current(h).id].version = Current(h).version]_vars
  BY <1>1
<1> QED
  BY <1>2, IsolationInvariance, PTL DEF Spec, MismatchIsNotStored

(***************************************************************************)
(* And the row it replaces is the very row it compared.                    *)
(***************************************************************************)
THEOREM ComparedIsReplaced == Alone => (Spec => ReplacesWhatItCompared)
<1> SUFFICES ASSUME Alone PROVE Spec => ReplacesWhatItCompared
  OBVIOUS
<1>1. ASSUME IInv, IsolationInv, [Next]_vars, NEW h \in Handlers, Stores(h)
      PROVE  rows[Current(h).id] = fetched[h]
  BY <1>1 DEF Stores, IsolationInv, FetchedIsCurrent
<1>2. IInv /\ IsolationInv /\ [Next]_vars =>
        [\A h \in Handlers :
           Stores(h) /\ fetched[h] # NoNote => rows[Current(h).id] = fetched[h]]_vars
  BY <1>1
<1> QED
  BY <1>2, IsolationInvariance, PTL DEF Spec, ReplacesWhatItCompared

-----------------------------------------------------------------------------
(***************************************************************************)
(* The verdicts of a reply stay true until it is complete.                 *)
(***************************************************************************)
RepliesTrue(h) ==
  \A k \in DOMAIN results[h] :
    results[h][k] # Error /\ LastAnswer(h, k) => rows[batch[h][k].id] = results[h][k].note

\* The verdicts so far are about notes of the batch.
LEMMA AnswersInBatch ==
  ASSUME TypeOK, NEW h \in Handlers, ReplyInv(h)
  PROVE  /\ DOMAIN results[h] = 1 .. pos[h] - 1
         /\ \A k \in DOMAIN results[h] :
              k \in DOMAIN batch[h] /\ k < pos[h] /\ batch[h][k].id \in IdsOf(batch[h])
<1>1. /\ results[h] \in Seq(SyncResult) /\ batch[h] \in Seq(Notes)
      /\ pos[h] = Len(results[h]) + 1 /\ pos[h] <= Len(batch[h]) + 1
  BY DEF TypeOK, ReplyInv
<1> QED
  BY <1>1 DEF IdsOf

\* A reply nobody adds to stays true, if none of its notes is written.
LEMMA ReplyStandsWhileRowsStand ==
  ASSUME TypeOK, NEW h \in Handlers, ReplyInv(h), RepliesTrue(h),
         UNCHANGED <<batch[h], results[h]>>,
         \A i \in IdsOf(batch[h]) : rows'[i] = rows[i]
  PROVE  RepliesTrue(h)'
BY AnswersInBatch DEF RepliesTrue, LastAnswer

\* A verdict pushed is true, if it is an error or shows the row.
LEMMA ReplyGrows ==
  ASSUME TypeOK, NEW h \in Handlers, ReplyInv(h), RepliesTrue(h), Pending(h),
         NEW v \in SyncResult, Push(h, v),
         v # Error => rows'[Current(h).id] = v.note,
         \A i \in IdsOf(batch[h]) \ {Current(h).id} : rows'[i] = rows[i]
  PROVE  RepliesTrue(h)'
<1>1. /\ results[h] \in Seq(SyncResult)
      /\ pos[h] = Len(results[h]) + 1
  BY DEF TypeOK, ReplyInv
<1>2. results'[h] = Append(results[h], v) /\ batch' = batch
  BY DEF TypeOK, Push
<1>3. /\ DOMAIN results'[h] = 1 .. pos[h]
      /\ results'[h][pos[h]] = v
      /\ \A k \in DOMAIN results[h] : results'[h][k] = results[h][k]
      /\ DOMAIN results[h] = 1 .. pos[h] - 1
      /\ pos[h] \in Nat
  BY <1>1, <1>2
<1> SUFFICES ASSUME NEW k \in DOMAIN results'[h], results'[h][k] # Error,
                    \A j \in DOMAIN results'[h] : j > k => batch'[h][j].id # batch'[h][k].id
             PROVE  rows'[batch'[h][k].id] = results'[h][k].note
  BY DEF RepliesTrue, LastAnswer
<1>4. CASE k = pos[h]
  BY <1>2, <1>3, <1>4 DEF Current
<1>5. CASE k # pos[h]
  <2>1. k \in DOMAIN results[h] /\ pos[h] \in DOMAIN results'[h] /\ pos[h] > k
    BY <1>1, <1>3, <1>5
  <2>2. batch[h][k].id # Current(h).id /\ batch[h][k].id \in IdsOf(batch[h])
    BY <1>2, <2>1, AnswersInBatch DEF Current
  <2>3. LastAnswer(h, k)
    BY <1>2, <1>3, <2>1 DEF LastAnswer
  <2>4. rows[batch[h][k].id] = results[h][k].note
    BY <1>3, <2>1, <2>3 DEF RepliesTrue
  <2> QED
    BY <1>2, <1>3, <2>1, <2>2, <2>4
<1> QED
  BY <1>4, <1>5

\* The verdict a handler is about to give shows the row as it leaves it.
LEMMA OwnReplyStep ==
  ASSUME Alone, IInv, IsolationInv, NEW h \in Handlers, Handle(h), RepliesTrue(h),
         Active(h)', Active(h)
  PROVE  RepliesTrue(h)'
<1>0. TypeOK /\ LoopInv /\ ReplyInv(h)
  BY IInvByHandler DEF IInv
<1>1. CASE Fetch(h)
  BY <1>0, <1>1, ReplyStandsWhileRowsStand DEF Fetch
<1>2. CASE Disown(h)
  BY <1>0, <1>2, ReplyGrows DEF Disown, SyncResult
<1>3. CASE Store(h) \/ StoreFails(h)
  <2>1. /\ pc[h] = "fetched" /\ Verdict(h).tag = "Success" /\ Pending(h)
        /\ Verdict(h) \in SyncResult
    BY <1>0, <1>3, VerdictResult DEF Store, StoreFails, ReplyInv
  <2>2. Upserted(Verdict(h).note) = Verdict(h).note /\ Verdict(h).note.id = Current(h).id
    BY <2>1, UpsertReplaces
  <2>3. /\ Current(h).id \in NoteIds
        /\ rows' = rows \/ rows' = [rows EXCEPT ![Current(h).id] = Verdict(h).note]
        /\ Store(h) => rows' = [rows EXCEPT ![Current(h).id] = Verdict(h).note]
    BY <1>3, <2>1, <2>2, UpsertReplaces DEF Store, StoreFails, Upsert
  <2>4. /\ \A i \in NoteIds \ {Current(h).id} : rows'[i] = rows[i]
        /\ Store(h) => rows'[Current(h).id] = Verdict(h).note
        /\ IdsOf(batch[h]) \subseteq NoteIds
    BY <1>0, <2>3 DEF TypeOK, IdsOf, Note
  <2>5. CASE Store(h)
    BY <1>0, <2>1, <2>4, <2>5, ReplyGrows DEF Store
  <2>6. CASE StoreFails(h)
    BY <1>0, <2>1, <2>4, <2>6, ReplyGrows DEF StoreFails, SyncResult
  <2> QED
    BY <1>3, <2>5, <2>6
<1>4. CASE Refuse(h)
  <2>1. /\ pc[h] = "fetched" /\ Verdict(h).tag = "Conflict" /\ Pending(h)
        /\ Verdict(h) \in SyncResult /\ Verdict(h).note = fetched[h]
    BY <1>0, <1>4, VerdictResult DEF Refuse, ReplyInv
  <2>2. rows' = rows /\ fetched[h] = rows[Current(h).id]
    BY <1>4, <2>1 DEF Refuse, IsolationInv, FetchedIsCurrent
  <2> QED
    BY <1>0, <1>4, <2>1, <2>2, ReplyGrows DEF Refuse
<1>5. CASE Respond(h) \/ Overflow(h)
  BY <1>0, <1>5 DEF Respond, Overflow, Abort, Active, TypeOK
<1> QED
  BY <1>1, <1>2, <1>3, <1>4, <1>5 DEF Handle

\* The writes of a handler are to the notes of its own batch.
LEMMA OthersReplyStep ==
  ASSUME Alone, IInv, IsolationInv, NEW g \in Handlers, NEW h \in Handlers \ {g}, RepliesTrue(g),
         Handle(h) \/ Drop(h), Active(g)
  PROVE  RepliesTrue(g)'
<1>0. TypeOK /\ LoopInv /\ ReplyInv(g) /\ ReplyInv(h)
  BY IInvByHandler DEF IInv
<1>1. batch'[g] = batch[g] /\ results'[g] = results[g]
  BY <1>0 DEF TypeOK, Handle, Disown, Fetch, Store, StoreFails, Refuse, Respond, Overflow, Drop,
     Push, Abort
<1>2. CASE rows' = rows
  BY <1>0, <1>1, <1>2, ReplyStandsWhileRowsStand
<1>3. CASE rows' # rows
  <2>1. pc[h] = "fetched" /\ Verdict(h).tag = "Success" /\ Upsert(Verdict(h).note)
    BY <1>3 DEF Handle, Disown, Fetch, Store, StoreFails, Refuse, Respond, Overflow, Drop
  <2>2. rows' = [rows EXCEPT ![Current(h).id] = Verdict(h).note]
    BY <2>1, UpsertReplaces DEF Upsert
  <2>3. Current(h).id \in IdsOf(batch[h])
    BY <1>0, <2>1, CurrentIsNote DEF ReplyInv, IdsOf, Current
  <2>4. Current(h).id \notin IdsOf(batch[g])
    BY <2>1, <2>3 DEF IsolationInv, Apart, Active
  <2>5. \A i \in IdsOf(batch[g]) : rows'[i] = rows[i]
    BY <1>0, <2>2, <2>4 DEF TypeOK
  <2> QED
    BY <1>0, <1>1, <2>5, ReplyStandsWhileRowsStand
<1> QED
  BY <1>2, <1>3

(***************************************************************************)
(* The verdicts of a reply are true together when the reply is complete:   *)
(* as long as it is being built, the last verdict on each note shows the   *)
(* row, whatever the other handlers write and whichever of its own writes  *)
(* fail.                                                                   *)
(***************************************************************************)
THEOREM RepliesStayTrue == Alone => (Spec => []VerdictsAreCurrent)
<1> SUFFICES ASSUME Alone PROVE Spec => []VerdictsAreCurrent
  OBVIOUS
<1>1. Init => VerdictsAreCurrent
  BY DEF Init, VerdictsAreCurrent, Active
<1>2. ASSUME IInv, IsolationInv, [Next]_vars, VerdictsAreCurrent, NEW g \in Handlers, Active(g)'
      PROVE  RepliesTrue(g)'
  <2>0. TypeOK /\ (Active(g) => RepliesTrue(g))
    BY <1>2 DEF IInv, VerdictsAreCurrent, RepliesTrue
  <2>1. CASE UNCHANGED vars
    BY <1>2, <2>0, <2>1 DEF vars, Active, RepliesTrue, LastAnswer
  <2>2. ASSUME NEW u \in Users, NEW b \in Batches, Accept(g, u, b)
        PROVE  RepliesTrue(g)'
    BY <2>0, <2>2 DEF Accept, TypeOK, RepliesTrue
  <2>3. ASSUME NEW h \in Handlers \ {g}, NEW u \in Users, NEW b \in Batches, Accept(h, u, b)
        PROVE  RepliesTrue(g)'
    <3>1. UNCHANGED <<rows, pc[g], batch[g], results[g]>>
      BY <2>0, <2>3 DEF Accept, TypeOK
    <3> QED
      BY <1>2, <2>0, <3>1 DEF Active, RepliesTrue, LastAnswer
  <2>4. CASE Handle(g)
    <3>1. Active(g)
      BY <2>4 DEF Active, Handle, Disown, Fetch, Store, StoreFails, Refuse, Respond, Overflow
    <3> QED
      BY <1>2, <2>0, <2>4, <3>1, OwnReplyStep
  <2>5. CASE Drop(g)
    BY <1>2, <2>0, <2>5 DEF Drop, Abort, Active, TypeOK
  <2>6. ASSUME NEW h \in Handlers \ {g}, Handle(h) \/ Drop(h)
        PROVE  RepliesTrue(g)'
    <3>1. pc'[g] = pc[g]
      BY <2>0, <2>6 DEF TypeOK, Handle, Disown, Fetch, Store, StoreFails, Refuse, Respond,
         Overflow, Drop, Push, Abort
    <3> QED
      BY <1>2, <2>0, <2>6, <3>1, OthersReplyStep DEF Active
  <2> QED
    BY <1>2, <2>1, <2>2, <2>3, <2>4, <2>5, <2>6 DEF Next
<1>3. IInv /\ IsolationInv /\ [Next]_vars /\ VerdictsAreCurrent => VerdictsAreCurrent'
  BY <1>2 DEF VerdictsAreCurrent, RepliesTrue
<1> QED
  BY <1>1, <1>3, IsolationInvariance, PTL DEF Spec

-----------------------------------------------------------------------------
(***************************************************************************)
(* Refinement.  AtomicSync decides by the same rule.                       *)
(***************************************************************************)
LEMMA SameEngine ==
  /\ \A c, s : Atomic!ReconcileNote(c, s) = ReconcileNote(c, s)
  /\ Atomic!Error = Error
BY DEF ReconcileNote, Atomic!ReconcileNote, Success, Atomic!Success, Conflict, Atomic!Conflict,
   Panic, Atomic!Panic, NextVersion, Atomic!NextVersion, Error, Atomic!Error

\* The abstract handler is at the same note, and serves while this one does.
LEMMA SameCurrent ==
  ASSUME IInv, NEW h \in Handlers
  PROVE  /\ Atomic!Current(h) = Current(h)
         /\ Pending(h) <=> Len(results[h]) < Len(batch[h])
         /\ Phase[h] = "serving" <=> Active(h)
<1>1. TypeOK /\ ReplyInv(h)
  BY IInvByHandler DEF IInv
<1>2. Len(results[h]) \in Nat /\ Len(batch[h]) \in Nat
  BY <1>1 DEF TypeOK
<1> QED
  BY <1>1, <1>2 DEF ReplyInv, Pending, Current, Atomic!Current, Phase, Active, TypeOK

\* Once the row has been read the abstract handler comes to the same verdict.
LEMMA SameVerdict ==
  ASSUME IInv, IsolationInv, NEW h \in Handlers, pc[h] = "fetched"
  PROVE  /\ Atomic!Serving(h) /\ Atomic!Own(h)
         /\ Atomic!Verdict(h) = Verdict(h)
<1>1. Pending(h) /\ Current(h).user_id = session[h] /\ Active(h)
  BY DEF IInv, LoopInv, Active
<1>2. fetched[h] = rows[Current(h).id]
  BY DEF IsolationInv, FetchedIsCurrent
<1> QED
  BY <1>1, <1>2, SameCurrent, SameEngine DEF Atomic!Serving, Atomic!Own, Atomic!Verdict, Verdict

\* A verdict pushed is an answer given; an abort is a request given up.
LEMMA PushIsAnswer ==
  ASSUME IInv, NEW h \in Handlers, Active(h), NEW v, Push(h, v)
  PROVE  Atomic!Answer(h, v)
BY DEF IInv, TypeOK, Push, Atomic!Answer, Phase, Active

\* A handler that aborts, before or after its write, gives up.
LEMMA AbortIsGiveUp ==
  ASSUME IInv, NEW h \in Handlers, Active(h), Abort(h),
         UNCHANGED rows \/ Atomic!Replaces(h)
  PROVE  Atomic!GiveUp(h)
BY DEF IInv, TypeOK, Abort, Atomic!GiveUp, Phase, Active

\* An upsert replaces the row that was compared.
LEMMA UpsertIsReplace ==
  ASSUME Alone, IInv, IsolationInv, NEW h \in Handlers,
         pc[h] = "fetched", Verdict(h).tag = "Success", Upsert(Verdict(h).note)
  PROVE  Atomic!Replaces(h)
BY UpsertReplaces, SameVerdict, SameCurrent DEF Upsert, Atomic!Replaces

\* Every step is a step of AtomicSync or changes nothing it sees.
LEMMA StepIsAtomicStep ==
  ASSUME Alone, IInv, IsolationInv, [Next]_vars
  PROVE  [Atomic!Next]_(Atomic!vars)
<1>1. CASE UNCHANGED vars
  BY <1>1 DEF vars, Atomic!vars, Phase, Active
<1>2. ASSUME NEW h \in Handlers, NEW u \in Users, NEW b \in Batches, Accept(h, u, b)
      PROVE  Atomic!Next
  <2>1. Atomic!Ask(h, u, b)
    BY <1>2 DEF Accept, Atomic!Ask, Phase, Active, IInv, TypeOK
  <2> QED
    BY <2>1 DEF Atomic!Next, Batches, Atomic!Batches
<1>3. ASSUME NEW h \in Handlers, Handle(h)
      PROVE  [Atomic!Next]_(Atomic!vars)
  <2>1. CASE Disown(h)
    <3>1. Atomic!Fail(h)
      BY <2>1, SameCurrent, SameEngine, PushIsAnswer DEF Disown, Active, Atomic!Fail, Atomic!Serving
    <3> QED
      BY <3>1 DEF Atomic!Next
  <2>2. CASE Fetch(h)
    BY <2>2 DEF Fetch, IInv, TypeOK, Phase, Active, Atomic!vars
  <2>3. CASE Store(h)
    <3>1. Atomic!Replace(h)
      BY <2>3, SameVerdict, UpsertIsReplace, PushIsAnswer DEF Store, Active, Atomic!Replace
    <3> QED
      BY <3>1 DEF Atomic!Next
  <2>4. CASE StoreFails(h)
    <3>1. Atomic!Replace(h) \/ Atomic!Fail(h)
      BY <2>4, SameVerdict, SameEngine, UpsertIsReplace, PushIsAnswer
         DEF StoreFails, Active, Atomic!Replace, Atomic!Fail
    <3> QED
      BY <3>1 DEF Atomic!Next
  <2>5. CASE Refuse(h)
    <3>1. Atomic!Refuse(h)
      BY <2>5, SameVerdict, PushIsAnswer DEF Refuse, Active, Atomic!Refuse
    <3> QED
      BY <3>1 DEF Atomic!Next
  <2>6. CASE Respond(h)
    <3>1. Len(results[h]) = Len(batch[h])
      BY <2>6 DEF Respond, IInv, LoopInv, TypeOK, Pending
    <3>2. Phase[h] = "serving" /\ Phase' = [Phase EXCEPT ![h] = "done"]
      BY <2>6 DEF Respond, IInv, TypeOK, Phase, Active
    <3>3. Atomic!Finish(h)
      BY <2>6, <3>1, <3>2 DEF Respond, Atomic!Finish
    <3> QED
      BY <3>3 DEF Atomic!Next
  <2>7. CASE Overflow(h)
    <3>1. Atomic!GiveUp(h)
      BY <2>7, AbortIsGiveUp DEF Overflow, Active
    <3> QED
      BY <3>1 DEF Atomic!Next
  <2> QED
    BY <1>3, <2>1, <2>2, <2>3, <2>4, <2>5, <2>6, <2>7 DEF Handle
<1>4. ASSUME NEW h \in Handlers, Drop(h)
      PROVE  Atomic!Next
  <2>1. Atomic!GiveUp(h)
    BY <1>4, AbortIsGiveUp, UpsertIsReplace DEF Drop
  <2> QED
    BY <2>1 DEF Atomic!Next
<1> QED
  BY <1>1, <1>2, <1>3, <1>4 DEF Next

(***************************************************************************)
(* The read, the reconciliation and the write of a handler act as the one  *)
(* compare-and-replace step that optimistic locking promises, as long as   *)
(* requests that touch the same note do not overlap and reads do not fail. *)
(***************************************************************************)
THEOREM PushIsAtomic == Alone => (Spec => ImplementsAtomicSync)
<1> SUFFICES ASSUME Alone PROVE Spec => ImplementsAtomicSync
  OBVIOUS
<1>1. Init => Atomic!Init
  BY DEF Init, Atomic!Init, Phase, Active
<1>2. IInv /\ IsolationInv /\ [Next]_vars => [Atomic!Next]_(Atomic!vars)
  BY StepIsAtomicStep
<1> QED
  BY <1>1, <1>2, IsolationInvariance, PTL DEF Spec, ImplementsAtomicSync, Atomic!Spec
===============================================================================
