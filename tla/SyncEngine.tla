------------------------------ MODULE SyncEngine ------------------------------
(***************************************************************************)
(* The reconciliation rule of crates/sync: optimistic locking on a note's  *)
(* version counter.  It is a pure function of the note a client sent and   *)
(* of the row the server has for it.                                       *)
(***************************************************************************)
EXTENDS NyrexCore

CONSTANT
  OverflowChecks   \* TRUE for a dev build (i32 overflow panics),
                   \* FALSE for a release build (it wraps)

ASSUME ChecksIsBoolean == OverflowChecks \in BOOLEAN

(***************************************************************************)
(* SyncResult<Note>.  Panic is not a value of the Rust type: it stands for *)
(* the evaluation of version + 1 aborting the handler's task.              *)
(***************************************************************************)
Success(n)  == [tag |-> "Success", note |-> n]
Conflict(n) == [tag |-> "Conflict", note |-> n]
Error       == [tag |-> "Error"]
Panic       == [tag |-> "Panic"]

SyncResult == [tag : {"Success", "Conflict"}, note : Note] \cup {Error}

\* Mutant of NextVersion: the counter of an unbounded integer type.
UnboundedNextVersion(v) == v + 1

NextVersion(v) == IF v = MaxInt THEN MinInt ELSE v + 1

\* Mutant of ReconcileNote: the versions are not compared.
ReconcileUncompared(client, server) ==
  IF server = NoNote THEN Success(client)
  ELSE IF OverflowChecks /\ client.version = MaxInt THEN Panic
  ELSE Success([client EXCEPT !.version = NextVersion(@)])

\* SyncEngine::reconcile_note
ReconcileNote(client, server) ==
  IF server = NoNote THEN Success(client)
  ELSE IF client.version # server.version THEN Conflict(server)
  ELSE IF OverflowChecks /\ client.version = MaxInt THEN Panic
  ELSE Success([client EXCEPT !.version = NextVersion(@)])
===============================================================================
