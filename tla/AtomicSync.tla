------------------------------ MODULE AtomicSync ------------------------------
(***************************************************************************)
(* What optimistic locking promises for POST /sync/notes: every note of a  *)
(* request is compared with the stored note and, on a match, replaces it   *)
(* in one indivisible step.  Requests may still be cut short, and a write  *)
(* may be reported as failed whether or not it was made.                   *)
(*                                                                         *)
(* This is the specification SyncNotes is measured against, not code.      *)
(***************************************************************************)
EXTENDS SyncEngine, Sequences

CONSTANTS
  Handlers,  \* requests that may be served at the same time
  Notes,     \* the notes clients send
  MaxBatch   \* notes in a request

VARIABLES
  rows,      \* note id -> the stored note, or NoNote
  phase,     \* handler -> "idle", "serving" or "done"
  session,   \* handler -> the user who is asking
  batch,     \* handler -> the notes of the request
  results    \* handler -> the verdicts so far

vars == <<rows, phase, session, batch, results>>

Batches == UNION {[1 .. n -> Notes] : n \in 0 .. MaxBatch}

Init ==
  /\ rows    = [i \in NoteIds |-> NoNote]
  /\ phase   = [h \in Handlers |-> "idle"]
  /\ session \in [Handlers -> Users]
  /\ batch   = [h \in Handlers |-> <<>>]
  /\ results = [h \in Handlers |-> <<>>]

Ask(h, u, b) ==
  /\ phase[h] # "serving"
  /\ phase'   = [phase EXCEPT ![h] = "serving"]
  /\ session' = [session EXCEPT ![h] = u]
  /\ batch'   = [batch EXCEPT ![h] = b]
  /\ results' = [results EXCEPT ![h] = <<>>]
  /\ UNCHANGED rows

Serving(h) == phase[h] = "serving" /\ Len(results[h]) < Len(batch[h])
Current(h) == batch[h][Len(results[h]) + 1]
Own(h)     == Current(h).user_id = session[h]
Verdict(h) == ReconcileNote(Current(h), rows[Current(h).id])

Answer(h, verdict) ==
  /\ results' = [results EXCEPT ![h] = Append(@, verdict)]
  /\ UNCHANGED <<phase, session, batch>>

\* The stored note has another version: it stays, and the user gets to see it.
Refuse(h) ==
  /\ Serving(h) /\ Own(h) /\ Verdict(h).tag = "Conflict"
  /\ Answer(h, Verdict(h))
  /\ UNCHANGED rows

\* Compare and replace.
Replaces(h) ==
  /\ Serving(h) /\ Own(h) /\ Verdict(h).tag = "Success"
  /\ rows' = [rows EXCEPT ![Current(h).id] = Verdict(h).note]

Replace(h) == Replaces(h) /\ (Answer(h, Verdict(h)) \/ Answer(h, Error))

\* Any note may be answered with an error: not one's own, or not written.
Fail(h) == Serving(h) /\ Answer(h, Error) /\ UNCHANGED rows

Finish(h) ==
  /\ phase[h] = "serving" /\ Len(results[h]) = Len(batch[h])
  /\ phase' = [phase EXCEPT ![h] = "done"]
  /\ UNCHANGED <<rows, session, batch, results>>

\* The request ends without an answer, possibly after a last write.
GiveUp(h) ==
  /\ phase[h] = "serving"
  /\ UNCHANGED rows \/ Replaces(h)
  /\ phase'   = [phase EXCEPT ![h] = "idle"]
  /\ batch'   = [batch EXCEPT ![h] = <<>>]
  /\ results' = [results EXCEPT ![h] = <<>>]
  /\ UNCHANGED session

Next ==
  \E h \in Handlers :
    \/ \E u \in Users, b \in Batches : Ask(h, u, b)
    \/ Refuse(h) \/ Replace(h) \/ Fail(h)
    \/ Finish(h) \/ GiveUp(h)

Spec == Init /\ [][Next]_vars
==============================================================================
