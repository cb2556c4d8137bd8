----------------------------- MODULE MCSyncNotes -----------------------------
(***************************************************************************)
(* Instances of SyncNotes for TLC.  Versions are narrowed to a few values  *)
(* around zero so that the counter reaches its maximum.                    *)
(***************************************************************************)
EXTENDS SyncNotes, TLC

CONSTANTS alice, bob, n1, n2, blue, red, h1, h2

Sent(i, u, c, v) == [id |-> i, user_id |-> u, cipher |-> c, version |-> v]

\* One id sent by two users.
OneIdTwoUsers == {Sent(n1, alice, blue, 0), Sent(n1, alice, red, 1), Sent(n1, bob, blue, 0)}

(***************************************************************************)
(* Two ids, each of one user; a user may also name the other's note.       *)
(***************************************************************************)
OwnIds == {Sent(n1, alice, blue, 0), Sent(n1, alice, red, 1), Sent(n2, bob, blue, 0)}

\* One note of one user, in two contents.
OneNote == {Sent(n1, alice, c, v) : c \in {blue, red}, v \in Versions}

\* Handlers are interchangeable: no action and no property tells them apart.
Interchangeable == Permutations(Handlers)
==============================================================================
