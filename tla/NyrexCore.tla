------------------------------ MODULE NyrexCore ------------------------------
(***************************************************************************)
(* The domain model of crates/core: the Note record the server stores and  *)
(* the sync endpoint exchanges, with its i32 version counter.              *)
(*                                                                         *)
(* The encrypted title, the encrypted content and their nonce always       *)
(* travel together and are opaque to the server, so they are one value, a  *)
(* member of Ciphers.  Timestamps, format and tags take no part in any     *)
(* decision of the modelled code and are left out.                         *)
(***************************************************************************)
EXTENDS Integers

CONSTANTS
  Users,           \* user ids
  NoteIds,         \* note UUIDs
  Ciphers,         \* encrypted contents (title_cipher, content_cipher, nonce)
  MinInt, MaxInt,  \* i32::MIN and i32::MAX, narrowed so that TLC reaches them
  NoNote           \* the None of Option<Note>: no such row

Versions == MinInt .. MaxInt

Note == [id : NoteIds, user_id : Users, cipher : Ciphers, version : Versions]

ASSUME IntRange == MinInt \in Int /\ MaxInt \in Int /\ MinInt < MaxInt
ASSUME NoNoteIsNoNote == NoNote \notin Note
==============================================================================
