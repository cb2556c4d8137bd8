---------------------------- MODULE MCNotesClient ----------------------------
(***************************************************************************)
(* Instances of NotesClient for TLC.                                       *)
(***************************************************************************)
EXTENDS NotesClient, TLC

\* Texts and task slots no action and no property tells apart.
Interchangeable == UNION {Permutations(S) : S \in {Ciphers, Saves, Syncs}}
==============================================================================
