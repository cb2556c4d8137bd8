----------------------------- MODULE MCVaultLock -----------------------------
(***************************************************************************)
(* Instances of VaultLock for TLC.                                         *)
(***************************************************************************)
EXTENDS VaultLock, TLC

\* Slots and values no action and no property tells apart.
Interchangeable == UNION {Permutations(S) : S \in {Calls, Saves, Salts, Passwords}}
==============================================================================
