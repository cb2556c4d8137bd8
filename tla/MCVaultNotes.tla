---------------------------- MODULE MCVaultNotes ----------------------------
(***************************************************************************)
(* Instances of VaultNotes for TLC.  Its liveness property rules symmetry  *)
(* out.                                                                    *)
(***************************************************************************)
EXTENDS VaultNotes, TLC
==============================================================================
