--------------------------- MODULE MCAttachments ---------------------------
(***************************************************************************)
(* Instances of Attachments for TLC.                                       *)
(***************************************************************************)
EXTENDS Attachments
==============================================================================
