----------------------------- MODULE MCAuthServer -----------------------------
(***************************************************************************)
(* Instances of AuthServer for TLC.                                        *)
(***************************************************************************)
EXTENDS AuthServer, TLC

\* Values no action and no property tells apart.
Interchangeable ==
  UNION {Permutations(S) : S \in {Handlers, Tokens, Passwords, Users}}
===============================================================================
