----------------------------- MODULE TokenRotation -----------------------------
(***************************************************************************)
(* What refresh token rotation promises: a token is spent once, and what   *)
(* is spent is replaced by at most one new token of the same user.  This   *)
(* is the specification AuthServer is measured against, not code.          *)
(***************************************************************************)
CONSTANTS
  Users,    \* whom a token may be for
  Tokens,   \* refresh tokens that may ever be minted
  NoToken   \* a token not minted yet, or no token

VARIABLES
  tokens,   \* token -> [user, revoked, expired], or NoToken
  parent,   \* token -> the token it replaces, or NoToken
  owed      \* tokens spent whose replacement is still to come

vars == <<tokens, parent, owed>>

Init ==
  /\ tokens = [t \in Tokens |-> NoToken]
  /\ parent = [t \in Tokens |-> NoToken]
  /\ owed = {}

New(t, u, from) ==
  /\ tokens[t] = NoToken
  /\ tokens' = [tokens EXCEPT ![t] = [user |-> u, revoked |-> FALSE, expired |-> FALSE]]
  /\ parent' = [parent EXCEPT ![t] = from]

\* A session starts.
Grant(t, u) == New(t, u, NoToken) /\ UNCHANGED owed

\* A token is spent, with or without a replacement to come.
Spend(t) ==
  /\ tokens[t] # NoToken /\ ~tokens[t].revoked
  /\ tokens' = [tokens EXCEPT ![t].revoked = TRUE]
  /\ owed' = owed \cup {t} \/ owed' = owed
  /\ UNCHANGED parent

Replace(t, s) ==
  /\ t \in owed
  /\ New(s, tokens[t].user, t)
  /\ owed' = owed \ {t}

\* The replacement will not come.
Forfeit(t) ==
  /\ t \in owed
  /\ owed' = owed \ {t}
  /\ UNCHANGED <<tokens, parent>>

Expire(t) ==
  /\ tokens[t] # NoToken
  /\ tokens' = [tokens EXCEPT ![t].expired = TRUE]
  /\ UNCHANGED <<parent, owed>>

Next ==
  \E t \in Tokens :
    \/ \E u \in Users : Grant(t, u)
    \/ Spend(t)
    \/ \E s \in Tokens : Replace(t, s)
    \/ Forfeit(t)
    \/ Expire(t)

Spec == Init /\ [][Next]_vars
================================================================================
