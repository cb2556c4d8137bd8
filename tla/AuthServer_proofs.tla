--------------------------- MODULE AuthServer_proofs ---------------------------
(***************************************************************************)
(* Theorems about AuthServer, for any number of handlers, users, passwords *)
(* and tokens.                                                             *)
(***************************************************************************)
EXTENDS AuthServer, TLAPS

USE NoAccountIsNone, NoTokenIsNone, SwitchesAreBoolean, NoTokenIsNoRow

-----------------------------------------------------------------------------
(***************************************************************************)
(* Types.                                                                  *)
(***************************************************************************)

\* Answering and going on keep the types of what a handler holds.
LEMMA AnswerType ==
  ASSUME TypeOK, NEW h \in Handlers, NEW r \in Granted \cup Denied, Answer(h, r)
  PROVE  /\ pc' \in [Handlers -> {"idle", "lookup", "insert", "revoke", "mint", "done"}]
         /\ req' \in [Handlers -> Requests \cup {NoRequest}]
         /\ reply' \in [Handlers -> Granted \cup Denied \cup {NoReply}]
BY DEF TypeOK, Answer

\* A denial keeps the types of what a handler holds.
LEMMA DenyType ==
  ASSUME TypeOK, NEW h \in Handlers, NEW s \in {401, 409, 500}, Deny(h, s)
  PROVE  /\ pc' \in [Handlers -> {"idle", "lookup", "insert", "revoke", "mint", "done"}]
         /\ req' \in [Handlers -> Requests \cup {NoRequest}]
         /\ reply' \in [Handlers -> Granted \cup Denied \cup {NoReply}]
         /\ known' \subseteq Tokens
<1>1. [status |-> s] \in Denied
  BY DEF Denied
<1>2. Answer(h, [status |-> s]) /\ known' = known
  BY DEF Deny
<1> QED
  BY <1>1, <1>2, AnswerType DEF TypeOK

\* Going on to the next statement keeps the types of what a handler holds.
LEMMA GoOnType ==
  ASSUME TypeOK, NEW h \in Handlers, NEW l \in {"insert", "revoke", "mint"}, GoOn(h, l)
  PROVE  /\ pc' \in [Handlers -> {"idle", "lookup", "insert", "revoke", "mint", "done"}]
         /\ req' \in [Handlers -> Requests \cup {NoRequest}]
         /\ reply' \in [Handlers -> Granted \cup Denied \cup {NoReply}]
         /\ known' \subseteq Tokens
BY DEF TypeOK, GoOn

\* The request a handler is serving, by its kind.
LEMMA RequestKind ==
  ASSUME TypeOK, HandlerInv, NEW h \in Handlers, pc[h] # "idle"
  PROVE  \/ req[h] \in Credentials /\ ~Serves(h, "refresh")
         \/ /\ req[h] \in Refreshes /\ Serves(h, "refresh")
            /\ req[h].token \in Tokens
            /\ tokens[req[h].token] \in Row
<1>1. req[h] \in Credentials \cup Refreshes
  BY DEF HandlerInv, Requests
<1>2. CASE req[h] \in Credentials
  BY <1>2 DEF Credentials, Serves
<1>3. CASE req[h] \in Refreshes
  <2>1. Serves(h, "refresh") /\ req[h].token \in Tokens
    BY <1>3 DEF Refreshes, Serves
  <2> QED
    BY <1>3, <2>1 DEF HandlerInv, TypeOK
<1> QED
  BY <1>1, <1>2, <1>3

\* The owner of a request is a user.
LEMMA OwnerIsUser ==
  ASSUME TypeOK, HandlerInv, NEW h \in Handlers, pc[h] # "idle"
  PROVE  Owner(h) \in Users
BY RequestKind DEF Owner, Credentials, Row

\* A statement that writes leaves tables of their types.
LEMMA WriteType ==
  ASSUME TypeOK, HandlerInv, NEW h \in Handlers, Write(h)
  PROVE  /\ accounts' \in [Users -> Passwords \cup {NoAccount}]
         /\ tokens' \in [Tokens -> Row \cup {NoToken}]
         /\ parent' \in [Tokens -> Tokens \cup {NoToken}]
<1>1. CASE Insert(h)
  <2>1. req[h] \in Credentials
    BY <1>1, RequestKind DEF Insert, HandlerInv, Serves
  <2> QED
    BY <1>1, <2>1 DEF Insert, TypeOK, Credentials
<1>2. CASE Revoke(h)
  <2>1. tokens[req[h].token] \in Row
    BY <1>2, RequestKind DEF Revoke, HandlerInv
  <2>2. [tokens[req[h].token] EXCEPT !.revoked = TRUE] \in Row
    BY <2>1 DEF Row
  <2> QED
    BY <1>2, <2>2 DEF Revoke, TypeOK
<1>3. ASSUME NEW t \in Tokens, Store(h, t)
      PROVE  /\ accounts' \in [Users -> Passwords \cup {NoAccount}]
             /\ tokens' \in [Tokens -> Row \cup {NoToken}]
             /\ parent' \in [Tokens -> Tokens \cup {NoToken}]
  <2>1. [user |-> Owner(h), revoked |-> FALSE, expired |-> FALSE] \in Row
    BY <1>3, OwnerIsUser DEF Store, Row
  <2>2. (IF Serves(h, "refresh") THEN req[h].token ELSE NoToken) \in Tokens \cup {NoToken}
    BY <1>3, RequestKind DEF Store
  <2> QED
    BY <1>3, <2>1, <2>2 DEF Store, TypeOK
<1> QED
  BY <1>1, <1>2, <1>3 DEF Write

\* Every step keeps the types.
LEMMA TypeStep == TypeOK /\ HandlerInv /\ [Next]_vars => TypeOK'
<1> SUFFICES ASSUME TypeOK, HandlerInv, [Next]_vars PROVE TypeOK'
  OBVIOUS
<1>1. CASE UNCHANGED vars
  BY <1>1 DEF TypeOK, vars
<1>2. ASSUME NEW h \in Handlers, NEW r \in Requests, Accept(h, r)
      PROVE  TypeOK'
  BY <1>2 DEF Accept, TypeOK
<1>3. ASSUME NEW h \in Handlers, Handle(h)
      PROVE  TypeOK'
  <2>1. CASE CheckFree(h)
    BY <2>1, DenyType, GoOnType DEF CheckFree, tables, TypeOK
  <2>2. CASE CheckPassword(h)
    BY <2>2, DenyType, GoOnType DEF CheckPassword, tables, TypeOK
  <2>3. CASE FindToken(h)
    BY <2>3, DenyType, GoOnType DEF FindToken, tables, TypeOK
  <2>4. CASE CreateUser(h)
    BY <2>4, DenyType, GoOnType, WriteType DEF CreateUser, Write, tables, TypeOK
  <2>5. CASE RevokeOld(h)
    BY <2>5, GoOnType, WriteType DEF RevokeOld, Write, TypeOK
  <2>6. CASE Mint(h)
    <3>1. PICK t \in Tokens :
            /\ Store(h, t)
            /\ Answer(h, [status |-> IF Serves(h, "register") THEN 201 ELSE 200, token |-> t])
            /\ known' = known \cup {t}
      BY <2>6 DEF Mint
    <3>2. [status |-> IF Serves(h, "register") THEN 201 ELSE 200, token |-> t] \in Granted
      BY DEF Granted
    <3> QED
      BY <3>1, <3>2, AnswerType, WriteType DEF Write, TypeOK
  <2>7. CASE Fail(h)
    BY <2>7, DenyType, WriteType DEF Fail, tables, TypeOK
  <2> QED
    BY <1>3, <2>1, <2>2, <2>3, <2>4, <2>5, <2>6, <2>7 DEF Handle
<1>4. ASSUME NEW h \in Handlers, Drop(h)
      PROVE  TypeOK'
  BY <1>4, WriteType DEF Drop, tables, TypeOK
<1>5. ASSUME NEW t \in Tokens, Expire(t)
      PROVE  TypeOK'
  <2>0. tokens[t] \in Row
    BY <1>5 DEF Expire, TypeOK
  <2>1. [tokens[t] EXCEPT !.expired = TRUE] \in Row
    BY <2>0 DEF Row
  <2>2. tokens' \in [Tokens -> Row \cup {NoToken}]
    BY <1>5, <2>1 DEF Expire, TypeOK
  <2>3. UNCHANGED <<accounts, parent, known, pc, req, reply>>
    BY <1>5 DEF Expire
  <2> QED
    BY <2>2, <2>3 DEF TypeOK
<1> QED
  BY <1>1, <1>2, <1>3, <1>4, <1>5 DEF Next

-----------------------------------------------------------------------------
(***************************************************************************)
(* The tables only grow: passwords, owners and parents are never changed   *)
(* and a revoked token stays revoked.                                      *)
(***************************************************************************)
Grown ==
  /\ \A u \in Users : accounts[u] # NoAccount => accounts'[u] = accounts[u]
  /\ \A t \in Tokens : tokens[t] # NoToken =>
       /\ tokens'[t] # NoToken
       /\ tokens'[t].user = tokens[t].user
       /\ tokens[t].revoked => tokens'[t].revoked
       /\ parent'[t] = parent[t]

\* Revoking and expiring a row keep its user.
LEMMA RowEdit ==
  ASSUME NEW r \in Row
  PROVE  /\ [r EXCEPT !.revoked = TRUE] \in Row
         /\ [r EXCEPT !.revoked = TRUE].user = r.user
         /\ [r EXCEPT !.revoked = TRUE].revoked
         /\ [r EXCEPT !.expired = TRUE] \in Row
         /\ [r EXCEPT !.expired = TRUE].user = r.user
         /\ r.revoked => [r EXCEPT !.expired = TRUE].revoked
         /\ [r EXCEPT !.expired = TRUE].revoked => r.revoked
BY DEF Row

\* A statement that writes keeps accounts, owners and revocations.
LEMMA WriteGrows ==
  ASSUME TypeOK, HandlerInv, NEW h \in Handlers, Write(h)
  PROVE  Grown
<1>1. CASE Insert(h)
  <2>1. \A u \in Users : accounts[u] # NoAccount => accounts'[u] = accounts[u]
    BY <1>1 DEF Insert, TypeOK
  <2>2. tokens' = tokens /\ parent' = parent
    BY <1>1 DEF Insert
  <2> QED
    BY <2>1, <2>2 DEF Grown
<1>2. CASE Revoke(h)
  <2>1. req[h].token \in Tokens /\ tokens[req[h].token] \in Row
    BY <1>2, RequestKind DEF Revoke, HandlerInv
  <2>2. \A t \in Tokens : tokens'[t] =
          IF t = req[h].token THEN [tokens[t] EXCEPT !.revoked = TRUE] ELSE tokens[t]
    BY <1>2 DEF Revoke, TypeOK
  <2>3. accounts' = accounts /\ parent' = parent
    BY <1>2 DEF Revoke
  <2>4. ASSUME NEW t \in Tokens, tokens[t] # NoToken
        PROVE  /\ tokens'[t] # NoToken
               /\ tokens'[t].user = tokens[t].user
               /\ tokens[t].revoked => tokens'[t].revoked
    <3>1. CASE t = req[h].token
      <4>1. tokens'[t] = [tokens[t] EXCEPT !.revoked = TRUE] /\ tokens[t] \in Row
        BY <2>1, <2>2, <3>1
      <4> QED
        BY <4>1, RowEdit, NoTokenIsNoRow
    <3>2. CASE t # req[h].token
      BY <2>2, <2>4, <3>2
    <3> QED
      BY <3>1, <3>2
  <2> QED
    BY <2>3, <2>4 DEF Grown
<1>3. ASSUME NEW t \in Tokens, Store(h, t)
      PROVE  Grown
  <2>1. \A s \in Tokens : tokens[s] # NoToken => tokens'[s] = tokens[s] /\ parent'[s] = parent[s]
    BY <1>3 DEF Store, TypeOK
  <2>2. accounts' = accounts
    BY <1>3 DEF Store
  <2> QED
    BY <2>1, <2>2 DEF Grown
<1> QED
  BY <1>1, <1>2, <1>3 DEF Write

\* The clock keeps accounts, owners and revocations.
LEMMA ExpireGrows ==
  ASSUME TypeOK, NEW t \in Tokens, Expire(t)
  PROVE  Grown
<1>1. tokens[t] \in Row
  BY DEF Expire, TypeOK
<1>2. \A s \in Tokens : tokens'[s] =
        IF s = t THEN [tokens[s] EXCEPT !.expired = TRUE] ELSE tokens[s]
  BY DEF Expire, TypeOK
<1>3. accounts' = accounts /\ parent' = parent
  BY DEF Expire
<1>4. ASSUME NEW s \in Tokens, tokens[s] # NoToken
      PROVE  /\ tokens'[s] # NoToken
             /\ tokens'[s].user = tokens[s].user
             /\ tokens[s].revoked => tokens'[s].revoked
  <2>1. CASE s = t
    <3>1. tokens'[s] = [tokens[s] EXCEPT !.expired = TRUE] /\ tokens[s] \in Row
      BY <1>1, <1>2, <2>1
    <3> QED
      BY <3>1, RowEdit, NoTokenIsNoRow
  <2>2. CASE s # t
    BY <1>2, <1>4, <2>2
  <2> QED
    BY <2>1, <2>2
<1> QED
  BY <1>3, <1>4 DEF Grown

\* So does a step that writes nothing.
LEMMA StandsGrown == UNCHANGED tables => Grown
BY DEF tables, Grown

\* A step of a handler leaves the tables alone or is its write.
LEMMA TablesStep ==
  ASSUME NEW h \in Handlers,
         Handle(h) \/ Drop(h) \/ \E r \in Requests : Accept(h, r)
  PROVE  UNCHANGED tables \/ Write(h)
BY DEF Handle, CheckFree, CheckPassword, FindToken, CreateUser, RevokeOld, Mint, Fail, Drop,
   Accept, Write, tables

\* Every step keeps accounts, owners and revocations.
LEMMA Growth == TypeOK /\ HandlerInv /\ [Next]_vars => Grown
<1> SUFFICES ASSUME TypeOK, HandlerInv, [Next]_vars PROVE Grown
  OBVIOUS
<1>1. CASE UNCHANGED vars
  BY <1>1, StandsGrown DEF vars, tables
<1>2. ASSUME NEW h \in Handlers,
             Handle(h) \/ Drop(h) \/ \E r \in Requests : Accept(h, r)
      PROVE  Grown
  BY <1>2, TablesStep, WriteGrows, StandsGrown
<1>3. ASSUME NEW t \in Tokens, Expire(t)
      PROVE  Grown
  BY <1>3, ExpireGrows
<1> QED
  BY <1>1, <1>2, <1>3 DEF Next

(***************************************************************************)
(* What the invariant says about one handler.                              *)
(***************************************************************************)
HInv(h) ==
  /\ pc[h] # "idle" => req[h] \in Requests
  /\ pc[h] = "insert" => Serves(h, "register")
  /\ pc[h] = "revoke" => Serves(h, "refresh")
  /\ pc[h] # "idle" /\ Serves(h, "refresh") => tokens[req[h].token] # NoToken
  /\ pc[h] = "mint" => IF Serves(h, "refresh")
                       THEN tokens[req[h].token].revoked
                       ELSE accounts[req[h].user] = req[h].password
  /\ reply[h] \in Granted => tokens[reply[h].token] # NoToken
  /\ pc[h] = "done" /\ reply[h] \in Granted /\ req[h] \in Credentials =>
       /\ accounts[req[h].user] = req[h].password
       /\ tokens[reply[h].token].user = req[h].user

\* What holds of a handler outlives the steps of others.
LEMMA OthersKeepHInv ==
  ASSUME TypeOK, HandlerInv, Grown, NEW g \in Handlers, HInv(g),
         pc'[g] = pc[g], req'[g] = req[g], reply'[g] = reply[g]
  PROVE  HInv(g)'
<1>1. pc[g] # "idle" => \/ req[g] \in Credentials /\ req[g].op # "refresh"
                        \/ req[g] \in Refreshes /\ req[g].op = "refresh"
  BY RequestKind DEF Serves
<1>2. req[g] \in Credentials =>
        /\ req[g].user \in Users /\ req[g].password \in Passwords /\ req[g].password # NoAccount
  BY DEF Credentials
<1>3. req[g] \in Refreshes => req[g].token \in Tokens
  BY DEF Refreshes
<1>4. reply[g] \in Granted => reply[g].token \in Tokens
  BY DEF Granted
<1> QED
  BY <1>1, <1>2, <1>3, <1>4 DEF HInv, Grown, Serves

\* A denial leaves the handler with nothing to vouch for.
LEMMA DenyHInv ==
  ASSUME TypeOK, HandlerInv, Grown, NEW h \in Handlers, HInv(h), pc[h] # "idle",
         NEW s \in {401, 409, 500}, Deny(h, s)
  PROVE  HInv(h)'
<1>1. pc'[h] = "done" /\ req'[h] = req[h] /\ reply'[h] = [status |-> s]
  BY DEF Deny, Answer, TypeOK
<1>2. reply'[h] \notin Granted
  BY <1>1 DEF Granted
<1>3. Serves(h, "refresh") => tokens[req[h].token] # NoToken /\ req[h].token \in Tokens
  BY RequestKind DEF Serves, Credentials
<1> QED
  BY <1>1, <1>2, <1>3 DEF HInv, Serves, Grown

\* An accepted request has nothing to vouch for yet.
LEMMA AcceptHInv ==
  ASSUME TypeOK, HandlerInv, NEW h \in Handlers, NEW r \in Requests, Accept(h, r)
  PROVE  HInv(h)'
<1>1. /\ pc'[h] = "lookup" /\ req'[h] = r /\ reply'[h] = NoReply
      /\ UNCHANGED <<accounts, tokens, known>>
      /\ r.op = "refresh" => r.token \in known
  BY DEF Accept, TypeOK
<1>2. NoReply \notin Granted
  BY DEF NoReply, Granted
<1> QED
  BY <1>1, <1>2 DEF HInv, Serves, HandlerInv

\* Every statement of a handler keeps what holds of it.
LEMMA HandleHInv ==
  ASSUME TypeOK, HandlerInv, Grown, NEW h \in Handlers, HInv(h), Handle(h)
  PROVE  HInv(h)'
<1>0. pc[h] # "idle"
  BY DEF Handle, CheckFree, CheckPassword, FindToken, CreateUser, RevokeOld, Mint, Fail,
     Insert, Revoke, Store
<1>r. \/ req[h] \in Credentials /\ ~Serves(h, "refresh")
      \/ /\ req[h] \in Refreshes /\ Serves(h, "refresh")
         /\ req[h].token \in Tokens /\ tokens[req[h].token] \in Row
  BY <1>0, RequestKind
<1>1. CASE \E s \in {401, 409, 500} : Deny(h, s)
  BY <1>0, <1>1, DenyHInv
<1>2. CASE CheckFree(h) /\ GoOn(h, "insert")
  BY <1>0, <1>r, <1>2 DEF CheckFree, GoOn, tables, TypeOK, HInv, Serves
<1>3. CASE CheckPassword(h) /\ GoOn(h, "mint")
  <2>1. accounts[req[h].user] = req[h].password \/ \E s \in {401, 409, 500} : Deny(h, s)
    BY <1>3 DEF CheckPassword
  <2>2. CASE accounts[req[h].user] = req[h].password
    BY <1>0, <1>r, <1>3, <2>2 DEF CheckPassword, GoOn, tables, TypeOK, HInv, Serves
  <2> QED
    BY <1>1, <2>1, <2>2
<1>4. CASE FindToken(h) /\ GoOn(h, "revoke")
  BY <1>0, <1>r, <1>4 DEF FindToken, GoOn, tables, TypeOK, HInv, Serves
<1>5. CASE Insert(h) /\ GoOn(h, "mint")
  <2>1. Serves(h, "register") /\ req[h].user \in Users
    BY <1>r, <1>5 DEF Insert, HInv, Serves, Credentials, Refreshes
  <2>2. accounts'[req[h].user] = req[h].password
    BY <1>5, <2>1 DEF Insert, TypeOK
  <2>3. /\ pc'[h] = "mint" /\ req'[h] = req[h] /\ reply'[h] = reply[h]
        /\ tokens' = tokens
    BY <1>5 DEF Insert, GoOn, TypeOK
  <2> QED
    BY <1>0, <1>r, <2>1, <2>2, <2>3 DEF HInv, Serves
<1>6. CASE RevokeOld(h)
  <2>1. Serves(h, "refresh") /\ req[h].token \in Tokens
    BY <1>r, <1>6 DEF RevokeOld, Revoke, HInv
  <2>2. tokens'[req[h].token] = [tokens[req[h].token] EXCEPT !.revoked = TRUE]
    BY <1>6, <2>1 DEF RevokeOld, Revoke, TypeOK
  <2>3. tokens'[req[h].token].revoked
    BY <1>r, <2>1, <2>2, RowEdit
  <2>4. pc'[h] = "mint" /\ req'[h] = req[h] /\ reply'[h] = reply[h]
    BY <1>6 DEF RevokeOld, GoOn, TypeOK
  <2>5. reply[h] \in Granted => reply[h].token \in Tokens
    BY DEF Granted
  <2> QED
    BY <1>0, <2>1, <2>3, <2>4, <2>5 DEF HInv, Serves, Grown
<1>7. CASE Mint(h)
  <2>1. PICK t \in Tokens :
          /\ Store(h, t)
          /\ Answer(h, [status |-> IF Serves(h, "register") THEN 201 ELSE 200, token |-> t])
    BY <1>7 DEF Mint
  <2>2. /\ pc[h] = "mint" /\ pc'[h] = "done" /\ req'[h] = req[h] /\ reply'[h].token = t
        /\ tokens'[t] = [user |-> Owner(h), revoked |-> FALSE, expired |-> FALSE]
        /\ accounts' = accounts
    BY <2>1 DEF Store, Answer, TypeOK
  <2>3. tokens'[t] # NoToken /\ tokens'[t].user = Owner(h)
    <3>1. [user |-> Owner(h), revoked |-> FALSE, expired |-> FALSE] \in Row
      BY <1>0, OwnerIsUser DEF Row
    <3>2. tokens'[t] \in Row
      BY <2>2, <3>1, Zenon
    <3>3. tokens'[t].user = Owner(h)
      BY <2>2
    <3> QED
      BY <3>2, <3>3
  <2>4. Serves(h, "refresh") => tokens'[req[h].token] # NoToken
    BY <1>0, <1>r DEF HInv, Grown
  <2>5. req[h] \in Credentials =>
          Owner(h) = req[h].user /\ accounts[req[h].user] = req[h].password
    BY <2>2 DEF Owner, HInv, Serves, Credentials
  <2> QED
    BY <1>0, <2>2, <2>3, <2>4, <2>5 DEF HInv, Serves
<1>8. \/ \E s \in {401, 409, 500} : Deny(h, s)
      \/ CheckFree(h) /\ GoOn(h, "insert")
      \/ CheckPassword(h) /\ GoOn(h, "mint")
      \/ FindToken(h) /\ GoOn(h, "revoke")
      \/ Insert(h) /\ GoOn(h, "mint")
      \/ RevokeOld(h)
      \/ Mint(h)
  BY DEF Handle, CheckFree, CheckPassword, FindToken, CreateUser, Fail
<1> QED
  BY <1>1, <1>2, <1>3, <1>4, <1>5, <1>6, <1>7, <1>8

\* A dropped request has nothing to vouch for.
LEMMA DropHInv ==
  ASSUME TypeOK, NEW h \in Handlers, Drop(h)
  PROVE  HInv(h)'
BY DEF Drop, TypeOK, HInv, NoReply, Granted

\* The steps of one handler leave the others where they are.
LEMMA OthersStay ==
  ASSUME TypeOK, NEW h \in Handlers, NEW g \in Handlers \ {h},
         Handle(h) \/ Drop(h) \/ \E r \in Requests : Accept(h, r)
  PROVE  pc'[g] = pc[g] /\ req'[g] = req[g] /\ reply'[g] = reply[g]
BY DEF TypeOK, Handle, CheckFree, CheckPassword, FindToken, CreateUser, RevokeOld, Mint, Fail,
   Drop, Accept, Deny, Answer, GoOn

\* Every step keeps what holds of each handler.
LEMMA HInvStep ==
  ASSUME TypeOK, HandlerInv, [Next]_vars, NEW g \in Handlers, HInv(g)
  PROVE  HInv(g)'
<1>0. Grown
  BY Growth
<1>1. CASE UNCHANGED <<pc[g], req[g], reply[g]>>
  BY <1>0, <1>1, OthersKeepHInv
<1>2. ASSUME NEW h \in Handlers,
             Handle(h) \/ Drop(h) \/ \E r \in Requests : Accept(h, r)
      PROVE  HInv(g)'
  BY <1>0, <1>1, <1>2, OthersStay, HandleHInv, DropHInv, AcceptHInv
<1>3. UNCHANGED vars \/ (\E t \in Tokens : Expire(t)) => UNCHANGED <<pc[g], req[g], reply[g]>>
  BY DEF vars, Expire
<1> QED
  BY <1>1, <1>2, <1>3 DEF Next

-----------------------------------------------------------------------------
(***************************************************************************)
(* The inductive invariant.  HInv splits it by handler; what is left is    *)
(* about the tables alone.                                                 *)
(***************************************************************************)
TablesInv ==
  /\ \A t \in known : tokens[t] # NoToken
  /\ \A t \in Tokens : parent[t] # NoToken => tokens[t] # NoToken
  /\ FamiliesHaveOneUser

\* The inductive invariant, with what it says of one handler on its own.
LEMMA IInvByHandler ==
  IInv <=> TypeOK /\ TablesInv /\ \A h \in Handlers : HInv(h)
BY DEF IInv, HandlerInv, GrantsMatchPasswords, TablesInv, HInv

\* A new token is for the user of the token it was exchanged for, if any.
LEMMA StoreKeepsTables ==
  ASSUME TypeOK, HandlerInv, TablesInv, Grown, NEW h \in Handlers, HInv(h),
         NEW t \in Tokens, Store(h, t)
  PROVE  /\ \A s \in Tokens : parent'[s] # NoToken => tokens'[s] # NoToken
         /\ FamiliesHaveOneUser'
<1>1. [user |-> Owner(h), revoked |-> FALSE, expired |-> FALSE] \in Row
  BY OwnerIsUser DEF Store, Row
<1>2. /\ tokens'[t] = [user |-> Owner(h), revoked |-> FALSE, expired |-> FALSE]
      /\ tokens'[t] # NoToken
      /\ parent'[t] = IF Serves(h, "refresh") THEN req[h].token ELSE NoToken
      /\ \A s \in Tokens \ {t} : tokens'[s] = tokens[s] /\ parent'[s] = parent[s]
  BY <1>1 DEF Store, TypeOK
<1>3. \A s \in Tokens : parent'[s] # NoToken => tokens'[s] # NoToken
  BY <1>2 DEF TablesInv
<1>4. ASSUME NEW s \in Tokens, parent'[s] # NoToken
      PROVE  /\ tokens'[parent'[s]] # NoToken /\ tokens'[parent'[s]].revoked
             /\ tokens'[s].user = tokens'[parent'[s]].user
  <2>1. CASE s = t
    <3>1. Serves(h, "refresh") /\ parent'[t] = req[h].token
      BY <1>2, <1>4, <2>1
    <3>2. req[h].token \in Tokens /\ tokens[req[h].token] # NoToken
      BY <3>1, RequestKind DEF Store
    <3>3. tokens[req[h].token].revoked
      BY <3>1 DEF HInv, Store
    <3>4. tokens'[t].user = tokens[req[h].token].user
      BY <1>2, <3>1 DEF Owner
    <3> QED
      BY <2>1, <3>1, <3>2, <3>3, <3>4 DEF Grown
  <2>2. CASE s # t
    <3>1. parent'[s] = parent[s] /\ parent[s] \in Tokens /\ tokens'[s] = tokens[s]
      BY <1>2, <1>4, <2>2 DEF TypeOK
    <3> QED
      BY <1>4, <3>1 DEF TablesInv, FamiliesHaveOneUser, Grown
  <2> QED
    BY <2>1, <2>2
<1> QED
  BY <1>3, <1>4 DEF FamiliesHaveOneUser

\* Without a new token the families stay, their rows only grow.
LEMMA ParentsStand ==
  ASSUME TypeOK, TablesInv, Grown, parent' = parent
  PROVE  /\ \A s \in Tokens : parent'[s] # NoToken => tokens'[s] # NoToken
         /\ FamiliesHaveOneUser'
<1>1. ASSUME NEW s \in Tokens, parent'[s] # NoToken
      PROVE  parent[s] # NoToken /\ parent[s] \in Tokens /\ parent'[s] = parent[s]
  BY <1>1 DEF TypeOK
<1>2. ASSUME NEW s \in Tokens, parent'[s] # NoToken
      PROVE  tokens[s] # NoToken /\ tokens[parent[s]] # NoToken
  BY <1>1, <1>2 DEF TablesInv, FamiliesHaveOneUser
<1>3. ASSUME NEW s \in Tokens, parent'[s] # NoToken
      PROVE  /\ tokens'[s] # NoToken
             /\ tokens'[parent[s]] # NoToken /\ tokens'[parent[s]].revoked
             /\ tokens'[s].user = tokens'[parent[s]].user
  <2>1. tokens[parent[s]].revoked /\ tokens[s].user = tokens[parent[s]].user
    BY <1>1, <1>3 DEF TablesInv, FamiliesHaveOneUser
  <2> QED
    BY <1>1, <1>2, <1>3, <2>1 DEF Grown
<1> QED
  BY <1>1, <1>3 DEF FamiliesHaveOneUser

\* Only Mint hands out a token, the one it has stored.
LEMMA KnownGrows ==
  ASSUME TypeOK, [Next]_vars
  PROVE  known' = known \/ \E h \in Handlers, t \in Tokens : Store(h, t) /\ known' = known \cup {t}
<1>1. ASSUME NEW h \in Handlers, Mint(h)
      PROVE  \E t \in Tokens : Store(h, t) /\ known' = known \cup {t}
  BY <1>1 DEF Mint
<1>2. ASSUME NEW h \in Handlers, CheckFree(h) \/ CheckPassword(h) \/ FindToken(h)
      PROVE  known' = known
  BY <1>2 DEF CheckFree, CheckPassword, FindToken, Deny, GoOn
<1>3. ASSUME NEW h \in Handlers, CreateUser(h) \/ RevokeOld(h) \/ Fail(h) \/ Drop(h)
      PROVE  known' = known
  BY <1>3 DEF CreateUser, RevokeOld, Fail, Drop, Deny, GoOn
<1>4. ASSUME NEW h \in Handlers, NEW r \in Requests, Accept(h, r)
      PROVE  known' = known
  BY <1>4 DEF Accept
<1>5. ASSUME NEW t \in Tokens, Expire(t)
      PROVE  known' = known
  BY <1>5 DEF Expire
<1>6. CASE UNCHANGED vars
  BY <1>6 DEF vars
<1> QED
  BY <1>1, <1>2, <1>3, <1>4, <1>5, <1>6 DEF Next, Handle

\* Only the statement that stores a token gives it a parent.
LEMMA ParentGrows ==
  ASSUME [Next]_vars
  PROVE  parent' = parent \/ \E h \in Handlers, t \in Tokens : Store(h, t)
BY TablesStep DEF Next, vars, Expire, Write, Insert, Revoke, tables

\* Every step keeps families in the hands of one user.
LEMMA TablesInvStep ==
  ASSUME TypeOK, HandlerInv, TablesInv, [Next]_vars, \A h \in Handlers : HInv(h)
  PROVE  TablesInv'
<1>1. Grown
  BY Growth
<1>2. /\ \A s \in Tokens : parent'[s] # NoToken => tokens'[s] # NoToken
      /\ FamiliesHaveOneUser'
  BY <1>1, ParentGrows, ParentsStand, StoreKeepsTables
<1>3. \A t \in known' : tokens'[t] # NoToken
  <2>1. CASE known' = known
    BY <1>1, <2>1 DEF TypeOK, TablesInv, Grown
  <2>2. ASSUME NEW h \in Handlers, NEW t \in Tokens, Store(h, t), known' = known \cup {t}
        PROVE  \A s \in known' : tokens'[s] # NoToken
    <3>1. [user |-> Owner(h), revoked |-> FALSE, expired |-> FALSE] \in Row
      BY <2>2, OwnerIsUser DEF Store, Row
    <3>2. tokens'[t] # NoToken
      BY <2>2, <3>1 DEF Store, TypeOK
    <3> QED
      BY <1>1, <2>2, <3>2 DEF TypeOK, TablesInv, Grown
  <2> QED
    BY <2>1, <2>2, KnownGrows
<1> QED
  BY <1>2, <1>3 DEF TablesInv

\* The inductive invariant holds initially.
LEMMA Initially == Init => IInv
BY DEF Init, IInv, TypeOK, HandlerInv, GrantsMatchPasswords, FamiliesHaveOneUser, NoReply,
   Granted

\* Every step keeps the inductive invariant.
LEMMA Inductive == IInv /\ [Next]_vars => IInv'
<1> SUFFICES ASSUME IInv, [Next]_vars PROVE IInv'
  OBVIOUS
<1>1. TypeOK /\ HandlerInv
  BY DEF IInv
<1>2. TablesInv /\ \A h \in Handlers : HInv(h)
  BY IInvByHandler
<1>3. TypeOK' /\ TablesInv' /\ \A h \in Handlers : HInv(h)'
  BY <1>1, <1>2, TypeStep, TablesInvStep, HInvStep
<1> QED
  BY <1>3 DEF IInv, HandlerInv, GrantsMatchPasswords, TablesInv, HInv

\* The inductive invariant always holds.
LEMMA Always == Spec => []IInv
BY Initially, Inductive, PTL DEF Spec

-----------------------------------------------------------------------------
(***************************************************************************)
(* The variables of the service always have their types.                   *)
(***************************************************************************)
THEOREM TypeCorrect == Spec => []TypeOK
<1>1. IInv => TypeOK
  BY DEF IInv
<1> QED
  BY <1>1, Always, PTL

(***************************************************************************)
(* register and login grant a pair only for the password that the account  *)
(* keeps, however many of them overlap.                                    *)
(***************************************************************************)
THEOREM GrantsAreEarned == Spec => []GrantsMatchPasswords
<1>1. IInv => GrantsMatchPasswords
  BY DEF IInv
<1> QED
  BY <1>1, Always, PTL

(***************************************************************************)
(* A token got by a refresh is for the user of the token it was got with,  *)
(* which is revoked.                                                       *)
(***************************************************************************)
THEOREM SessionsStayWithTheirUser == Spec => []FamiliesHaveOneUser
<1>1. IInv => FamiliesHaveOneUser
  BY DEF IInv
<1> QED
  BY <1>1, Always, PTL

-----------------------------------------------------------------------------
(***************************************************************************)
(* Revocation.  A handler comes to hold a token by finding it valid, so a  *)
(* revoked token that no handler holds is never held again.                *)
(***************************************************************************)
LEMMA HeldWasFoundValid ==
  ASSUME TypeOK, HandlerInv, [Next]_vars, NEW h \in Handlers, NEW t \in Tokens,
         FoundValid(h, t)'
  PROVE  FoundValid(h, t) \/ (Valid(t) /\ FindToken(h))
<1>1. CASE UNCHANGED <<pc[h], req[h]>>
  BY <1>1 DEF FoundValid, Presents, Active, Serves
<1>2. CASE Handle(h) \/ Drop(h) \/ \E r \in Requests : Accept(h, r)
  BY <1>2 DEF FoundValid, Presents, Active, Serves, TypeOK, Handle, CheckFree, CheckPassword,
     FindToken, CreateUser, RevokeOld, Revoke, Insert, Store, Mint, Fail, Drop, Accept, Deny,
     Answer, GoOn, HandlerInv, tables
<1>3. UNCHANGED vars \/ (\E s \in Tokens : Expire(s)) => UNCHANGED <<pc[h], req[h]>>
  BY DEF vars, Expire
<1> QED
  BY <1>1, <1>2, <1>3, OthersStay DEF Next

\* A token is stored by the handler that presents its parent.
LEMMA HolderMints ==
  ASSUME TypeOK, HandlerInv, NEW h \in Handlers, NEW s \in Tokens, Store(h, s)
  PROVE  /\ parent[s] = NoToken
         /\ parent'[s] # NoToken => pc[h] = "mint" /\ Presents(h, parent'[s])
         /\ \A r \in Tokens \ {s} : parent'[r] = parent[r]
BY DEF Store, TypeOK, HandlerInv, Presents, Active, Serves

\* A revoked token that nobody holds stays so and gets no children.
LEMMA DeadStaysDead ==
  ASSUME TypeOK, HandlerInv, [Next]_vars, NEW t \in Tokens, Dead(t)
  PROVE  Dead(t)' /\ Children(t)' = Children(t)
<1>1. tokens'[t] # NoToken /\ tokens'[t].revoked
  BY Growth DEF Grown, Dead
<1>2. \A h \in Handlers : ~FoundValid(h, t)'
  BY HeldWasFoundValid DEF Dead, Valid
<1>3. Children(t)' = Children(t)
  <2>1. CASE parent' = parent
    BY <2>1 DEF Children
  <2>2. ASSUME NEW h \in Handlers, NEW s \in Tokens, Store(h, s)
        PROVE  Children(t)' = Children(t)
    BY <2>2, HolderMints DEF Children, Dead, FoundValid
  <2> QED
    BY <2>1, <2>2, ParentGrows
<1> QED
  BY <1>1, <1>2, <1>3 DEF Dead

(***************************************************************************)
(* A revoked token that nobody found valid before buys nothing any more.   *)
(***************************************************************************)
THEOREM RevocationIsFinal == Spec => RevokedBuysNothing
<1>1. IInv /\ [Next]_vars => [\A t \in Tokens : Dead(t) => Dead(t)' /\ Children(t)' = Children(t)]_vars
  BY DeadStaysDead DEF IInv
<1> QED
  BY <1>1, Always, PTL DEF Spec, RevokedBuysNothing

-----------------------------------------------------------------------------
(***************************************************************************)
(* Rotation, when no token is presented twice at the same time.            *)
(***************************************************************************)
LEMMA PresentedIsAccepted ==
  ASSUME TypeOK, [Next]_vars, NEW h \in Handlers, NEW t \in Tokens, Presents(h, t)'
  PROVE  \/ Presents(h, t)
         \/ \E r \in Requests : Accept(h, r) /\ r.op = "refresh" /\ r.token = t
<1>1. CASE UNCHANGED <<pc[h], req[h]>>
  BY <1>1 DEF Presents, Active, Serves
<1>2. CASE Handle(h) \/ Drop(h)
  BY <1>2 DEF Presents, Active, Serves, TypeOK, Handle, CheckFree, CheckPassword,
     FindToken, CreateUser, RevokeOld, Revoke, Insert, Store, Mint, Fail, Drop, Deny,
     Answer, GoOn
<1>3. ASSUME NEW r \in Requests, Accept(h, r)
      PROVE  r.op = "refresh" /\ r.token = t
  BY <1>3 DEF Accept, Presents, Active, Serves, TypeOK
<1>4. UNCHANGED vars \/ (\E s \in Tokens : Expire(s)) => UNCHANGED <<pc[h], req[h]>>
  BY DEF vars, Expire
<1> QED
  BY <1>1, <1>2, <1>3, <1>4, OthersStay DEF Next

\* Only the handler that revokes a token makes it revoked.
LEMMA RevokedByItsHolder ==
  ASSUME TypeOK, HandlerInv, [Next]_vars, NEW t \in Tokens, tokens[t] # NoToken,
         ~tokens[t].revoked, tokens'[t].revoked
  PROVE  \E h \in Handlers : (Handle(h) \/ Drop(h)) /\ Revoke(h) /\ Presents(h, t)
<1>1. ASSUME NEW h \in Handlers, Write(h)
      PROVE  Revoke(h) /\ Presents(h, t)
  <2>1. tokens'[t] # tokens[t]
    OBVIOUS
  <2>2. CASE Insert(h)
    BY <2>1, <2>2 DEF Insert
  <2>3. CASE Revoke(h)
    BY <2>1, <2>3 DEF Revoke, TypeOK, HandlerInv, Presents, Active, Serves
  <2>4. ASSUME NEW s \in Tokens, Store(h, s) PROVE FALSE
    BY <2>1, <2>4 DEF Store, TypeOK
  <2> QED
    BY <1>1, <2>2, <2>3, <2>4 DEF Write
<1>2. tokens[t] \in Row /\ tokens' # tokens
  BY DEF TypeOK
<1>3. \A s \in Tokens : ~Expire(s)
  <2> SUFFICES ASSUME NEW s \in Tokens, Expire(s) PROVE FALSE
    OBVIOUS
  <2>1. tokens'[t] = tokens[t] \/ tokens'[t] = [tokens[t] EXCEPT !.expired = TRUE]
    BY DEF Expire, TypeOK
  <2>2. [tokens[t] EXCEPT !.expired = TRUE].revoked => tokens[t].revoked
    BY <1>2, RowEdit
  <2> QED
    BY <2>1, <2>2
<1>4. \A h \in Handlers, r \in Requests : ~Accept(h, r)
  BY <1>2 DEF Accept
<1> QED
  BY <1>1, <1>2, <1>3, <1>4, TablesStep DEF Next, vars, tables

\* A token that was never revoked has not been exchanged either.
LEMMA UnspentHasNoChild ==
  ASSUME FamiliesHaveOneUser, NEW t \in Tokens, ~tokens[t].revoked
  PROVE  Children(t) = {}
BY NoTokenIsNone DEF FamiliesHaveOneUser, Children

\* If no token is presented twice at a time, one handler presents it.
LEMMA OnePresenter ==
  ASSUME OneAtATime, TypeOK, ExchangeInv, [Next]_vars,
         NEW g \in Handlers, NEW h \in Handlers, NEW t \in Tokens,
         Presents(g, t)', Presents(h, t)'
  PROVE  g = h
<1> SUFFICES ASSUME g # h PROVE FALSE
  OBVIOUS
<1>1. ASSUME NEW k \in Handlers, NEW l \in Handlers, k # l, Presents(k, t)', Presents(l, t)',
             NEW r \in Requests, Accept(k, r), r.op = "refresh", r.token = t
      PROVE  FALSE
  <2>1. ~Presents(l, t)
    BY <1>1 DEF Accept
  <2>2. pc'[l] = pc[l] /\ req'[l] = req[l]
    BY <1>1, OthersStay
  <2> QED
    BY <1>1, <2>1, <2>2 DEF Presents, Active, Serves
<1>2. Presents(g, t) /\ Presents(h, t)
  BY <1>1, PresentedIsAccepted
<1> QED
  BY <1>2 DEF ExchangeInv

\* After its write a handler is no longer at the statement it was at.
LEMMA WriteMovesOn ==
  ASSUME TypeOK, NEW h \in Handlers, Handle(h) \/ Drop(h), Write(h), ~UNCHANGED tables
  PROVE  pc'[h] # pc[h] /\ (pc[h] = "mint" => pc'[h] \in {"idle", "done"})
BY DEF TypeOK, Handle, CheckFree, CheckPassword, FindToken, CreateUser, RevokeOld, Mint, Fail,
   Drop, Deny, Answer, GoOn, Write, Insert, Revoke, Store

\* A token that is about to be revoked is not revoked yet.
LEMMA RevokingIsFresh ==
  ASSUME OneAtATime, IInv, RotationInv, [Next]_vars, NEW h \in Handlers, NEW t \in Tokens,
         Presents(h, t)', pc'[h] = "revoke"
  PROVE  ~tokens'[t].revoked
<1> USE DEF IInv
<1>1. FoundValid(h, t)'
  BY DEF FoundValid
<1>2. CASE Valid(t) /\ FindToken(h)
  BY <1>2 DEF FindToken, Valid, tables
<1>3. CASE FoundValid(h, t)
  <2>1. pc[h] = "revoke"
    <3>1. pc[h] = "mint" => pc'[h] # "revoke"
      <4>1. CASE UNCHANGED pc[h]
        BY <4>1
      <4>2. CASE Handle(h) \/ Drop(h) \/ \E r \in Requests : Accept(h, r)
        BY <4>2 DEF TypeOK, Handle, CheckFree, CheckPassword, FindToken, CreateUser, RevokeOld,
           Revoke, Mint, Fail, Drop, Deny, Answer, GoOn, Accept
      <4>3. UNCHANGED vars \/ (\E s \in Tokens : Expire(s)) => UNCHANGED pc[h]
        BY DEF vars, Expire
      <4> QED
        BY <4>1, <4>2, <4>3, OthersStay DEF Next
    <3> QED
      BY <1>3, <3>1 DEF FoundValid
  <2>2. tokens[t] # NoToken /\ ~tokens[t].revoked
    BY <1>3, <2>1 DEF FoundValid, RotationInv, HandlerInv, Presents, Active, Serves
  <2> SUFFICES ASSUME tokens'[t].revoked PROVE FALSE
    OBVIOUS
  <2>3. PICK g \in Handlers : (Handle(g) \/ Drop(g)) /\ Revoke(g) /\ Presents(g, t)
    BY <2>2, RevokedByItsHolder
  <2>4. g = h
    BY <1>3, <2>3 DEF RotationInv, ExchangeInv, FoundValid
  <2>5. ~UNCHANGED tables
    BY <2>2 DEF tables
  <2> QED
    BY <2>1, <2>3, <2>4, <2>5, WriteMovesOn DEF Write
<1> QED
  BY <1>1, <1>2, <1>3, HeldWasFoundValid

\* Storing a token is the last a handler does for a request.
LEMMA StoreIsLast ==
  ASSUME TypeOK, NEW h \in Handlers, NEW s \in Tokens, Store(h, s), Handle(h) \/ Drop(h)
  PROVE  pc'[h] \in {"idle", "done"}
<1>1. pc[h] = "mint"
  BY DEF Store
<1>2. pc \in [Handlers -> {"idle", "lookup", "insert", "revoke", "mint", "done"}]
  BY DEF TypeOK
<1>3. CASE Mint(h) \/ Fail(h)
  BY <1>2, <1>3 DEF Mint, Fail, Deny, Answer
<1>4. CASE Drop(h)
  BY <1>2, <1>4 DEF Drop
<1>5. ~(CheckFree(h) \/ CheckPassword(h) \/ FindToken(h) \/ CreateUser(h) \/ RevokeOld(h))
  BY <1>1 DEF CheckFree, CheckPassword, FindToken, CreateUser, RevokeOld, Revoke
<1> QED
  BY <1>3, <1>4, <1>5 DEF Handle

\* A token that was found valid has not been exchanged yet.
LEMMA HeldHasNoChild ==
  ASSUME OneAtATime, IInv, ExchangeInv, [Next]_vars, NEW h \in Handlers, NEW t \in Tokens,
         FoundValid(h, t)'
  PROVE  Children(t)' = {}
<1> USE DEF IInv
<1>1. Children(t) = {}
  <2>1. CASE FoundValid(h, t)
    BY <2>1 DEF ExchangeInv
  <2>2. CASE Valid(t)
    BY <2>2, UnspentHasNoChild DEF Valid
  <2> QED
    BY <2>1, <2>2, HeldWasFoundValid
<1>2. CASE parent' = parent
  BY <1>1, <1>2 DEF Children
<1>3. ASSUME NEW g \in Handlers, NEW s \in Tokens, Store(g, s), Handle(g) \/ Drop(g)
      PROVE  Children(t)' = {}
  <2>1. CASE parent'[s] = t
    <3>1. pc[g] = "mint" /\ Presents(g, t)
      BY <1>3, <2>1, HolderMints, NoTokenIsNone
    <3>2. CASE FoundValid(h, t)
      <4>1. g = h
        BY <3>1, <3>2 DEF ExchangeInv, FoundValid
      <4>2. pc'[g] \in {"idle", "done"}
        BY <1>3, StoreIsLast
      <4> QED
        BY <4>1, <4>2 DEF FoundValid
    <3>3. CASE FindToken(h)
      <4>1. pc[h] = "lookup"
        BY <3>3 DEF FindToken
      <4>2. g # h
        BY <3>1, <4>1
      <4>3. UNCHANGED parent
        BY <3>3 DEF FindToken, tables
      <4> QED
        BY <1>2, <4>3
    <3> QED
      BY <3>2, <3>3, HeldWasFoundValid
  <2>2. CASE parent'[s] # t
    BY <1>1, <1>3, <2>2, HolderMints DEF Children
  <2> QED
    BY <2>1, <2>2
<1>4. parent' = parent \/ \E g \in Handlers, s \in Tokens : Store(g, s) /\ (Handle(g) \/ Drop(g))
  BY TablesStep DEF Next, vars, Expire, Accept, Write, Insert, Revoke, tables
<1> QED
  BY <1>2, <1>3, <1>4

\* No token is exchanged a second time.
LEMMA StaysSingleUse ==
  ASSUME IInv, ExchangeInv, [Next]_vars
  PROVE  SingleUse'
<1> USE DEF IInv
<1>1. CASE parent' = parent
  BY <1>1 DEF ExchangeInv, SingleUse
<1>2. ASSUME NEW h \in Handlers, NEW s \in Tokens, Store(h, s)
      PROVE  SingleUse'
  <2>1. \A r \in Tokens \ {s} : parent'[r] = parent[r]
    BY <1>2, HolderMints
  <2>2. parent'[s] # NoToken => Children(parent'[s]) = {}
    <3>1. parent'[s] # NoToken => parent'[s] \in Tokens
      <4>1. parent'[s] # NoToken => parent'[s] = req[h].token /\ Serves(h, "refresh")
        BY <1>2 DEF Store, TypeOK
      <4> QED
        BY <1>2, <4>1, RequestKind DEF Store
    <3> QED
      BY <1>2, <3>1, HolderMints DEF ExchangeInv, FoundValid
  <2> QED
    BY <2>1, <2>2 DEF SingleUse, Children, ExchangeInv
<1> QED
  BY <1>1, <1>2, ParentGrows

\* Every step keeps what makes an exchange the only one of its token.
LEMMA ExchangeStep == OneAtATime /\ IInv /\ ExchangeInv /\ [Next]_vars => ExchangeInv'
<1> SUFFICES ASSUME OneAtATime, IInv, ExchangeInv, [Next]_vars PROVE ExchangeInv'
  OBVIOUS
<1>1. TypeOK
  BY DEF IInv
<1>2. \A g, h \in Handlers, t \in Tokens : Presents(g, t)' /\ Presents(h, t)' => g = h
  BY <1>1, OnePresenter
<1>3. \A h \in Handlers, t \in Tokens : FoundValid(h, t)' => Children(t)' = {}
  BY HeldHasNoChild
<1> QED
  BY <1>2, <1>3, StaysSingleUse DEF ExchangeInv

\* Every step keeps the rotation invariant.
LEMMA RotationStep == OneAtATime /\ IInv /\ RotationInv /\ [Next]_vars => RotationInv'
<1> SUFFICES ASSUME OneAtATime, IInv, RotationInv, [Next]_vars PROVE RotationInv'
  OBVIOUS
<1>1. ExchangeInv'
  BY ExchangeStep DEF RotationInv
<1>2. \A h \in Handlers, t \in Tokens : Presents(h, t)' /\ pc'[h] = "revoke" => ~tokens'[t].revoked
  BY RevokingIsFresh
<1> QED
  BY <1>1, <1>2 DEF RotationInv

\* The rotation invariant holds initially.
LEMMA RotationInitially == Init => RotationInv
BY DEF Init, RotationInv, ExchangeInv, FoundValid, Presents, Active, SingleUse

(***************************************************************************)
(* With no token presented twice at the same time, none is ever exchanged  *)
(* twice.                                                                  *)
(***************************************************************************)
THEOREM RotationKept == ASSUME OneAtATime PROVE Spec => []SingleUse
<1>1. RotationInv => SingleUse
  BY DEF RotationInv, ExchangeInv
<1>2. IInv /\ RotationInv /\ [Next]_vars => (IInv /\ RotationInv)'
  BY RotationStep, Inductive
<1>3. Init => IInv /\ RotationInv
  BY Initially, RotationInitially
<1> QED
  BY <1>1, <1>2, <1>3, PTL DEF Spec

-----------------------------------------------------------------------------
(***************************************************************************)
(* One token per session.                                                  *)
(***************************************************************************)

\* A statement that writes makes no token unspent but the one it stores.
LEMMA UnspentAfterWrite ==
  ASSUME TypeOK, HandlerInv, NEW h \in Handlers, Write(h), NEW t \in Tokens, Unspent(t)'
  PROVE  Unspent(t) \/ Store(h, t)
<1>1. CASE tokens'[t] = tokens[t]
  BY <1>1 DEF Unspent
<1>2. CASE Revoke(h) /\ t = req[h].token
  <2>1. tokens[t] \in Row /\ tokens'[t] = [tokens[t] EXCEPT !.revoked = TRUE]
    BY <1>2, RequestKind DEF Revoke, TypeOK, HandlerInv
  <2> QED
    BY <2>1, RowEdit DEF Unspent
<1>3. tokens'[t] # tokens[t] => (Revoke(h) /\ t = req[h].token) \/ Store(h, t)
  BY DEF Write, Insert, Revoke, Store, TypeOK
<1> QED
  BY <1>1, <1>2, <1>3

\* A token that may still be exchanged could be before, or is the one stored.
LEMMA SpendableStep ==
  ASSUME TypeOK, HandlerInv, [Next]_vars, NEW t \in Tokens, Spendable(t)'
  PROVE  Spendable(t) \/ \E h \in Handlers : Store(h, t) /\ (Handle(h) \/ Drop(h))
<1>1. CASE \E h \in Handlers : FoundValid(h, t)'
  BY <1>1, HeldWasFoundValid DEF Spendable, Valid, Unspent
<1>2. CASE Unspent(t)'
  <2>1. CASE UNCHANGED tables
    BY <1>2, <2>1 DEF tables, Unspent, Spendable
  <2>2. ASSUME NEW h \in Handlers, Handle(h) \/ Drop(h), Write(h)
        PROVE  Unspent(t) \/ Store(h, t)
    BY <1>2, <2>2, UnspentAfterWrite
  <2>3. ASSUME NEW s \in Tokens, Expire(s)
        PROVE  Unspent(t)
    <3>1. tokens[s] \in Row
      BY <2>3 DEF Expire, TypeOK
    <3>2. CASE t = s
      <4>1. tokens'[t] = [tokens[t] EXCEPT !.expired = TRUE]
        BY <2>3, <3>2 DEF Expire, TypeOK
      <4> QED
        BY <1>2, <3>1, <3>2, <4>1, RowEdit DEF Unspent
    <3>3. CASE t # s
      BY <1>2, <2>3, <3>3 DEF Expire, TypeOK, Unspent
    <3> QED
      BY <3>2, <3>3
  <2>4. \/ UNCHANGED tables
        \/ \E h \in Handlers : (Handle(h) \/ Drop(h)) /\ Write(h)
        \/ \E s \in Tokens : Expire(s)
    BY TablesStep DEF Next, vars, tables, Accept
  <2> QED
    BY <2>1, <2>2, <2>3, <2>4 DEF Spendable
<1> QED
  BY <1>1, <1>2 DEF Spendable

\* The token that is exchanged gives way to the one it is exchanged for.
LEMMA ExchangeSpends ==
  ASSUME OneAtATime, IInv, ExchangeInv, [Next]_vars, NEW h \in Handlers, NEW s \in Tokens,
         Store(h, s), Handle(h) \/ Drop(h), NEW t, parent'[s] = t, t # NoToken
  PROVE  t \in Tokens /\ t # s /\ Spendable(t) /\ ~Spendable(t)'
<1> USE DEF IInv
<1>1. /\ Serves(h, "refresh") /\ pc[h] = "mint" /\ t \in Tokens
      /\ t = req[h].token /\ tokens[t] # NoToken
  BY RequestKind DEF Store, TypeOK, HandlerInv
<1>2. FoundValid(h, t) /\ tokens[t].revoked /\ t # s
  BY <1>1 DEF FoundValid, Presents, Active, HandlerInv, Store
<1>3. ~Unspent(t)'
  BY <1>1, <1>2, Growth DEF Grown, Unspent
<1>4. ASSUME NEW g \in Handlers, FoundValid(g, t)'
      PROVE  FALSE
  <2>1. FoundValid(g, t)
    BY <1>1, <1>2, <1>4, HeldWasFoundValid DEF Valid
  <2>2. g = h
    BY <1>1, <1>2, <2>1 DEF ExchangeInv, FoundValid
  <2>3. pc'[h] \in {"idle", "done"}
    BY StoreIsLast
  <2> QED
    BY <1>4, <2>2, <2>3 DEF FoundValid
<1>5. Spendable(t)
  BY <1>2 DEF Spendable
<1>6. ~Spendable(t)'
  BY <1>3, <1>4 DEF Spendable
<1> QED
  BY <1>1, <1>2, <1>5, <1>6

\* Without a new token nothing changes but that tokens are spent.
LEMMA ChainStands ==
  ASSUME ChainInv, parent' = parent, \A t \in Tokens : Spendable(t)' => Spendable(t)
  PROVE  ChainInv'
BY DEF ChainInv, GoBackTo

\* A new token takes the place of its parent, if any.
LEMMA ChainGrows ==
  ASSUME OneAtATime, IInv, ExchangeInv, ChainInv, [Next]_vars,
         NEW h \in Handlers, NEW s \in Tokens, Store(h, s), Handle(h) \/ Drop(h)
  PROVE  ChainInv'
<1> USE DEF IInv
<1>1. \A t \in Tokens \ {s} : parent'[t] = parent[t]
  BY HolderMints
<1>2. ASSUME NEW t \in Tokens \ {s}, Spendable(t)'
      PROVE  Spendable(t)
  <2>1. ASSUME NEW g \in Handlers, Store(g, t)
        PROVE  FALSE
    <3>1. tokens'[t] = [user |-> Owner(g), revoked |-> FALSE, expired |-> FALSE]
      BY <2>1 DEF Store, TypeOK
    <3>2. tokens'[t] = tokens[t] /\ tokens[t] = NoToken
      BY <2>1 DEF Store, TypeOK
    <3>3. [user |-> Owner(g), revoked |-> FALSE, expired |-> FALSE] \in Row
      BY <2>1, OwnerIsUser DEF Store, Row
    <3> QED
      BY <3>1, <3>2, <3>3
  <2> QED
    BY <1>2, <2>1, SpendableStep
<1>3. \A t \in Tokens : parent[t] # s
  BY DEF Store, FamiliesHaveOneUser
<1>4. ASSUME NEW F \in SUBSET Tokens, parent'[s] \in F
      PROVE  parent'[s] \in F \ {s} /\ \E p \in F \ {s} : Spendable(p) /\ ~Spendable(p)'
  <2>1. PICK p \in F : parent'[s] = p
    BY <1>4
  <2>2. p # s /\ Spendable(p) /\ ~Spendable(p)'
    BY <2>1, ExchangeSpends
  <2> QED
    BY <2>1, <2>2
<1>5. ASSUME NEW F \in SUBSET Tokens, \A t \in F : parent'[t] \in F
      PROVE  \A t \in F : ~Spendable(t)'
  <2>1. CASE s \notin F
    <3>1. \A t \in F : parent[t] \in F
      BY <1>1, <1>5, <2>1
    <3>2. \A t \in F : ~Spendable(t)
      BY <3>1 DEF ChainInv
    <3> QED
      BY <1>2, <2>1, <3>2
  <2>2. CASE s \in F
    <3>1. \E p \in F \ {s} : Spendable(p)
      BY <1>4, <1>5, <2>2
    <3>2. \A t \in F \ {s} : parent[t] \in F \ {s}
      BY <1>1, <1>3, <1>5
    <3> QED
      BY <3>1, <3>2 DEF ChainInv
  <2> QED
    BY <2>1, <2>2
<1>6. ASSUME NEW F \in SUBSET Tokens, NEW t \in F, \A r \in F \ {t} : parent'[r] \in F,
             NEW q \in F, NEW r \in F, Spendable(q)', Spendable(r)'
      PROVE  q = r
  <2> DEFINE G == F \ {s}
  <2>1. CASE s \notin F
    <3>1. GoBackTo(F, t)
      BY <1>1, <1>6, <2>1 DEF GoBackTo
    <3>2. Spendable(q) /\ Spendable(r)
      BY <1>2, <1>6, <2>1
    <3> QED
      BY <3>1, <3>2 DEF ChainInv
  <2>2. CASE s \in F /\ t = s
    <3>1. \A p \in G : parent[p] \in G
      BY <1>1, <1>3, <1>6, <2>2
    <3>2. \A p \in G : ~Spendable(p)
      BY <3>1 DEF ChainInv
    <3>3. q \notin G /\ r \notin G
      BY <1>2, <1>6, <3>2
    <3> QED
      BY <3>3
  <2>3. CASE s \in F /\ t # s
    <3>1. PICK p \in G : Spendable(p) /\ ~Spendable(p)'
      BY <1>4, <1>6, <2>3
    <3>2. t \in G /\ GoBackTo(G, t)
      BY <1>1, <1>3, <1>6, <2>3 DEF GoBackTo
    <3>3. \A o \in G : Spendable(o) => o = p
      BY <3>1, <3>2 DEF ChainInv
    <3>4. q \notin G /\ r \notin G
      BY <1>2, <1>6, <3>1, <3>3
    <3> QED
      BY <3>4
  <2> QED
    BY <2>1, <2>2, <2>3
<1>7. \A F \in SUBSET Tokens : (\A t \in F : parent'[t] \in F) => \A t \in F : ~Spendable(t)'
  BY <1>5
<1>8. \A F \in SUBSET Tokens : \A t \in F : (\A r \in F \ {t} : parent'[r] \in F) =>
        \A q, r \in F : Spendable(q)' /\ Spendable(r)' => q = r
  BY <1>6
<1> QED
  BY <1>7, <1>8 DEF ChainInv, GoBackTo

\* Every step of the endpoints keeps one token per session.
LEMMA ChainStep == OneAtATime /\ IInv /\ ExchangeInv /\ ChainInv /\ [Next]_vars => ChainInv'
<1> SUFFICES ASSUME OneAtATime, IInv, ExchangeInv, ChainInv, [Next]_vars PROVE ChainInv'
  OBVIOUS
<1>1. CASE \E h \in Handlers, s \in Tokens : Store(h, s) /\ (Handle(h) \/ Drop(h))
  BY <1>1, ChainGrows
<1>2. CASE ~\E h \in Handlers, s \in Tokens : Store(h, s) /\ (Handle(h) \/ Drop(h))
  <2>1. parent' = parent
    BY <1>2, TablesStep DEF Next, vars, Expire, Accept, Write, Insert, Revoke, tables
  <2> QED
    BY <1>2, <2>1, SpendableStep, ChainStands DEF IInv
<1> QED
  BY <1>1, <1>2

\* Initially there is no token.
LEMMA ChainInitially == Init => ChainInv
BY DEF Init, ChainInv, Spendable, Unspent, FoundValid

\* What may be exchanged is one token of a session; so is what is not revoked.
LEMMA ChainIsOneToken == ChainInv => OneTokenPerSession
BY DEF ChainInv, OneTokenPerSession, Spendable

(***************************************************************************)
(* With no token presented twice at the same time, a session has one       *)
(* token that is not revoked, at most, however often it was refreshed.     *)
(***************************************************************************)
THEOREM SessionsHaveOneToken == ASSUME OneAtATime PROVE Spec => []OneTokenPerSession
<1>1. RotationInv => ExchangeInv
  BY DEF RotationInv
<1>2. IInv /\ RotationInv /\ ChainInv /\ [Next]_vars => (IInv /\ RotationInv /\ ChainInv)'
  BY <1>1, RotationStep, Inductive, ChainStep
<1>3. Init => IInv /\ RotationInv /\ ChainInv
  BY Initially, RotationInitially, ChainInitially
<1> QED
  BY <1>2, <1>3, ChainIsOneToken, PTL DEF Spec

-----------------------------------------------------------------------------
(***************************************************************************)
(* Refinement.  A handler owes a replacement from the moment it has        *)
(* revoked its token until it stores the new one or gives up.              *)
(***************************************************************************)
Owes(h) == pc[h] = "mint" /\ Serves(h, "refresh")

OthersAlone(h) == \A g \in Handlers \ {h} : pc'[g] = pc[g] /\ req'[g] = req[g]

\* A handler that owes no token before and after changes nothing in what is owed.
LEMMA OwedStays ==
  ASSUME NEW h \in Handlers, OthersAlone(h), ~Owes(h), ~Owes(h)'
  PROVE  Owed' = Owed
BY DEF OthersAlone, Owes, Owed, Presents, Active, Serves

\* A handler that begins to owe a token adds it to what is owed.
LEMMA OwedGains ==
  ASSUME TypeOK, HandlerInv, NEW h \in Handlers, OthersAlone(h), ~Owes(h), Owes(h)',
         req'[h] = req[h], pc[h] # "idle"
  PROVE  Owed' = Owed \cup {req[h].token}
BY RequestKind DEF OthersAlone, Owes, Owed, Presents, Active, Serves

\* A handler that ceases to owe a token takes it out of what is owed.
LEMMA OwedDrops ==
  ASSUME TypeOK, HandlerInv, RotationInv, NEW h \in Handlers, OthersAlone(h), Owes(h), ~Owes(h)'
  PROVE  /\ req[h].token \in Owed
         /\ Owed' = Owed \ {req[h].token}
<1>1. req[h].token \in Tokens /\ Presents(h, req[h].token)
  BY RequestKind DEF Owes, Presents, Active
<1>2. \A g \in Handlers : Owes(g) /\ req[g].token = req[h].token => g = h
  BY <1>1 DEF RotationInv, ExchangeInv, Owes, Presents, Active
<1> QED
  BY <1>1, <1>2 DEF OthersAlone, Owes, Owed, Presents, Active, Serves

\* Storing a new token is a grant or a replacement.
LEMMA StoreRefines ==
  ASSUME TypeOK, HandlerInv, RotationInv, NEW h \in Handlers, OthersAlone(h),
         NEW s \in Tokens, Store(h, s), pc'[h] # "mint"
  PROVE  Rotation!Next
<1>0. ~Owes(h)'
  BY DEF Owes
<1>1. CASE Serves(h, "refresh")
  <2>1. Owes(h) /\ req[h].token \in Tokens
    BY <1>1, RequestKind DEF Store, Owes
  <2>2. req[h].token \in Owed /\ Owed' = Owed \ {req[h].token}
    BY <1>0, <2>1, OwedDrops
  <2>3. Rotation!New(s, tokens[req[h].token].user, req[h].token)
    BY <1>1 DEF Store, Owner, Rotation!New
  <2>4. Rotation!Replace(req[h].token, s)
    BY <2>2, <2>3 DEF Rotation!Replace
  <2> QED
    BY <2>1, <2>4 DEF Rotation!Next
<1>2. CASE ~Serves(h, "refresh")
  <2>1. Owed' = Owed
    BY <1>0, <1>2, OwedStays DEF Owes
  <2>2. Owner(h) = req[h].user /\ Owner(h) \in Users
    BY <1>2, OwnerIsUser DEF Owner, Store
  <2>3. Rotation!Grant(s, Owner(h))
    BY <1>2, <2>1 DEF Store, Rotation!Grant, Rotation!New
  <2> QED
    BY <2>2, <2>3 DEF Rotation!Next
<1> QED
  BY <1>1, <1>2

\* Revoking spends the token; the handler owes the replacement if it goes on.
LEMMA RevokeRefines ==
  ASSUME TypeOK, HandlerInv, RotationInv, NEW h \in Handlers, OthersAlone(h),
         Revoke(h), req'[h] = req[h]
  PROVE  Rotation!Next
<1>1. Serves(h, "refresh") /\ req[h].token \in Tokens /\ tokens[req[h].token] # NoToken
  BY RequestKind DEF Revoke, HandlerInv, Row
<1>2. ~tokens[req[h].token].revoked
  BY <1>1 DEF Revoke, RotationInv, Presents, Active
<1>3. ~Owes(h)
  BY DEF Owes, Revoke
<1>4. Owed' = Owed \cup {req[h].token} \/ Owed' = Owed
  BY <1>3, OwedStays, OwedGains DEF Revoke
<1>5. Rotation!Spend(req[h].token)
  BY <1>1, <1>2, <1>4 DEF Revoke, Rotation!Spend
<1> QED
  BY <1>1, <1>5 DEF Rotation!Next

\* A step of a handler that leaves the tables alone may give up what it owes.
LEMMA QuietRefines ==
  ASSUME TypeOK, HandlerInv, RotationInv, NEW h \in Handlers, OthersAlone(h),
         UNCHANGED <<tokens, parent>>, ~Owes(h)'
  PROVE  [Rotation!Next]_(Rotation!vars)
<1>1. CASE Owes(h)
  <2>1. req[h].token \in Tokens
    BY <1>1, RequestKind DEF Owes
  <2>2. Rotation!Forfeit(req[h].token)
    BY <1>1, OwedDrops DEF Rotation!Forfeit
  <2> QED
    BY <2>1, <2>2 DEF Rotation!Next
<1>2. CASE ~Owes(h)
  BY <1>2, OwedStays DEF Rotation!vars
<1> QED
  BY <1>1, <1>2

\* A step of a handler is a step of TokenRotation or changes nothing it sees.
LEMMA HandlerRefines ==
  ASSUME TypeOK, HandlerInv, RotationInv, NEW h \in Handlers,
         Handle(h) \/ Drop(h) \/ \E r \in Requests : Accept(h, r)
  PROVE  [Rotation!Next]_(Rotation!vars)
<1>1. OthersAlone(h)
  BY OthersStay DEF OthersAlone
<1>2. ASSUME NEW s \in Tokens, Store(h, s)
      PROVE  pc'[h] # "mint"
  <2>1. pc[h] = "mint"
    BY <1>2 DEF Store
  <2>2. Handle(h) \/ Drop(h)
    BY <2>1 DEF Accept, Active
  <2> QED
    BY <1>2, <2>2, StoreIsLast
<1>3. CASE Revoke(h)
  <2>1. req'[h] = req[h]
    BY <1>3 DEF Revoke, Handle, CheckFree, CheckPassword, FindToken, CreateUser, RevokeOld,
       Mint, Fail, Drop, Deny, Answer, Accept, GoOn, Active
  <2> QED
    BY <1>1, <1>3, <2>1, RevokeRefines
<1>4. CASE UNCHANGED <<tokens, parent>> /\ ~Revoke(h)
  <2>1. ~Owes(h)'
    BY <1>4 DEF TypeOK, HandlerInv, Owes, Serves, Handle, CheckFree, CheckPassword, FindToken,
       CreateUser, RevokeOld, Insert, Store, Mint, Fail, Drop, Deny, Answer, Accept, GoOn
  <2> QED
    BY <1>1, <1>4, <2>1, QuietRefines
<1>5. \/ UNCHANGED <<tokens, parent>>
      \/ Revoke(h)
      \/ \E s \in Tokens : Store(h, s)
  BY TablesStep DEF tables, Write, Insert
<1> QED
  BY <1>1, <1>2, <1>3, <1>4, <1>5, StoreRefines

\* Every step is a step of TokenRotation or changes nothing it sees.
LEMMA StepRefines ==
  OneAtATime /\ IInv /\ RotationInv /\ [Next]_vars => [Rotation!Next]_(Rotation!vars)
<1> SUFFICES ASSUME IInv, RotationInv, [Next]_vars PROVE [Rotation!Next]_(Rotation!vars)
  OBVIOUS
<1>1. ASSUME NEW t \in Tokens, Expire(t)
      PROVE  Rotation!Next
  <2>1. Owed' = Owed
    BY <1>1 DEF Expire, Owed, Presents, Active, Serves
  <2>2. Rotation!Expire(t)
    BY <1>1, <2>1 DEF Expire, Rotation!Expire
  <2> QED
    BY <2>2 DEF Rotation!Next
<1>2. CASE UNCHANGED vars
  BY <1>2 DEF vars, Rotation!vars, Owed, Presents, Active, Serves
<1> QED
  BY <1>1, <1>2, HandlerRefines DEF Next, IInv

\* The initial states are those of TokenRotation.
LEMMA InitRefines == Init => Rotation!Init
BY DEF Init, Rotation!Init, Owed, Presents, Active

(***************************************************************************)
(* With no token presented twice at the same time, the three endpoints     *)
(* implement rotation: a token is spent once and replaced by at most one.  *)
(***************************************************************************)
THEOREM RotationImplemented == ASSUME OneAtATime PROVE Spec => ImplementsRotation
<1>1. IInv /\ RotationInv /\ [Next]_vars => (IInv /\ RotationInv)'
  BY RotationStep, Inductive
<1>2. Init => IInv /\ RotationInv /\ Rotation!Init
  BY Initially, RotationInitially, InitRefines
<1>3. IInv /\ RotationInv /\ [Next]_vars => [Rotation!Next]_(Rotation!vars)
  BY StepRefines
<1> QED
  BY <1>1, <1>2, <1>3, PTL DEF Spec, ImplementsRotation, Rotation!Spec

-----------------------------------------------------------------------------
(***************************************************************************)
(* How long a request takes.                                               *)
(***************************************************************************)
LEMMA HandlerRunsDown ==
  ASSUME TypeOK, HandlerInv, NEW h \in Handlers, Active(h), Handle(h) \/ Drop(h)
  PROVE  Left(h)' < Left(h) /\ UNCHANGED req[h]
<1>1. pc[h] \in {"lookup", "insert", "revoke", "mint"} /\ Left(h) > 0
  BY DEF TypeOK, Active, Left
<1>2. UNCHANGED req[h]
  BY DEF Handle, CheckFree, CheckPassword, FindToken, CreateUser, RevokeOld, Mint, Fail, Drop,
         Deny, Answer, GoOn
<1>3. CASE pc'[h] \in {"idle", "done"}
  BY <1>1, <1>2, <1>3 DEF Left
<1>4. ASSUME NEW l \in {"insert", "revoke", "mint"}, GoOn(h, l), pc[h] = "lookup"
      PROVE  Left(h)' < Left(h)
  BY <1>4 DEF GoOn, Left, TypeOK
<1>5. ASSUME GoOn(h, "mint"), pc[h] \in {"insert", "revoke"}
      PROVE  Left(h)' < Left(h)
  BY <1>5 DEF GoOn, Left, TypeOK
<1>6. ASSUME NEW s, Deny(h, s)
      PROVE  pc'[h] = "done"
  BY <1>6 DEF Deny, Answer, TypeOK
<1>7. CASE CheckFree(h) \/ CheckPassword(h) \/ FindToken(h)
  BY <1>2, <1>3, <1>4, <1>6, <1>7 DEF CheckFree, CheckPassword, FindToken
<1>8. CASE CreateUser(h) \/ RevokeOld(h)
  BY <1>2, <1>3, <1>5, <1>6, <1>8 DEF CreateUser, RevokeOld, Revoke
<1>9. CASE Mint(h) \/ Fail(h) \/ Drop(h)
  BY <1>3, <1>6, <1>9 DEF Mint, Fail, Drop, Answer, TypeOK
<1> QED
  BY <1>7, <1>8, <1>9 DEF Handle

(***************************************************************************)
(* A request runs down: it is answered after at most three steps of its    *)
(* handler, whatever fails, expires or is done by the others meanwhile.    *)
(***************************************************************************)
THEOREM RequestsGetShorter == Spec => RequestsRunDown
<1> DEFINE Same(h) == UNCHANGED <<pc[h], req[h], reply[h]>>
           Less(h) == Left(h)' < Left(h) /\ (Active(h)' => UNCHANGED req[h])
<1>1. ASSUME IInv, [Next]_vars, NEW h \in Handlers, Active(h)
      PROVE  Same(h) \/ Less(h)
  <2>1. TypeOK /\ HandlerInv
    BY <1>1 DEF IInv
  <2>2. CASE UNCHANGED vars \/ \E t \in Tokens : Expire(t)
    BY <2>2 DEF vars, Expire
  <2>3. ASSUME NEW g \in Handlers \ {h}, Handle(g) \/ Drop(g) \/ \E r \in Requests : Accept(g, r)
        PROVE  Same(h)
    BY <2>1, <2>3, OthersStay
  <2>4. CASE Handle(h) \/ Drop(h)
    BY <1>1, <2>1, <2>4, HandlerRunsDown
  <2>5. ASSUME NEW r \in Requests, Accept(h, r)
        PROVE  FALSE
    BY <1>1, <2>5 DEF Accept
  <2> QED
    BY <1>1, <2>2, <2>3, <2>4, <2>5 DEF Next
<1>2. IInv /\ [Next]_vars =>
        [\A h \in Handlers :
           Active(h) => \/ UNCHANGED <<pc[h], req[h], reply[h]>>
                        \/ Left(h)' < Left(h) /\ (Active(h)' => UNCHANGED req[h])]_vars
  BY <1>1
<1>3. Init => IInv
  BY Initially
<1>4. IInv /\ [Next]_vars => IInv'
  BY Inductive
<1> QED
  BY <1>2, <1>3, <1>4, PTL DEF Spec, RequestsRunDown
================================================================================
