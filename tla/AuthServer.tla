------------------------------ MODULE AuthServer ------------------------------
(***************************************************************************)
(* POST /auth/register, /auth/login and /auth/refresh over the tables      *)
(* users and refresh_tokens.                                               *)
(*                                                                         *)
(* Every request runs in a task of its own and issues one SQL statement    *)
(* after the other, without a transaction: between two of them other       *)
(* requests run, tokens expire and the task itself may be dropped.         *)
(*                                                                         *)
(* A user is the email it registered with: users.email is UNIQUE and rows  *)
(* of users are never updated or deleted.  A refresh token, its random     *)
(* text, the hash that is stored and its row are one token.  A password    *)
(* hash is the password it verifies.  Access tokens are not kept by the    *)
(* server and are left out.                                                *)
(***************************************************************************)
EXTENDS Naturals

CONSTANTS
  Handlers,   \* handler slots: how many requests run at the same time
  Users,      \* emails
  Passwords,
  Tokens,     \* bound: refresh tokens that may ever be minted
  NoAccount,  \* no row for this email
  NoToken,    \* no row for this token, or no token
  Faults,     \* TRUE when a statement may report a failure
  OneAtATime  \* TRUE when no token is presented twice at the same time

ASSUME NoAccountIsNone    == NoAccount \notin Passwords
ASSUME NoTokenIsNone      == NoToken \notin Tokens
ASSUME SwitchesAreBoolean == {Faults, OneAtATime} \subseteq BOOLEAN

VARIABLES
  accounts,  \* users: email -> password_hash, or NoAccount
  tokens,    \* refresh_tokens: token -> row, or NoToken
  parent,    \* history: token -> the token it was exchanged for, or NoToken
  known,     \* the tokens that have reached a client
  pc,        \* handler -> the statement it is about to issue
  req,       \* handler -> the request it serves
  reply      \* handler -> its answer

vars == <<accounts, tokens, parent, known, pc, req, reply>>

Row == [user : Users, revoked : BOOLEAN, expired : BOOLEAN]
ASSUME NoTokenIsNoRow == NoToken \notin Row

Credentials == [op : {"register", "login"}, user : Users, password : Passwords]
Refreshes   == [op : {"refresh"}, token : Tokens]
Requests    == Credentials \cup Refreshes
NoRequest   == [op |-> "none"]

Granted  == [status : {200, 201}, token : Tokens]
Denied   == [status : {401, 409, 500}]
NoReply  == [status |-> 0]

Active(h)   == pc[h] \notin {"idle", "done"}
Serves(h, op) == req[h].op = op
Presents(h, t) == Active(h) /\ Serves(h, "refresh") /\ req[h].token = t

Init ==
  /\ accounts = [u \in Users |-> NoAccount]
  /\ tokens   = [t \in Tokens |-> NoToken]
  /\ parent   = [t \in Tokens |-> NoToken]
  /\ known    = {}
  /\ pc       = [h \in Handlers |-> "idle"]
  /\ req      = [h \in Handlers |-> NoRequest]
  /\ reply    = [h \in Handlers |-> NoReply]

Accept(h, r) ==
  /\ ~Active(h)
  /\ r.op = "refresh" =>
       /\ r.token \in known
       /\ OneAtATime => \A g \in Handlers : ~Presents(g, r.token)
  /\ pc'    = [pc EXCEPT ![h] = "lookup"]
  /\ req'   = [req EXCEPT ![h] = r]
  /\ reply' = [reply EXCEPT ![h] = NoReply]
  /\ UNCHANGED <<accounts, tokens, parent, known>>

tables == <<accounts, tokens, parent>>

Answer(h, r) ==
  /\ pc'    = [pc EXCEPT ![h] = "done"]
  /\ reply' = [reply EXCEPT ![h] = r]
  /\ UNCHANGED req

Deny(h, status) == Answer(h, [status |-> status]) /\ UNCHANGED known

GoOn(h, label) ==
  /\ pc' = [pc EXCEPT ![h] = label]
  /\ UNCHANGED <<known, req, reply>>

(***************************************************************************)
(* The first statement of a handler, a SELECT.  register goes on when it   *)
(* fails, as when there is no such user.                                   *)
(***************************************************************************)
CheckFree(h) ==
  /\ pc[h] = "lookup" /\ Serves(h, "register")
  /\ \/ accounts[req[h].user] # NoAccount /\ Deny(h, 409)
     \/ accounts[req[h].user] = NoAccount /\ GoOn(h, "insert")
     \/ Faults /\ GoOn(h, "insert")
  /\ UNCHANGED tables

CheckPassword(h) ==
  /\ pc[h] = "lookup" /\ Serves(h, "login")
  /\ \/ Faults /\ Deny(h, 500)
     \/ accounts[req[h].user] # req[h].password /\ Deny(h, 401)
     \/ accounts[req[h].user] = req[h].password /\ GoOn(h, "mint")
  /\ UNCHANGED tables

\* Mutant of Valid: "AND revoked = false" is forgotten.
ValidIfUnexpired(t) == tokens[t] # NoToken /\ ~tokens[t].expired

Valid(t) == tokens[t] # NoToken /\ ~tokens[t].revoked /\ ~tokens[t].expired

\* Mutant of FindToken: the row is looked up by its hash alone.
FindTokenByHash(h) ==
  /\ pc[h] = "lookup" /\ Serves(h, "refresh")
  /\ \/ Faults /\ Deny(h, 500)
     \/ tokens[req[h].token] # NoToken /\ GoOn(h, "revoke")
  /\ UNCHANGED tables

FindToken(h) ==
  /\ pc[h] = "lookup" /\ Serves(h, "refresh")
  /\ \/ Faults /\ Deny(h, 500)
     \/ ~Valid(req[h].token) /\ Deny(h, 401)
     \/ Valid(req[h].token) /\ GoOn(h, "revoke")
  /\ UNCHANGED tables

(***************************************************************************)
(* What the statements that write do to the tables.                        *)
(***************************************************************************)
\* Mutant of Insert: the row of the email is replaced (ON CONFLICT DO UPDATE).
InsertOrReplace(h) ==
  /\ pc[h] = "insert"
  /\ accounts' = [accounts EXCEPT ![req[h].user] = req[h].password]
  /\ UNCHANGED <<tokens, parent>>

Insert(h) ==
  /\ pc[h] = "insert" /\ accounts[req[h].user] = NoAccount
  /\ accounts' = [accounts EXCEPT ![req[h].user] = req[h].password]
  /\ UNCHANGED <<tokens, parent>>

\* Mutant of Revoke: the WHERE compares the wrong column and matches no row.
RevokeNothing(h) == pc[h] = "revoke" /\ UNCHANGED tables

\* Mutant of Revoke: WHERE user_id = $1, as in revoke_all_user_tokens.
RevokeAll(h) ==
  /\ pc[h] = "revoke"
  /\ tokens' = [t \in Tokens |->
                  IF tokens[t] # NoToken /\ tokens[t].user = tokens[req[h].token].user
                  THEN [tokens[t] EXCEPT !.revoked = TRUE] ELSE tokens[t]]
  /\ UNCHANGED <<accounts, parent>>

Revoke(h) ==
  /\ pc[h] = "revoke"
  /\ tokens' = [tokens EXCEPT ![req[h].token].revoked = TRUE]
  /\ UNCHANGED <<accounts, parent>>

\* Mutant of Owner: the id of the stored token in place of its user's.
OwnerByTokenId(h) == IF Serves(h, "refresh") THEN req[h].token ELSE req[h].user

\* Whom the pair is for: stored_token.user_id, or the user that proved itself.
Owner(h) == IF Serves(h, "refresh") THEN tokens[req[h].token].user ELSE req[h].user

Store(h, t) ==
  /\ pc[h] = "mint" /\ tokens[t] = NoToken
  /\ tokens' = [tokens EXCEPT ![t] = [user |-> Owner(h), revoked |-> FALSE, expired |-> FALSE]]
  /\ parent' = [parent EXCEPT ![t] = IF Serves(h, "refresh") THEN req[h].token ELSE NoToken]
  /\ UNCHANGED accounts

Write(h) == Insert(h) \/ Revoke(h) \/ \E t \in Tokens : Store(h, t)

\* Mutant of CreateUser: on a duplicate key the handler starts over.
CreateUserOrRetry(h) ==
  /\ pc[h] = "insert"
  /\ \/ Insert(h) /\ GoOn(h, "mint")
     \/ accounts[req[h].user] # NoAccount /\ GoOn(h, "lookup") /\ UNCHANGED tables

CreateUser(h) ==
  /\ pc[h] = "insert"
  /\ \/ Insert(h) /\ GoOn(h, "mint")
     \/ accounts[req[h].user] # NoAccount /\ Deny(h, 500) /\ UNCHANGED tables

\* Mutant of RevokeOld: the result of the UPDATE is ignored.
RevokeOldOrNot(h) ==
  /\ pc[h] = "revoke"
  /\ Revoke(h) \/ (Faults /\ UNCHANGED tables)
  /\ GoOn(h, "mint")

RevokeOld(h) == Revoke(h) /\ GoOn(h, "mint")

\* generate_token_pair, and the answer that carries the pair.
Mint(h) ==
  \E t \in Tokens :
    /\ Store(h, t)
    /\ Answer(h, [status |-> IF Serves(h, "register") THEN 201 ELSE 200, token |-> t])
    /\ known' = known \cup {t}

(***************************************************************************)
(* A statement that writes reports an error.  When the connection broke    *)
(* after the commit it has been carried out all the same.                  *)
(***************************************************************************)
Fail(h) ==
  /\ Faults
  /\ pc[h] \in {"insert", "revoke", "mint"}
  /\ Write(h) \/ UNCHANGED tables
  /\ Deny(h, 500)

(***************************************************************************)
(* The client goes away and the task is dropped, or the server dies.       *)
(***************************************************************************)
Drop(h) ==
  /\ Active(h)
  /\ Write(h) \/ UNCHANGED tables
  /\ pc'    = [pc EXCEPT ![h] = "idle"]
  /\ reply' = [reply EXCEPT ![h] = NoReply]
  /\ UNCHANGED <<known, req>>

\* Thirty days pass.
Expire(t) ==
  /\ tokens[t] # NoToken /\ ~tokens[t].expired
  /\ tokens' = [tokens EXCEPT ![t].expired = TRUE]
  /\ UNCHANGED <<accounts, parent, known, pc, req, reply>>

Handle(h) ==
  \/ CheckFree(h) \/ CheckPassword(h) \/ FindToken(h)
  \/ CreateUser(h) \/ RevokeOld(h) \/ Mint(h) \/ Fail(h)

Next ==
  \/ \E h \in Handlers :
       \/ \E r \in Requests : Accept(h, r)
       \/ Handle(h)
       \/ Drop(h)
  \/ \E t \in Tokens : Expire(t)

Spec == Init /\ [][Next]_vars

FairSpec == Spec /\ \A h \in Handlers : WF_vars(Handle(h))

-----------------------------------------------------------------------------
\* Every variable holds what its SQL or Rust type admits.
TypeOK ==
  /\ accounts \in [Users -> Passwords \cup {NoAccount}]
  /\ tokens   \in [Tokens -> Row \cup {NoToken}]
  /\ parent   \in [Tokens -> Tokens \cup {NoToken}]
  /\ known    \subseteq Tokens
  /\ pc       \in [Handlers -> {"idle", "lookup", "insert", "revoke", "mint", "done"}]
  /\ req      \in [Handlers -> Requests \cup {NoRequest}]
  /\ reply    \in [Handlers -> Granted \cup Denied \cup {NoReply}]

(***************************************************************************)
(* A pair is granted only to who knows the account's password, also when   *)
(* two registrations of one email overlap: the loser gets no pair and does *)
(* not touch the winner's password.                                        *)
(***************************************************************************)
GrantsMatchPasswords ==
  \A h \in Handlers :
    pc[h] = "done" /\ reply[h] \in Granted /\ req[h] \in Credentials =>
      /\ accounts[req[h].user] = req[h].password
      /\ tokens[reply[h].token].user = req[h].user

(***************************************************************************)
(* Sessions stay with their user: a token got for another one is for the   *)
(* same user.                                                              *)
(***************************************************************************)
FamiliesHaveOneUser ==
  \A t \in Tokens :
    parent[t] # NoToken =>
      /\ tokens[parent[t]] # NoToken /\ tokens[parent[t]].revoked
      /\ tokens[t].user = tokens[parent[t]].user

(***************************************************************************)
(* Once a token is revoked and nobody who found it valid before is still   *)
(* at work, it buys nothing any more.                                      *)
(***************************************************************************)
FoundValid(h, t) == pc[h] \in {"revoke", "mint"} /\ Presents(h, t)

Children(t) == {s \in Tokens : parent[s] = t}

Dead(t) ==
  /\ tokens[t] # NoToken /\ tokens[t].revoked
  /\ \A h \in Handlers : ~FoundValid(h, t)

RevokedBuysNothing ==
  [][\A t \in Tokens : Dead(t) => Dead(t)' /\ Children(t)' = Children(t)]_vars

(***************************************************************************)
(* Rotation: "each refresh token is single-use" (routes/auth.rs).          *)
(***************************************************************************)
SingleUse ==
  \A s, t \in Tokens : parent[s] = parent[t] /\ parent[s] # NoToken => s = t

(***************************************************************************)
(* A login buys one session: of the tokens that go back to one login, each *)
(* exchanged for the next, at most one is not revoked, however many times  *)
(* it was refreshed and whatever failed on the way.  F is any set of       *)
(* tokens that were exchanged, step by step, for t.                        *)
(***************************************************************************)
Unspent(t) == tokens[t] # NoToken /\ ~tokens[t].revoked

GoBackTo(F, t) == \A s \in F \ {t} : parent[s] \in F

OneTokenPerSession ==
  \A F \in SUBSET Tokens : \A t \in F :
    GoBackTo(F, t) => \A r, s \in F : Unspent(r) /\ Unspent(s) => r = s

\* Every request that has been accepted ends.
RequestsEnd == \A h \in Handlers : Active(h) ~> ~Active(h)

(***************************************************************************)
(* Why it does: no step takes a request back, and each step of its own     *)
(* takes it to a later statement or ends it.                               *)
(***************************************************************************)
Left(h) == CASE pc[h] = "lookup" -> 3
             [] pc[h] \in {"insert", "revoke"} -> 2
             [] pc[h] = "mint" -> 1
             [] OTHER -> 0

RequestsRunDown ==
  [][\A h \in Handlers :
       Active(h) => \/ UNCHANGED <<pc[h], req[h], reply[h]>>
                    \/ Left(h)' < Left(h) /\ (Active(h)' => UNCHANGED req[h])]_vars

(***************************************************************************)
(* What a handler has established when it comes to its next statement, on  *)
(* which the invariants above rest.                                        *)
(***************************************************************************)
HandlerInv ==
  /\ \A t \in known : tokens[t] # NoToken
  /\ \A t \in Tokens : parent[t] # NoToken => tokens[t] # NoToken
  /\ \A h \in Handlers :
       /\ pc[h] # "idle" => req[h] \in Requests
       /\ pc[h] = "insert" => Serves(h, "register")
       /\ pc[h] = "revoke" => Serves(h, "refresh")
       /\ pc[h] # "idle" /\ Serves(h, "refresh") => tokens[req[h].token] # NoToken
       /\ pc[h] = "mint" => IF Serves(h, "refresh")
                            THEN tokens[req[h].token].revoked
                            ELSE accounts[req[h].user] = req[h].password
       /\ reply[h] \in Granted => tokens[reply[h].token] # NoToken

IInv == TypeOK /\ HandlerInv /\ GrantsMatchPasswords /\ FamiliesHaveOneUser

-----------------------------------------------------------------------------
(***************************************************************************)
(* When no token is presented twice at the same time, rotation keeps its   *)
(* promise: a token about to be revoked has not been revoked yet, and one  *)
(* about to be exchanged has not been exchanged yet.                       *)
(***************************************************************************)
ExchangeInv ==
  /\ \A g, h \in Handlers, t \in Tokens : Presents(g, t) /\ Presents(h, t) => g = h
  /\ \A h \in Handlers, t \in Tokens : FoundValid(h, t) => Children(t) = {}
  /\ SingleUse

RotationInv ==
  /\ ExchangeInv
  /\ \A h \in Handlers, t \in Tokens :
       Presents(h, t) /\ pc[h] = "revoke" => ~tokens[t].revoked

(***************************************************************************)
(* A token may still be exchanged as long as it is not revoked or a        *)
(* handler has found it valid.  Of the tokens that go back to one, one     *)
(* may, and of tokens that go back to each other, which there are none,    *)
(* none: a new token takes the place of the one it is got with.            *)
(***************************************************************************)
Spendable(t) == Unspent(t) \/ \E h \in Handlers : FoundValid(h, t)

ChainInv ==
  \A F \in SUBSET Tokens :
    /\ (\A s \in F : parent[s] \in F) => \A s \in F : ~Spendable(s)
    /\ \A t \in F : GoBackTo(F, t) =>
         \A r, s \in F : Spendable(r) /\ Spendable(s) => r = s

\* Tokens revoked by a handler that is still to mint their replacement.
Owed == {t \in Tokens : \E h \in Handlers : pc[h] = "mint" /\ Presents(h, t)}

Rotation == INSTANCE TokenRotation WITH owed <- Owed

ImplementsRotation == Rotation!Spec
===============================================================================
