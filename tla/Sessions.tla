-------------------------------- MODULE Sessions --------------------------------
(***************************************************************************)
(* Access tokens: what AuthServer grants next to a refresh token, and what *)
(* require_auth lets through to the protected routes.                      *)
(*                                                                         *)
(* An access token is its claims, signed: the server keeps no copy, cannot *)
(* take it back and looks at nothing but its expiry.  It is known by the   *)
(* refresh token it was granted with.  A request without a header, with    *)
(* another header or with a token that does not verify is answered 401     *)
(* before any handler runs, and changes nothing.                           *)
(***************************************************************************)
EXTENDS AuthServer, Integers

CONSTANTS
  Visitors,        \* bound: requests to protected routes at the same time
  AccessLifetime,  \* access_expires_in
  Leeway,          \* what jsonwebtoken adds to an expiry (60 s by default)
  LastTime,        \* bound: the last instant
  NoClaims,        \* no access token was granted with this refresh token
  NoVisit          \* the slot is free

ASSUME LifetimesAreTimes == {AccessLifetime, Leeway, LastTime} \subseteq Nat

VARIABLES
  clock,   \* Utc::now()
  stamp,   \* handler -> the now of generate_token_pair, 0 outside of it
  claims,  \* refresh token -> the claims of the access token it came with
  visits,  \* visitor -> whom the handler serves, by which token, or NoVisit
  alive    \* history: user -> the last instant it had, or was about to get, a
           \* refresh token that is valid

sessionVars == <<vars, clock, stamp, claims, visits, alive>>

Claims == [sub : Users, exp : Nat]
ASSUME NoClaimsIsNone == NoClaims \notin Claims

Visit == [user : Users, pair : Tokens]
ASSUME NoVisitIsNone == NoVisit \notin Visit

SessionInit ==
  /\ Init
  /\ clock  = 0
  /\ stamp  = [h \in Handlers |-> 0]
  /\ claims = [t \in Tokens |-> NoClaims]
  /\ visits = [v \in Visitors |-> NoVisit]
  /\ alive  = [u \in Users |-> 0]

(***************************************************************************)
(* u holds a token that can be exchanged, or a request is at work that may *)
(* still grant it one.                                                     *)
(***************************************************************************)
MayGrant(h, u) ==
  /\ Active(h)
  /\ IF Serves(h, "refresh")
     THEN pc[h] \in {"revoke", "mint"} /\ tokens[req[h].token].user = u
     ELSE req[h].user = u

Alive(u) ==
  \/ \E t \in Tokens : Valid(t) /\ tokens[t].user = u
  \/ \E h \in Handlers : MayGrant(h, u)

Remember == alive' = [u \in Users |-> IF Alive(u)' THEN clock' ELSE alive[u]]

\* generate_token_pair takes the time before it stores the pair.
Stamp ==
  stamp' = [h \in Handlers |->
              IF pc'[h] # "mint" THEN 0 ELSE IF pc[h] = "mint" THEN stamp[h] ELSE clock]

\* Mutants of Signed: refresh_expires_at is the expiry, the id of the token that
\* was exchanged is the subject.
SignedForLong(h)     == [sub |-> Owner(h), exp |-> stamp[h] + LastTime]
SignedForTokenId(h) == [sub |-> OwnerByTokenId(h), exp |-> stamp[h] + AccessLifetime]

Signed(h) == [sub |-> Owner(h), exp |-> stamp[h] + AccessLifetime]

Grant(h) ==
  /\ Mint(h)
  /\ claims' = [t \in Tokens |-> IF t \in known' \ known THEN Signed(h) ELSE claims[t]]

\* A step of the auth endpoints: only the one that answers with a pair signs.
AuthStep ==
  /\ \/ \E h \in Handlers : Grant(h)
     \/ Next /\ known' = known /\ UNCHANGED claims
  /\ Stamp
  /\ UNCHANGED <<clock, visits>>

\* revoke_all_user_tokens, "logout everywhere".
RevokeAllUserTokens(u) ==
  /\ tokens' = [t \in Tokens |->
                  IF tokens[t] # NoToken /\ tokens[t].user = u
                  THEN [tokens[t] EXCEPT !.revoked = TRUE] ELSE tokens[t]]
  /\ UNCHANGED <<accounts, parent, known, pc, req, reply>>
  /\ UNCHANGED <<clock, stamp, claims, visits>>

Unexpired(c) == clock <= c.exp + Leeway

\* require_auth lets the request through, as the user the token names.
Admit(v, t) ==
  /\ visits[v] = NoVisit
  /\ t \in known /\ Unexpired(claims[t])
  /\ visits' = [visits EXCEPT ![v] = [user |-> claims[t].sub, pair |-> t]]
  /\ UNCHANGED <<vars, clock, stamp, claims>>

\* The handler behind require_auth answers, or its task is dropped.
Leave(v) ==
  /\ visits[v] # NoVisit
  /\ visits' = [visits EXCEPT ![v] = NoVisit]
  /\ UNCHANGED <<vars, clock, stamp, claims>>

Tick ==
  /\ clock < LastTime
  /\ clock' = clock + 1
  /\ UNCHANGED <<vars, stamp, claims, visits>>

SessionNext ==
  /\ \/ AuthStep
     \/ \E u \in Users : RevokeAllUserTokens(u)
     \/ \E v \in Visitors : Leave(v) \/ \E t \in Tokens : Admit(v, t)
     \/ Tick
  /\ Remember

SessionSpec == SessionInit /\ [][SessionNext]_sessionVars

-----------------------------------------------------------------------------
\* The variables that are new here hold what their Rust types admit.
SessionTypeOK ==
  /\ TypeOK
  /\ clock  \in 0 .. LastTime
  /\ stamp  \in [Handlers -> 0 .. LastTime]
  /\ claims \in [Tokens -> Claims \cup {NoClaims}]
  /\ visits \in [Visitors -> Visit \cup {NoVisit}]
  /\ alive  \in [Users -> 0 .. LastTime]

(***************************************************************************)
(* A protected handler serves the user whose password, maybe many          *)
(* rotations ago, opened the session of the access token it was shown.     *)
(***************************************************************************)
AdmittedForOwner ==
  \A v \in Visitors :
    visits[v] # NoVisit => visits[v].user = tokens[visits[v].pair].user

(***************************************************************************)
(* An access token outlives its user's session by its lifetime and the     *)
(* leeway of jsonwebtoken at most: after a logout everywhere, and when the *)
(* requests that were at work are done, nobody is let through for longer.  *)
(***************************************************************************)
Admitted(v) == visits[v] = NoVisit /\ visits'[v] # NoVisit

AccessEnds ==
  [][\A v \in Visitors :
       Admitted(v) => clock <= alive[visits'[v].user] + AccessLifetime + Leeway]_sessionVars

(***************************************************************************)
(* A session that is over comes back only with a password: no refresh and  *)
(* no access token that is still around makes a user's session valid again.*)
(***************************************************************************)
OnlyPasswordsRevive ==
  [][\A u \in Users :
       ~Alive(u) /\ Alive(u)' =>
         \E h \in Handlers : ~Active(h) /\ MayGrant(h, u)' /\ req'[h] \in Credentials]_sessionVars
==================================================================================
