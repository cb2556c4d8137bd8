---------------------------- MODULE Sessions_proofs ----------------------------
(***************************************************************************)
(* Theorems about Sessions, for any number of requests, users and tokens   *)
(* and for any lifetime, leeway and last instant.                          *)
(***************************************************************************)
EXTENDS Sessions, AuthServer_proofs

USE NoAccountIsNone, NoTokenIsNone, SwitchesAreBoolean, NoTokenIsNoRow,
    LifetimesAreTimes, NoClaimsIsNone, NoVisitIsNone

\* What an access token that has reached a client says, and what a visit is.
Vouched(t) ==
  /\ claims[t] \in Claims
  /\ claims[t].sub = tokens[t].user
  /\ claims[t].exp <= alive[claims[t].sub] + AccessLifetime

Owned(v) ==
  visits[v] # NoVisit => visits[v].pair \in known /\ visits[v].user = tokens[visits[v].pair].user

Remembered(u) == Alive(u) => alive[u] = clock

SInv ==
  /\ IInv /\ SessionTypeOK
  /\ \A u \in Users : Remembered(u) /\ alive[u] <= clock
  /\ \A h \in Handlers : stamp[h] <= clock
  /\ \A t \in known : Vouched(t)
  /\ \A v \in Visitors : Owned(v)

-----------------------------------------------------------------------------
(***************************************************************************)
(* The tables of the auth endpoints.                                       *)
(***************************************************************************)

\* What a step of the auth endpoints is.
LEMMA AuthStepIsNext == AuthStep => Next
BY DEF AuthStep, Grant, Next, Handle

\* Every other step but a logout everywhere leaves the tables and handlers alone.
LEMMA OtherSteps ==
  ASSUME [SessionNext]_sessionVars
  PROVE  \/ AuthStep
         \/ \E u \in Users : RevokeAllUserTokens(u)
         \/ UNCHANGED vars /\ UNCHANGED <<stamp, claims>>
BY DEF SessionNext, Leave, Admit, Tick, sessionVars

\* A logout everywhere changes nothing but the revoked flag of tokens.
LEMMA RevokeAllRows ==
  ASSUME TypeOK, NEW u \in Users, RevokeAllUserTokens(u), NEW t \in Tokens
  PROVE  /\ tokens'[t] \in Row \cup {NoToken}
         /\ tokens[t] = NoToken <=> tokens'[t] = NoToken
         /\ tokens[t] # NoToken => /\ tokens'[t].user = tokens[t].user
                                   /\ tokens[t].revoked => tokens'[t].revoked
         /\ Valid(t)' => Valid(t)
<1>1. tokens[t] \in Row \cup {NoToken}
  BY DEF TypeOK
<1>2. CASE tokens'[t] = tokens[t]
  BY <1>1, <1>2 DEF Valid
<1>3. CASE tokens[t] # NoToken /\ tokens'[t] = [tokens[t] EXCEPT !.revoked = TRUE]
  <2>1. tokens[t] \in Row
    BY <1>1, <1>3
  <2>2. tokens'[t] \in Row /\ tokens'[t].user = tokens[t].user /\ tokens'[t].revoked
    BY <1>3, <2>1, RowEdit
  <2>3. ~Valid(t)'
    BY <2>2 DEF Valid
  <2> QED
    BY <1>3, <2>2, <2>3
<1> QED
  BY <1>2, <1>3 DEF RevokeAllUserTokens

\* A logout everywhere keeps accounts, owners and revocations.
LEMMA RevokeAllGrows ==
  ASSUME TypeOK, NEW u \in Users, RevokeAllUserTokens(u)
  PROVE  Grown
BY RevokeAllRows DEF RevokeAllUserTokens, Grown

\* It keeps the invariant of the auth endpoints.
LEMMA RevokeAllKeepsIInv ==
  ASSUME IInv, NEW u \in Users, RevokeAllUserTokens(u)
  PROVE  IInv'
<1>1. TypeOK /\ HandlerInv /\ TablesInv /\ Grown /\ \A h \in Handlers : HInv(h)
  BY IInvByHandler, RevokeAllGrows DEF IInv
<1>2. UNCHANGED <<accounts, parent, known, pc, req, reply>>
  BY DEF RevokeAllUserTokens
<1>3. tokens' \in [Tokens -> Row \cup {NoToken}]
  BY <1>1, RevokeAllRows DEF RevokeAllUserTokens
<1>4. TypeOK'
  BY <1>1, <1>2, <1>3 DEF TypeOK
<1>5. \A h \in Handlers : HInv(h)'
  BY <1>1, <1>2, OthersKeepHInv
<1>6. TablesInv'
  <2>1. /\ \A s \in Tokens : parent'[s] # NoToken => tokens'[s] # NoToken
        /\ FamiliesHaveOneUser'
    BY <1>1, <1>2, ParentsStand
  <2>2. \A t \in known' : tokens'[t] # NoToken
    BY <1>1, <1>2 DEF TablesInv, Grown, TypeOK
  <2> QED
    BY <2>1, <2>2 DEF TablesInv
<1>7. (TypeOK /\ TablesInv /\ \A h \in Handlers : HInv(h))'
  BY <1>4, <1>5, <1>6
<1> QED
  BY <1>7, IInvByHandler, PTL

\* Every step keeps that invariant and lets the tables grow only.
LEMMA TablesOfAnyStep ==
  ASSUME IInv, [SessionNext]_sessionVars
  PROVE  IInv' /\ Grown
<1>1. CASE [Next]_vars
  BY <1>1, Inductive, Growth DEF IInv
<1>2. ASSUME NEW u \in Users, RevokeAllUserTokens(u)
      PROVE  IInv' /\ Grown
  BY <1>2, RevokeAllKeepsIInv, RevokeAllGrows DEF IInv
<1> QED
  BY <1>1, <1>2, AuthStepIsNext, OtherSteps

-----------------------------------------------------------------------------
(***************************************************************************)
(* The clock, and what is remembered of it.                                *)
(***************************************************************************)

\* The clock only goes forward, and what is remembered follows it.
LEMMA TimeStep ==
  ASSUME SInv, [SessionNext]_sessionVars
  PROVE  /\ clock' \in 0 .. LastTime /\ clock <= clock'
         /\ alive' \in [Users -> 0 .. LastTime]
         /\ \A u \in Users : alive[u] <= alive'[u] /\ alive'[u] <= clock' /\ Remembered(u)'
<1>1. clock \in 0 .. LastTime /\ alive \in [Users -> 0 .. LastTime] /\ LastTime \in Nat
  BY DEF SInv, SessionTypeOK
<1>2. clock' \in 0 .. LastTime /\ clock <= clock'
  <2>1. clock' = clock \/ Tick
    BY DEF SessionNext, AuthStep, RevokeAllUserTokens, Leave, Admit, sessionVars
  <2> QED
    BY <1>1, <2>1 DEF Tick
<1>3. CASE Remember
  BY <1>1, <1>2, <1>3 DEF Remember, SInv, Remembered
<1>4. CASE UNCHANGED sessionVars
  <2>1. \A u \in Users : Alive(u)' <=> Alive(u)
    BY <1>4 DEF sessionVars, vars, Alive, MayGrant, Active, Serves, Valid
  <2> QED
    BY <1>1, <1>4, <2>1 DEF sessionVars, SInv, Remembered
<1> QED
  BY <1>3, <1>4 DEF SessionNext

\* The time of a pair is taken before it is stored.
LEMMA StampStep ==
  ASSUME SInv, [SessionNext]_sessionVars
  PROVE  /\ stamp' \in [Handlers -> 0 .. LastTime]
         /\ \A h \in Handlers : stamp'[h] <= clock'
<1>1. /\ stamp \in [Handlers -> 0 .. LastTime] /\ LastTime \in Nat
      /\ clock \in 0 .. LastTime
      /\ \A h \in Handlers : stamp[h] <= clock
  BY DEF SInv, SessionTypeOK
<1>2. clock' \in 0 .. LastTime /\ clock <= clock'
  BY TimeStep
<1>3. CASE Stamp
  BY <1>1, <1>2, <1>3 DEF Stamp
<1>4. CASE UNCHANGED stamp
  BY <1>1, <1>2, <1>4
<1> QED
  BY <1>3, <1>4, OtherSteps DEF AuthStep, RevokeAllUserTokens

-----------------------------------------------------------------------------
(***************************************************************************)
(* Access tokens.                                                          *)
(***************************************************************************)

\* An access token that has reached a client keeps its worth.
LEMMA VouchedStays ==
  ASSUME SInv, [SessionNext]_sessionVars, NEW t \in known, claims'[t] = claims[t]
  PROVE  Vouched(t)'
<1>1. t \in Tokens /\ tokens[t] # NoToken /\ Vouched(t)
  BY DEF SInv, IInv, TypeOK, HandlerInv
<1>2. tokens'[t].user = tokens[t].user
  BY <1>1, TablesOfAnyStep DEF SInv, Grown
<1>3. claims[t].sub \in Users /\ claims[t].exp \in Nat
  BY <1>1 DEF Vouched, Claims
<1>4. /\ alive[claims[t].sub] <= alive'[claims[t].sub]
      /\ alive[claims[t].sub] \in Nat /\ alive'[claims[t].sub] \in Nat
  BY <1>3, TimeStep DEF SInv, SessionTypeOK
<1> QED
  BY <1>1, <1>2, <1>3, <1>4 DEF Vouched

\* The one that a handler signs is for the owner of its pair, who is alive.
LEMMA SignedIsVouched ==
  ASSUME SInv, [SessionNext]_sessionVars, AuthStep, NEW h \in Handlers, NEW t \in Tokens,
         Store(h, t), claims'[t] = Signed(h)
  PROVE  Vouched(t)'
<1>0. TypeOK /\ HandlerInv /\ pc[h] = "mint" /\ Owner(h) \in Users
  BY OwnerIsUser DEF SInv, IInv, Store
<1>1. PICK u \in Users : u = Owner(h)
  BY <1>0
<1>2. tokens'[t] = [user |-> u, revoked |-> FALSE, expired |-> FALSE]
  BY <1>0, <1>1 DEF Store, TypeOK
<1>3. tokens'[t] \in Row
  BY <1>2 DEF Row
<1>4. Alive(u)'
  <2>1. tokens'[t].user = u /\ tokens'[t].revoked = FALSE /\ tokens'[t].expired = FALSE
    BY <1>2
  <2>2. tokens'[t] # NoToken
    BY <1>3
  <2>3. Valid(t)'
    BY <2>1, <2>2 DEF Valid
  <2> QED
    BY <2>1, <2>3 DEF Alive
<1>5. alive'[u] = clock'
  BY <1>4, TimeStep DEF Remembered
<1>6. /\ stamp[h] \in Nat /\ stamp[h] <= clock /\ clock' = clock /\ clock \in Nat
  BY DEF SInv, SessionTypeOK, AuthStep
<1>7. claims'[t] = [sub |-> u, exp |-> stamp[h] + AccessLifetime]
  BY <1>1 DEF Signed
<1>8. claims'[t] \in Claims
  BY <1>6, <1>7 DEF Claims
<1> QED
  BY <1>2, <1>5, <1>6, <1>7, <1>8 DEF Vouched

\* Every access token that has reached a client is vouched for.
LEMMA ClaimsStep ==
  ASSUME SInv, [SessionNext]_sessionVars
  PROVE  /\ claims' \in [Tokens -> Claims \cup {NoClaims}]
         /\ \A t \in known' : Vouched(t)'
<1>1. claims \in [Tokens -> Claims \cup {NoClaims}] /\ known \subseteq Tokens
  BY DEF SInv, SessionTypeOK, TypeOK
<1>2. CASE UNCHANGED <<known, claims>>
  BY <1>1, <1>2, VouchedStays
<1>3. ASSUME AuthStep, NEW h \in Handlers, Grant(h)
      PROVE  /\ claims' \in [Tokens -> Claims \cup {NoClaims}]
             /\ \A t \in known' : Vouched(t)'
  <2>1. PICK t \in Tokens : Store(h, t) /\ known' = known \cup {t}
    BY <1>3 DEF Grant, Mint
  <2>2. t \notin known
    BY <2>1 DEF SInv, IInv, HandlerInv, Store
  <2>3. claims' = [s \in Tokens |-> IF s = t THEN Signed(h) ELSE claims[s]]
    BY <1>1, <1>3, <2>1, <2>2 DEF Grant
  <2>4. claims'[t] = Signed(h) /\ \A s \in known : claims'[s] = claims[s]
    BY <1>1, <2>2, <2>3
  <2>5. Vouched(t)' /\ \A s \in known : Vouched(s)'
    BY <1>3, <2>1, <2>4, SignedIsVouched, VouchedStays
  <2>6. Signed(h) \in Claims
    BY <2>4, <2>5 DEF Vouched
  <2> QED
    BY <1>1, <2>1, <2>3, <2>5, <2>6
<1>4. CASE AuthStep /\ UNCHANGED <<known, claims>>
  BY <1>2, <1>4
<1>5. (\E u \in Users : RevokeAllUserTokens(u)) \/ (UNCHANGED vars /\ UNCHANGED claims) =>
        UNCHANGED <<known, claims>>
  BY DEF RevokeAllUserTokens, vars
<1> QED
  BY <1>2, <1>3, <1>4, <1>5, OtherSteps DEF AuthStep

\* A step admits a visitor with a token that has reached a client, or lets it be.
LEMMA VisitSteps ==
  ASSUME SInv, [SessionNext]_sessionVars, NEW v \in Visitors
  PROVE  \/ visits'[v] = visits[v]
         \/ visits'[v] = NoVisit
         \/ \E t \in known : /\ Admit(v, t)
                           /\ visits'[v] = [user |-> claims[t].sub, pair |-> t]
<1>1. visits \in [Visitors -> Visit \cup {NoVisit}]
  BY DEF SInv, SessionTypeOK
<1>2. CASE UNCHANGED visits
  BY <1>2
<1>3. ASSUME NEW w \in Visitors, Leave(w)
      PROVE  visits'[v] = visits[v] \/ visits'[v] = NoVisit
  BY <1>1, <1>3 DEF Leave
<1>4. ASSUME NEW w \in Visitors, NEW t \in Tokens, Admit(w, t), visits'[v] # visits[v]
      PROVE  /\ w = v /\ t \in known
             /\ visits'[v] = [user |-> claims[t].sub, pair |-> t]
  BY <1>1, <1>4 DEF Admit
<1> QED
  BY <1>2, <1>3, <1>4
     DEF SessionNext, AuthStep, RevokeAllUserTokens, Tick, sessionVars

\* Visits are of the user whose token was shown.
LEMMA VisitStep ==
  ASSUME SInv, [SessionNext]_sessionVars
  PROVE  /\ visits' \in [Visitors -> Visit \cup {NoVisit}]
         /\ \A v \in Visitors : Owned(v)'
<1>1. visits \in [Visitors -> Visit \cup {NoVisit}] /\ known \subseteq Tokens
  BY DEF SInv, SessionTypeOK, TypeOK
<1>2. \A t \in known : t \in known' /\ tokens[t] # NoToken /\ tokens'[t].user = tokens[t].user
  <2>1. known \subseteq known'
    BY KnownGrows, AuthStepIsNext, OtherSteps DEF RevokeAllUserTokens, vars, SInv, IInv
  <2> QED
    BY <1>1, <2>1, TablesOfAnyStep DEF SInv, IInv, HandlerInv, Grown
<1>3. ASSUME NEW v \in Visitors
      PROVE  visits'[v] \in Visit \cup {NoVisit} /\ Owned(v)'
  <2>1. CASE visits'[v] = visits[v]
    BY <1>1, <1>2, <2>1 DEF SInv, Owned
  <2>2. CASE visits'[v] = NoVisit
    BY <2>2 DEF Owned
  <2>3. ASSUME NEW t \in known, visits'[v] = [user |-> claims[t].sub, pair |-> t]
        PROVE  visits'[v] \in Visit \cup {NoVisit} /\ Owned(v)'
    <3>1. claims[t].sub \in Users /\ claims[t].sub = tokens[t].user
      BY DEF SInv, Vouched, Claims
    <3>2. visits'[v] \in Visit /\ visits'[v].user = claims[t].sub /\ visits'[v].pair = t
      BY <1>1, <2>3, <3>1 DEF Visit
    <3> QED
      BY <1>2, <3>1, <3>2 DEF Owned
  <2> QED
    BY <2>1, <2>2, <2>3, VisitSteps
<1>4. visits' = [v \in Visitors |-> visits'[v]]
  BY <1>1 DEF SessionNext, AuthStep, RevokeAllUserTokens, Leave, Admit, Tick, sessionVars
<1> QED
  BY <1>3, <1>4

-----------------------------------------------------------------------------
\* The inductive invariant always holds.
LEMMA SessionInvariance == SessionSpec => []SInv
<1>1. SessionInit => SInv
  <2> SUFFICES ASSUME SessionInit PROVE SInv
    OBVIOUS
  <2>1. IInv
    BY Initially DEF SessionInit
  <2>2. SessionTypeOK
    BY <2>1 DEF SessionInit, SessionTypeOK, IInv
  <2>3. \A u \in Users : alive[u] = 0 /\ clock = 0
    BY DEF SessionInit
  <2> QED
    BY <2>1, <2>2, <2>3 DEF SessionInit, Init, SInv, Remembered, Owned
<1>2. SInv /\ [SessionNext]_sessionVars => SInv'
  <2> SUFFICES ASSUME SInv, [SessionNext]_sessionVars PROVE SInv'
    OBVIOUS
  <2>1. IInv' /\ TypeOK'
    BY TablesOfAnyStep DEF SInv, IInv
  <2>2. SessionTypeOK'
    BY <2>1, TimeStep, StampStep, ClaimsStep, VisitStep DEF SessionTypeOK
  <2> QED
    BY <2>1, <2>2, TimeStep, StampStep, ClaimsStep, VisitStep DEF SInv
<1> QED
  BY <1>1, <1>2, PTL DEF SessionSpec

(***************************************************************************)
(* Every variable keeps its type, the clock included.                      *)
(***************************************************************************)
THEOREM SessionsAreTyped == SessionSpec => []SessionTypeOK
<1>1. SInv => SessionTypeOK
  BY DEF SInv
<1> QED
  BY <1>1, SessionInvariance, PTL

(***************************************************************************)
(* A protected handler serves the user of the session that the access      *)
(* token was granted in.                                                   *)
(***************************************************************************)
THEOREM AdmissionIsOwned == SessionSpec => []AdmittedForOwner
<1>1. SInv => AdmittedForOwner
  BY DEF SInv, Owned, AdmittedForOwner
<1> QED
  BY <1>1, SessionInvariance, PTL

(***************************************************************************)
(* No access token admits anybody for longer than its lifetime and the     *)
(* leeway after the last instant at which its user had a session.          *)
(***************************************************************************)
THEOREM AccessIsBounded == SessionSpec => AccessEnds
<1>1. ASSUME SInv, [SessionNext]_sessionVars, NEW v \in Visitors, Admitted(v)
      PROVE  clock <= alive[visits'[v].user] + AccessLifetime + Leeway
  <2>1. PICK t \in known : /\ Admit(v, t)
                           /\ visits'[v] = [user |-> claims[t].sub, pair |-> t]
    BY <1>1, VisitSteps DEF Admitted
  <2>2. Vouched(t) /\ clock <= claims[t].exp + Leeway /\ visits'[v].user = claims[t].sub
    BY <1>1, <2>1 DEF SInv, Admit, Unexpired
  <2>3. claims[t].sub \in Users /\ claims[t].exp \in Nat
    BY <2>2 DEF Vouched, Claims
  <2>4. alive[claims[t].sub] \in Nat /\ clock \in Nat
    BY <1>1, <2>3 DEF SInv, SessionTypeOK
  <2> QED
    BY <2>2, <2>3, <2>4 DEF Vouched
<1>2. SInv /\ [SessionNext]_sessionVars =>
        [\A v \in Visitors :
           Admitted(v) => clock <= alive[visits'[v].user] + AccessLifetime + Leeway]_sessionVars
  BY <1>1
<1> QED
  BY <1>2, SessionInvariance, PTL DEF SessionSpec, AccessEnds

-----------------------------------------------------------------------------
(***************************************************************************)
(* Who makes a session valid again.                                        *)
(***************************************************************************)

\* A row that a statement has written is valid only when it was valid before, or
\* is new and for the owner of the request.
LEMMA ValidAfterWrite ==
  ASSUME IInv, NEW h \in Handlers, Write(h), NEW t \in Tokens, Valid(t)'
  PROVE  \/ Valid(t) /\ tokens'[t].user = tokens[t].user
         \/ pc[h] = "mint" /\ tokens'[t].user = Owner(h)
<1>1. tokens \in [Tokens -> Row \cup {NoToken}]
  BY DEF IInv, TypeOK
<1>2. CASE tokens'[t] = tokens[t]
  BY <1>2 DEF Valid
<1>3. CASE Insert(h)
  BY <1>2, <1>3 DEF Insert
<1>4. CASE Revoke(h)
  <2>1. req[h].token \in Tokens /\ tokens[req[h].token] \in Row
    BY <1>4, RequestKind DEF IInv, HandlerInv, Revoke
  <2>2. CASE t = req[h].token
    <3>1. tokens'[t] = [tokens[t] EXCEPT !.revoked = TRUE] /\ tokens[t] \in Row
      BY <1>1, <1>4, <2>1, <2>2 DEF Revoke
    <3>2. tokens'[t].revoked
      BY <3>1, RowEdit
    <3> QED
      BY <3>2 DEF Valid
  <2>3. CASE t # req[h].token
    BY <1>1, <1>2, <1>4, <2>3 DEF Revoke
  <2> QED
    BY <2>2, <2>3
<1>5. ASSUME NEW s \in Tokens, Store(h, s), tokens'[t] # tokens[t]
      PROVE  pc[h] = "mint" /\ tokens'[t].user = Owner(h)
  BY <1>1, <1>5 DEF Store
<1> QED
  BY <1>2, <1>3, <1>4, <1>5 DEF Write

\* A token that is valid after a step of the auth endpoints belongs to a user who
\* was alive before.
LEMMA ValidWasAlive ==
  ASSUME IInv, Next, NEW t \in Tokens, Valid(t)', NEW u \in Users, tokens'[t].user = u
  PROVE  Alive(u)
<1>1. CASE Valid(t) /\ tokens'[t].user = tokens[t].user
  BY <1>1 DEF Alive
<1>2. CASE UNCHANGED tables
  BY <1>1, <1>2 DEF tables, Valid
<1>3. ASSUME NEW h \in Handlers, Write(h)
      PROVE  Alive(u)
  <2>1. CASE pc[h] = "mint" /\ Owner(h) = u
    BY <2>1 DEF Alive, MayGrant, Active, Owner
  <2> QED
    BY <1>1, <1>3, <2>1, ValidAfterWrite
<1>4. ASSUME NEW s \in Tokens, Expire(s)
      PROVE  Alive(u)
  <2>1. tokens[s] \in Row /\ tokens \in [Tokens -> Row \cup {NoToken}]
    BY <1>4 DEF Expire, IInv, TypeOK
  <2>2. CASE t = s
    <3>1. tokens'[t] = [tokens[t] EXCEPT !.expired = TRUE]
      BY <1>4, <2>1, <2>2 DEF Expire
    <3>2. tokens'[t].expired
      BY <2>1, <2>2, <3>1 DEF Row
    <3> QED
      BY <3>2 DEF Valid
  <2>3. CASE t # s
    <3>1. tokens'[t] = tokens[t]
      BY <1>4, <2>1, <2>3 DEF Expire
    <3> QED
      BY <1>1, <3>1 DEF Valid
  <2> QED
    BY <2>2, <2>3
<1> QED
  BY <1>2, <1>3, <1>4, TablesStep DEF Next

\* A request that may grant u a pair after such a step either could before, for u
\* was alive, or has just come in with a password.
LEMMA GranterWasAlive ==
  ASSUME IInv, Next, NEW h \in Handlers, NEW u \in Users, MayGrant(h, u)'
  PROVE  Alive(u) \/ (~Active(h) /\ req'[h] \in Credentials)
<1>1. TypeOK /\ HandlerInv /\ Grown
  BY Growth DEF IInv
<1>2. pc[h] # "idle" /\ Serves(h, "refresh") =>
        /\ req[h].token \in Tokens /\ tokens[req[h].token] # NoToken
        /\ tokens'[req[h].token].user = tokens[req[h].token].user
  BY <1>1, RequestKind DEF Grown, HandlerInv
<1>3. CASE UNCHANGED <<pc[h], req[h]>>
  <2>1. MayGrant(h, u)
    BY <1>2, <1>3 DEF MayGrant, Active, Serves
  <2> QED
    BY <2>1 DEF Alive
<1>4. CASE Handle(h)
  <2>1. Active(h) /\ req'[h] = req[h]
    BY <1>1, <1>4 DEF Handle, CheckFree, CheckPassword, FindToken, CreateUser, RevokeOld, Mint,
       Fail, Deny, GoOn, Answer, Insert, Revoke, Store, Active, TypeOK
  <2>2. CASE ~Serves(h, "refresh")
    <3>1. MayGrant(h, u)
      BY <2>1, <2>2 DEF MayGrant, Serves
    <3> QED
      BY <3>1 DEF Alive
  <2>3. CASE Serves(h, "refresh")
    <3>1. PICK t \in Tokens : t = req[h].token /\ tokens[t].user = u
      BY <1>2, <2>1, <2>3 DEF MayGrant, Active, Serves
    <3>2. FoundValid(h, t)'
      BY <2>1, <2>3, <3>1 DEF MayGrant, FoundValid, Presents, Serves
    <3>3. FoundValid(h, t) \/ Valid(t)
      BY <1>1, <3>1, <3>2, HeldWasFoundValid
    <3>4. FoundValid(h, t) => MayGrant(h, u)
      BY <2>3, <3>1 DEF FoundValid, Presents, MayGrant
    <3> QED
      BY <3>1, <3>3, <3>4 DEF Alive
  <2> QED
    BY <2>2, <2>3
<1>5. CASE Drop(h)
  BY <1>1, <1>5 DEF Drop, TypeOK, MayGrant, Active
<1>6. ASSUME NEW r \in Requests, Accept(h, r)
      PROVE  ~Active(h) /\ req'[h] \in Credentials
  <2>1. ~Active(h) /\ pc'[h] = "lookup" /\ req'[h] = r
    BY <1>1, <1>6 DEF Accept, TypeOK
  <2>2. r.op # "refresh"
    BY <2>1 DEF MayGrant, Serves
  <2> QED
    BY <2>1, <2>2 DEF Requests, Refreshes
<1>7. ASSUME NEW t \in Tokens, Expire(t)
      PROVE  UNCHANGED <<pc[h], req[h]>>
  BY <1>7 DEF Expire
<1> QED
  BY <1>1, <1>3, <1>4, <1>5, <1>6, <1>7, OthersStay DEF Next

\* After a logout everywhere nobody is alive who was not before.
LEMMA RevokeAllRevivesNobody ==
  ASSUME IInv, NEW w \in Users, RevokeAllUserTokens(w), NEW u \in Users, Alive(u)'
  PROVE  Alive(u)
<1>1. TypeOK /\ HandlerInv /\ UNCHANGED <<pc, req>>
  BY DEF IInv, RevokeAllUserTokens
<1>2. ASSUME NEW t \in Tokens, Valid(t)', tokens'[t].user = u
      PROVE  Valid(t) /\ tokens[t].user = u
  BY <1>1, <1>2, RevokeAllRows DEF Valid
<1>3. ASSUME NEW h \in Handlers, MayGrant(h, u)'
      PROVE  MayGrant(h, u)
  <2>1. pc[h] # "idle" /\ Serves(h, "refresh") =>
          /\ req[h].token \in Tokens /\ tokens[req[h].token] # NoToken
          /\ tokens'[req[h].token].user = tokens[req[h].token].user
    BY <1>1, RequestKind, RevokeAllRows DEF HandlerInv
  <2> QED
    BY <1>1, <1>3, <2>1 DEF MayGrant, Active, Serves
<1> QED
  BY <1>2, <1>3 DEF Alive

(***************************************************************************)
(* A user without a valid token, and without a request at work for it,     *)
(* gets a session again only by a request with a password.                 *)
(***************************************************************************)
THEOREM PasswordsRevive == SessionSpec => OnlyPasswordsRevive
<1>1. ASSUME SInv, [SessionNext]_sessionVars, NEW u \in Users, ~Alive(u), Alive(u)'
      PROVE  \E h \in Handlers : ~Active(h) /\ MayGrant(h, u)' /\ req'[h] \in Credentials
  <2>0. IInv
    BY <1>1 DEF SInv
  <2>1. CASE Next
    <3>1. ~ \E t \in Tokens : Valid(t)' /\ tokens'[t].user = u
      BY <1>1, <2>0, <2>1, ValidWasAlive
    <3>2. PICK h \in Handlers : MayGrant(h, u)'
      BY <1>1, <3>1 DEF Alive
    <3> QED
      BY <1>1, <2>0, <2>1, <3>2, GranterWasAlive
  <2>2. ASSUME NEW w \in Users, RevokeAllUserTokens(w)
        PROVE  FALSE
    BY <1>1, <2>0, <2>2, RevokeAllRevivesNobody
  <2>3. CASE UNCHANGED vars
    BY <1>1, <2>3 DEF vars, Alive, MayGrant, Active, Serves, Valid
  <2> QED
    BY <1>1, <2>1, <2>2, <2>3, AuthStepIsNext, OtherSteps
<1>2. SInv /\ [SessionNext]_sessionVars =>
        [\A u \in Users :
           ~Alive(u) /\ Alive(u)' =>
             \E h \in Handlers : ~Active(h) /\ MayGrant(h, u)' /\ req'[h] \in Credentials]_sessionVars
  BY <1>1
<1> QED
  BY <1>2, SessionInvariance, PTL DEF SessionSpec, OnlyPasswordsRevive
-----------------------------------------------------------------------------
(***************************************************************************)
(* What AuthServer promises holds with a logout everywhere, which writes   *)
(* to its tables between the statements of its handlers.                   *)
(***************************************************************************)

\* A step of the endpoints, a logout everywhere, or one that both ignore.
LEMMA SessionStepIs ==
  ASSUME [SessionNext]_sessionVars
  PROVE  [Next]_vars \/ \E u \in Users : RevokeAllUserTokens(u)
BY AuthStepIsNext, OtherSteps

(***************************************************************************)
(* register and login grant a pair only for the password that the account  *)
(* keeps, also when the user is logged out everywhere in between.          *)
(***************************************************************************)
THEOREM GrantsOutliveLogout == SessionSpec => []GrantsMatchPasswords
<1>1. SInv => GrantsMatchPasswords
  BY DEF SInv, IInv
<1> QED
  BY <1>1, SessionInvariance, PTL

(***************************************************************************)
(* A token that is revoked, by its exchange or by a logout everywhere,     *)
(* buys nothing once the refreshes that found it valid before are done.    *)
(***************************************************************************)
THEOREM LogoutIsFinal == SessionSpec => RevokedBuysNothing
<1>1. ASSUME SInv, [SessionNext]_sessionVars, NEW t \in Tokens, Dead(t)
      PROVE  Dead(t)' /\ Children(t)' = Children(t)
  <2>1. CASE [Next]_vars
    BY <1>1, <2>1, DeadStaysDead DEF SInv, IInv
  <2>2. ASSUME NEW u \in Users, RevokeAllUserTokens(u)
        PROVE  Dead(t)' /\ Children(t)' = Children(t)
    <3>1. UNCHANGED <<parent, pc, req>>
      BY <2>2 DEF RevokeAllUserTokens
    <3>2. tokens'[t] # NoToken /\ tokens'[t].revoked
      BY <1>1, <2>2, RevokeAllRows DEF SInv, IInv, Dead
    <3> QED
      BY <1>1, <3>1, <3>2 DEF Dead, FoundValid, Presents, Active, Serves, Children
  <2> QED
    BY <1>1, <2>1, <2>2, SessionStepIs
<1>2. SInv /\ [SessionNext]_sessionVars =>
        [\A t \in Tokens : Dead(t) => Dead(t)' /\ Children(t)' = Children(t)]_vars
  BY <1>1
<1> QED
  BY <1>2, SessionInvariance, PTL DEF SessionSpec, RevokedBuysNothing

\* A logout everywhere only takes tokens away from who might exchange them.
LEMMA LogoutKeepsChains ==
  ASSUME IInv, ExchangeInv, ChainInv, NEW u \in Users, RevokeAllUserTokens(u)
  PROVE  ExchangeInv' /\ ChainInv'
<1>1. UNCHANGED <<parent, pc, req>> /\ TypeOK
  BY DEF RevokeAllUserTokens, IInv
<1>2. ExchangeInv'
  BY <1>1 DEF ExchangeInv, FoundValid, Presents, Active, Serves, Children, SingleUse
<1>3. ASSUME NEW t \in Tokens, Spendable(t)'
      PROVE  Spendable(t)
  <2>1. Unspent(t)' => Unspent(t)
    BY <1>1, RevokeAllRows DEF Unspent
  <2>2. \A h \in Handlers : FoundValid(h, t)' => FoundValid(h, t)
    BY <1>1 DEF FoundValid, Presents, Active, Serves
  <2> QED
    BY <1>3, <2>1, <2>2 DEF Spendable
<1> QED
  BY <1>1, <1>2, <1>3, ChainStands

(***************************************************************************)
(* With no token presented twice at the same time, a session has one token *)
(* that is not revoked, at most, and none is exchanged twice: also when a  *)
(* logout everywhere falls between finding a token, revoking it and        *)
(* storing its replacement.                                                *)
(***************************************************************************)
THEOREM RotationOutlivesLogout ==
  ASSUME OneAtATime
  PROVE  SessionSpec => [](OneTokenPerSession /\ SingleUse)
<1>1. Init => ExchangeInv /\ ChainInv
  BY RotationInitially, ChainInitially DEF RotationInv
<1>2. IInv /\ ExchangeInv /\ ChainInv /\ [SessionNext]_sessionVars => (ExchangeInv /\ ChainInv)'
  BY SessionStepIs, ExchangeStep, ChainStep, LogoutKeepsChains
<1>3. SInv => IInv
  BY DEF SInv
<1>4. ExchangeInv /\ ChainInv => OneTokenPerSession /\ SingleUse
  BY ChainIsOneToken DEF ExchangeInv
<1> QED
  BY <1>1, <1>2, <1>3, <1>4, SessionInvariance, PTL DEF SessionSpec, SessionInit
===============================================================================
