SPECIFICATION FairSpec

CONSTANTS
  Handlers = {h1, h2}
  Users = {alice}
  Passwords = {p1}
  Tokens = {t1, t2, t3}
  NoAccount = NoAccount
  NoToken = NoToken
  Faults = TRUE
  OneAtATime = TRUE

INVARIANTS
  OneTokenPerSession

PROPERTIES
  ImplementsRotation
  RequestsEnd

