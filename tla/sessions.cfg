SPECIFICATION SessionSpec

CONSTANTS
  Handlers = {h1}
  Users = {alice, bob}
  Passwords = {p1}
  Tokens = {t1, t2}
  NoAccount = NoAccount
  NoToken = NoToken
  Faults = TRUE
  OneAtATime = FALSE
  Visitors = {v1}
  AccessLifetime = 1
  Leeway = 1
  LastTime = 3
  NoClaims = NoClaims
  NoVisit = NoVisit

INVARIANTS
  SessionTypeOK
  AdmittedForOwner

PROPERTIES
  AccessEnds
  OnlyPasswordsRevive

SYMMETRY Interchangeable
