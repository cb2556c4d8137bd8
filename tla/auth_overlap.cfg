SPECIFICATION Spec

CONSTANTS
  Handlers = {h1, h2}
  Users = {alice, bob}
  Passwords = {p1, p2}
  Tokens = {t1, t2}
  NoAccount = NoAccount
  NoToken = NoToken
  Faults = TRUE
  OneAtATime = FALSE

INVARIANTS
  TypeOK
  GrantsMatchPasswords
  FamiliesHaveOneUser

PROPERTIES
  RevokedBuysNothing

SYMMETRY Interchangeable
