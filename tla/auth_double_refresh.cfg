SPECIFICATION Spec

CONSTANTS
  Handlers = {h1, h2}
  Users = {alice}
  Passwords = {p1}
  Tokens = {t1, t2, t3}
  NoAccount = NoAccount
  NoToken = NoToken
  Faults = FALSE
  OneAtATime = FALSE

INVARIANTS
  SingleUse

SYMMETRY Interchangeable
