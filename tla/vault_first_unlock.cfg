SPECIFICATION Spec

CONSTANTS
  Passwords = {p1}
  Salts = {a, b}
  NoKey = NoKey
  NoTimer = NoTimer
  LockDuration = 1
  Calls = {c1, c2}
  Saves = {s1}

INVARIANTS
  SaltIsGeneratedOnce

SYMMETRY Interchangeable
