SPECIFICATION FairSpec

CONSTANTS
  alice = alice
  bob = bob
  n1 = n1
  n2 = n2
  blue = blue
  red = red
  h1 = h1
  h2 = h2
  NoNote = NoNote
  Ciphers = {blue, red}
  Users = {alice, bob}
  NoteIds = {n1, n2}
  MinInt = 0
  MaxInt = 1
  OverflowChecks = TRUE
  Handlers = {h1, h2}
  Notes <- OwnIds
  MaxBatch = 2
  ReadFaults = FALSE
  WriteFaults = TRUE
  Isolated = TRUE

INVARIANTS
  IsolationInv
  VerdictsAreCurrent
  RepliesCarryOwnText

PROPERTIES
  NoLostUpdate
  ImplementsAtomicSync
  RequestsEnd
