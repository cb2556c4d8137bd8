SPECIFICATION StoreSpec

CONSTANTS
  alice = alice
  bob = bob
  n1 = n1
  n2 = n2
  blue = blue
  red = red
  h1 = h1
  h2 = h2
  NoNote = NoNote
  Ciphers = {blue, red}
  Users = {alice, bob}
  NoteIds = {n1}
  MinInt = 0
  MaxInt = 1
  OverflowChecks = FALSE
  Handlers = {h1, h2}
  Notes <- OneIdTwoUsers
  MaxBatch = 2
  ReadFaults = TRUE
  WriteFaults = TRUE
  Isolated = FALSE

INVARIANTS
  TypeOK
  VerdictsLineUp
  OnlyTheOwnerHides

PROPERTIES
  OwnerNeverChanges
  HiddenForGood

SYMMETRY Interchangeable
