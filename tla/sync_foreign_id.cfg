SPECIFICATION Spec

CONSTANTS
  alice = alice
  bob = bob
  n1 = n1
  n2 = n2
  blue = blue
  red = red
  h1 = h1
  h2 = h2
  NoNote = NoNote
  Ciphers = {blue, red}
  Users = {alice, bob}
  NoteIds = {n1}
  MinInt = 0
  MaxInt = 2
  OverflowChecks = TRUE
  Handlers = {h1}
  Notes <- OneIdTwoUsers
  MaxBatch = 1
  ReadFaults = FALSE
  WriteFaults = FALSE
  Isolated = FALSE

PROPERTIES
  OnlyOwnersWrite
