SPECIFICATION Spec

CONSTANTS
  alice = alice
  bob = bob
  n1 = n1
  n2 = n2
  blue = blue
  red = red
  h1 = h1
  h2 = h2
  NoNote = NoNote
  Ciphers = {blue, red}
  Users = {alice}
  NoteIds = {n1}
  MinInt = 0
  MaxInt = 3
  OverflowChecks = TRUE
  Handlers = {h1, h2}
  Notes <- OneNote
  MaxBatch = 1
  ReadFaults = FALSE
  WriteFaults = FALSE
  Isolated = FALSE

PROPERTIES
  ReplacesWhatItCompared

SYMMETRY Interchangeable
