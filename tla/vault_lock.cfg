SPECIFICATION FairNotesSpec

CONSTANTS
  Passwords = {p1, p2}
  Salts = {a, b}
  NoKey = NoKey
  NoTimer = NoTimer
  LockDuration = 2
  Calls = {c1, c2}
  Saves = {s1}
  MaxNotes = 2
  New = New
  Nothing = Nothing

INVARIANTS
  AutoLock
  OneSaltInUse
  NotesTypeOK
  ListIsFresh
  OneSaltUnlessTwice

PROPERTIES
  NotesKeepTheirKey
  LeftAloneLocks
