SPECIFICATION Spec

CONSTANTS
  Users = {me, nil}
  Me = me
  Sender = me
  Understood = TRUE
  NoteIds = {1, 2, 3, 4, 5, 6}
  Ciphers = {blue, red}
  MinInt = 0
  MaxInt = 4
  OverflowChecks = FALSE
  NoNote = NoNote
  LocalIds = {1, 2}
  NoId = NoId
  Gone = Gone
  Saves = {s1, s2}
  Syncs = {y1, y2}
  MaxSaves = 2
  MaxLosses = 0
  ClockTicks = TRUE

INVARIANTS
  SyncedMatchesHub

CHECK_DEADLOCK FALSE
