SPECIFICATION FairFilesSpec

CONSTANTS
  Users = {me, nil}
  Me = me
  Sender = me
  Understood = TRUE
  NoteIds = {1, 2, 3, 4}
  Ciphers = {blue, red}
  MinInt = 0
  MaxInt = 2
  OverflowChecks = FALSE
  NoNote = NoNote
  LocalIds = {1, 2}
  NoId = NoId
  Gone = Gone
  Saves = {s1, s2}
  Syncs = {y1, y2}
  MaxSaves = 2
  MaxLosses = 1
  ClockTicks = TRUE
  Files = {photo}
  FileIds = {1, 2, 3}
  NoFile = NoFile

INVARIANTS
  FilesTypeOK
  UploadsAreTrue

PROPERTIES
  SourceOfTruth
  SyncedIsStored
  RowsTakeTheirOwnIds
  DeletedStaysDeleted
  SyncsEnd

CHECK_DEADLOCK FALSE
