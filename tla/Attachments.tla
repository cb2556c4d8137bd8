----------------------------- MODULE Attachments -----------------------------
(***************************************************************************)
(* The attachments of the notes of NotesClient: addVaultEntry encrypts a   *)
(* file, inserts its row and starts a sync, and a sync that has settled    *)
(* its notes uploads one after the other the files that have no server id. *)
(* A sync without a pending note, or one whose post failed, gets to no     *)
(* file.                                                                   *)
(*                                                                         *)
(* A file is the cipher it encrypts to; the note it belongs to is left     *)
(* out: nothing reads it.  The files of a sync are uploaded in any order.  *)
(* For an upload Understood also stands for a note_id and a table that the *)
(* INSERT of the server does not fail on: in the code the one is nil and   *)
(* the other has other columns.                                            *)
(***************************************************************************)
EXTENDS NotesClient, FiniteSets

CONSTANTS
  Files,   \* what can be attached
  FileIds, \* vault_entries.id: the time at which it was generated
  NoFile   \* no row on the device, or none at the server

ASSUME FileIdsAreTimes == FileIds \subseteq Nat /\ NoId \notin FileIds
ASSUME NoFileIsNoFile  == NoFile \notin Files \cup FileIds \cup {NoId}

VARIABLES
  files,    \* vault_entries of the device: file -> its server id, NoId or NoFile
  adding,   \* addVaultEntry calls between the encryption and the insert
  uploads,  \* syncNotes calls that have come to the attachments
  store,    \* vault_entries of the server: id -> its file, or NoFile
  fileClock,\* the last millisecond that served as the id of a file
  faults    \* uploads lost, refused or answered with an Error so far

fileVars == <<files, adding, uploads, store, fileClock, faults>>
allVars  == <<vars, fileVars>>

NoUpload == [left |-> {}, file |-> NoFile, id |-> NoId, answer |-> Error]
Answers == [tag : {"Success"}, id : FileIds] \cup {Error}

FilesInit ==
  /\ Init
  /\ files     = [f \in Files |-> NoFile]
  /\ adding    = {}
  /\ uploads   = [y \in Syncs |-> NoUpload]
  /\ store     = [i \in FileIds |-> NoFile]
  /\ fileClock = 0
  /\ faults    = 0

Waiting(f) == files[f] = NoId

-----------------------------------------------------------------------------
(***************************************************************************)
(* NotesState.addVaultEntry, called by the editor of a note that is shown. *)
(***************************************************************************)
BeginAttach(f) ==
  /\ files[f] = NoFile /\ f \notin adding
  /\ \E n \in LocalIds : cache[n] # NoNote
  /\ adding' = adding \cup {f}
  /\ UNCHANGED <<vars, files, uploads, store, fileClock, faults>>

\* Mutant of Attach: the server id is blank, and not NULL.
AttachBlank(f) ==
  /\ f \in adding
  /\ files'  = [files EXCEPT ![f] = 0]
  /\ adding' = adding \ {f}
  /\ AddVaultEntry
  /\ UNCHANGED <<uploads, store, fileClock, faults>>

Attach(f) ==
  /\ f \in adding
  /\ files'  = [files EXCEPT ![f] = NoId]
  /\ adding' = adding \ {f}
  /\ AddVaultEntry
  /\ UNCHANGED <<uploads, store, fileClock, faults>>

-----------------------------------------------------------------------------
(***************************************************************************)
(* The attachments of SyncService.syncNotes.                               *)
(***************************************************************************)
Attachable == {f \in Files : Waiting(f)}

FinishNotes(y) ==
  /\ Finish(y)
  /\ uploads' = [uploads EXCEPT ![y].left = Attachable]
  /\ UNCHANGED <<files, adding, store, fileClock, faults>>

(***************************************************************************)
(* upload_vault_entry: a plain INSERT, which the primary key refuses when  *)
(* the id is taken.                                                        *)
(***************************************************************************)
UploadVaultEntry(entry, user) ==
  IF entry.user_id = user /\ store[entry.id] = NoFile
  THEN [tag |-> "Success", id |-> entry.id] ELSE Error

Entry(f, i) == [id |-> i, user_id |-> Sender, file_cipher |-> f]
IsPosted(y) == uploads[y].file # NoFile

\* The id of f is generated, f is posted and answered.
Post(y, f, i, answer) ==
  /\ ~IsPosted(y) /\ f \in uploads[y].left /\ i \in FileIds
  /\ fileClock' = i
  /\ uploads'   = [uploads EXCEPT ![y] =
                     [left |-> @.left \ {f}, file |-> f, id |-> i, answer |-> answer]]
  /\ UNCHANGED <<files, adding>>

\* The table after the upload of f has been carried out.
Inserted(f, i) ==
  IF UploadVaultEntry(Entry(f, i), Me) = Error THEN store ELSE [store EXCEPT ![i] = f]

Upload(y) ==
  /\ Understood
  /\ \E f \in Files :
       /\ Post(y, f, fileClock + 1, UploadVaultEntry(Entry(f, fileClock + 1), Me))
       /\ store' = Inserted(f, fileClock + 1)
  /\ UNCHANGED <<vars, faults>>

(***************************************************************************)
(* An Error: the id is that of another upload of the same millisecond, or  *)
(* the server fails to write the file, or to learn that it has written it. *)
(***************************************************************************)
FailUpload(y) ==
  /\ Understood
  /\ \E f \in Files, i \in {fileClock, fileClock + 1} :
       /\ Post(y, f, i, Error)
       /\ store' \in {store, Inserted(f, i)}
  /\ faults' = faults + 1
  /\ UNCHANGED vars

\* Mutant of Mark: the id that was sent is written, whatever the answer is.
MarkSent(y) ==
  /\ IsPosted(y)
  /\ files'   = [files EXCEPT ![uploads[y].file] = uploads[y].id]
  /\ uploads' = [uploads EXCEPT ![y] = [NoUpload EXCEPT !.left = uploads[y].left]]
  /\ UNCHANGED <<vars, adding, store, fileClock, faults>>

\* An Error is skipped, without a word.
Mark(y) ==
  /\ IsPosted(y)
  /\ files'   = [files EXCEPT ![uploads[y].file] =
                   IF uploads[y].answer = Error THEN @ ELSE uploads[y].answer.id]
  /\ uploads' = [uploads EXCEPT ![y] = [NoUpload EXCEPT !.left = uploads[y].left]]
  /\ UNCHANGED <<vars, adding, store, fileClock, faults>>

\* post throws: the files that are left are not tried.
LoseUpload(y) ==
  /\ uploads[y] # NoUpload
  /\ faults'  = faults + (IF Understood THEN 1 ELSE 0)
  /\ uploads' = [uploads EXCEPT ![y] = NoUpload]
  /\ UNCHANGED <<vars, files, adding, store, fileClock>>

(***************************************************************************)
(* The app is killed: the rows survive.                                    *)
(***************************************************************************)
Kill ==
  /\ Crash
  /\ adding'  = {}
  /\ uploads' = [y \in Syncs |-> NoUpload]
  /\ UNCHANGED <<files, store, fileClock, faults>>

-----------------------------------------------------------------------------
\* A sync that uploads files is not over: its slot is not free.
SlotsAreApart == \A y \in Syncs : uploads'[y] = NoUpload \/ syncs'[y] = NoSync

Attached == {f \in Files : files[f] # NoFile} \cup adding

\* The bounds on saves and losses are those of the attachments, too.
WithinBounds ==
  /\ started' + Cardinality(Attached') <= MaxSaves
  /\ losses' + faults' <= MaxLosses

NotUnderstood(y) == ~Understood /\ Lose(y)
NoteStep(y) == Select(y) \/ Push(y) \/ Receive(y) \/ Apply(y)

NotesNext ==
  /\ \/ \E s \in Saves :
          \/ \E c \in Ciphers : BeginAdd(s, c)
          \/ \E c \in Ciphers, n \in LocalIds : BeginEdit(s, n, c)
          \/ Save(s)
     \/ \E n \in LocalIds : Delete(n)
     \/ Load \/ Show
     \/ \E y \in Syncs : NoteStep(y) \/ Refuse(y) \/ Lose(y)
  /\ UNCHANGED fileVars

FilesNext ==
  /\ \/ NotesNext
     \/ \E f \in Files : BeginAttach(f) \/ Attach(f)
     \/ \E y \in Syncs : FinishNotes(y) \/ Upload(y) \/ FailUpload(y) \/ Mark(y) \/ LoseUpload(y)
     \/ Kill
  /\ SlotsAreApart /\ WithinBounds

FilesSpec == FilesInit /\ [][FilesNext]_allVars

(***************************************************************************)
(* The event loop gets to every task, and every request is answered.       *)
(***************************************************************************)
FairFilesSpec ==
  /\ FilesSpec
  /\ WF_allVars(Load /\ UNCHANGED fileVars) /\ WF_allVars(Show /\ UNCHANGED fileVars)
  /\ \A s \in Saves : WF_allVars(Save(s) /\ UNCHANGED fileVars /\ SlotsAreApart)
  /\ \A f \in Files : WF_allVars(Attach(f) /\ SlotsAreApart)
  /\ \A y \in Syncs :
       /\ WF_allVars(((NoteStep(y) \/ NotUnderstood(y)) /\ UNCHANGED fileVars) \/ FinishNotes(y))
       /\ WF_allVars(Upload(y) \/ Mark(y) \/ (~Understood /\ LoseUpload(y)))

-----------------------------------------------------------------------------
\* Every variable holds what its Dart or SQL type admits.
FilesTypeOK ==
  /\ TypeOK
  /\ files     \in [Files -> FileIds \cup {NoId, NoFile}]
  /\ adding    \subseteq Files
  /\ store     \in [FileIds -> Files \cup {NoFile}]
  /\ fileClock \in FileIds \cup {0}
  /\ faults    \in 0 .. MaxLosses
  /\ uploads   \in [Syncs -> [left : SUBSET Files, file : Files \cup {NoFile},
                              id : FileIds \cup {NoId}, answer : Answers]]

(***************************************************************************)
(* The server id of a file names the file itself: also when two syncs      *)
(* upload it, when ids collide and when the answer to one upload comes     *)
(* after another.                                                          *)
(***************************************************************************)
UploadsAreTrue == \A f \in Files : files[f] \in FileIds => store[files[f]] = f

(***************************************************************************)
(* A call of syncNotes ends, with its last file, whatever is answered or   *)
(* lost and however many other calls, saves and deletions overlap it.      *)
(***************************************************************************)
IsSyncing(y) == syncs[y] # NoSync \/ uploads[y] # NoUpload

SyncsEnd == \A y \in Syncs : IsSyncing(y) ~> ~IsSyncing(y)

(***************************************************************************)
(* While the server does not understand the device, or the device does not *)
(* name its account, no file is stored, and none takes a server id.        *)
(***************************************************************************)
NothingIsUploaded ==
  /\ \A i \in FileIds : store[i] = NoFile
  /\ \A f \in Files : files[f] \in {NoId, NoFile}
==============================================================================
