-------------------------- MODULE Attachments_proofs --------------------------
(***************************************************************************)
(* Theorems about Attachments, for any number of notes, files, saves and   *)
(* syncs: with attachments the notes do what NotesClient says, and a file  *)
(* gets the id of its own upload.                                          *)
(***************************************************************************)
EXTENDS Attachments, NotesClient_proofs

USE IntRange, NoNoteIsNoNote, ChecksIsBoolean, LocalIdsAreInts, NoteIdsAreTimes, IAmAUser,
    ASwitch, BoundsAreNats, ClockIsASwitch, VersionOne, MarkersAreNoRows, NoIdIsNoId,
    FileIdsAreTimes, NoFileIsNoFile

-----------------------------------------------------------------------------
(***************************************************************************)
(* Refinement: what attachments do to the notes is what NotesClient does.  *)
(***************************************************************************)
LEMMA NotesStep == [FilesNext]_allVars => [Next]_vars
<1> SUFFICES ASSUME [FilesNext]_allVars PROVE [Next]_vars
  OBVIOUS
<1>1. CASE UNCHANGED allVars
  BY <1>1 DEF allVars
<1>2. CASE NotesNext
  BY <1>2 DEF NotesNext, NoteStep, Next, Sync
<1>3. ASSUME NEW f \in Files, BeginAttach(f) \/ Attach(f)
      PROVE  [Next]_vars
  BY <1>3 DEF BeginAttach, Attach, Next
<1>4. ASSUME NEW y \in Syncs, FinishNotes(y)
      PROVE  Next
  BY <1>4 DEF FinishNotes, Next, Sync
<1>5. ASSUME NEW y \in Syncs, Upload(y) \/ FailUpload(y) \/ Mark(y) \/ LoseUpload(y)
      PROVE  UNCHANGED vars
  BY <1>5 DEF Upload, FailUpload, Mark, LoseUpload
<1>6. CASE Kill
  BY <1>6 DEF Kill, Next
<1> QED
  BY <1>1, <1>2, <1>3, <1>4, <1>5, <1>6 DEF FilesNext

(***************************************************************************)
(* A device with attachments is a device of NotesClient: every theorem     *)
(* about the notes holds with attachments, too.                            *)
(***************************************************************************)
THEOREM FilesLeaveNotesAlone == FilesSpec => Spec
<1>1. FilesInit => Init
  BY DEF FilesInit
<1> QED
  BY <1>1, NotesStep, PTL DEF FilesSpec, Spec

-----------------------------------------------------------------------------
(***************************************************************************)
(* Types.                                                                  *)
(***************************************************************************)
Uploads == [left : SUBSET Files, file : Files \cup {NoFile}, id : FileIds \cup {NoId}, answer : Answers]

\* Nothing being uploaded has its type.
LEMMA NoUploadType == NoUpload \in Uploads
BY DEF NoUpload, Uploads, Answers

\* The answers of the server have their type.
LEMMA AnswerType ==
  ASSUME NEW f \in Files, NEW i \in FileIds
  PROVE  UploadVaultEntry(Entry(f, i), Me) \in Answers
BY DEF UploadVaultEntry, Entry, Answers

\* Posting a file keeps the types, whatever the answer is.
LEMMA PostType ==
  ASSUME FilesTypeOK, NEW y \in Syncs, NEW f \in Files, NEW i, NEW answer \in Answers,
         Post(y, f, i, answer), store' \in {store, Inserted(f, i)}
  PROVE  /\ i \in FileIds /\ fileClock' \in FileIds
         /\ uploads' \in [Syncs -> Uploads]
         /\ store' \in [FileIds -> Files \cup {NoFile}]
         /\ files' = files /\ adding' = adding
<1>1. i \in FileIds /\ fileClock' = i /\ files' = files /\ adding' = adding
  BY DEF Post
<1>2. uploads[y] \in Uploads
  BY DEF FilesTypeOK, Uploads
<1>3. [left |-> uploads[y].left \ {f}, file |-> f, id |-> i, answer |-> answer] \in Uploads
  BY <1>1, <1>2 DEF Uploads
<1>4. uploads' \in [Syncs -> Uploads]
  BY <1>3 DEF Post, FilesTypeOK, Uploads
<1>5. store' \in [FileIds -> Files \cup {NoFile}]
  BY <1>1 DEF Inserted, FilesTypeOK
<1> QED
  BY <1>1, <1>4, <1>5

\* Every step keeps the types of the files.
LEMMA FilesTypeStep ==
  ASSUME TypeOK', FilesTypeOK, [FilesNext]_allVars
  PROVE  FilesTypeOK'
<1>1. faults' \in Nat => faults' \in 0 .. MaxLosses
  <2>1. CASE UNCHANGED allVars
    BY <2>1 DEF allVars, fileVars, FilesTypeOK
  <2>2. CASE FilesNext
    <3>1. losses' + faults' <= MaxLosses /\ losses' \in Nat
      BY <2>2 DEF FilesNext, WithinBounds, TypeOK
    <3> QED
      BY <3>1
  <2> QED
    BY <2>1, <2>2
<1>2. faults \in Nat
  BY DEF FilesTypeOK
<1>3. ASSUME files' \in [Files -> FileIds \cup {NoId, NoFile}], adding' \subseteq Files,
             store' \in [FileIds -> Files \cup {NoFile}], fileClock' \in FileIds \cup {0},
             uploads' \in [Syncs -> Uploads], faults' = faults \/ faults' = faults + 1
      PROVE  FilesTypeOK'
  BY <1>1, <1>2, <1>3 DEF FilesTypeOK, Uploads
<1>4. CASE UNCHANGED fileVars
  BY <1>3, <1>4 DEF fileVars, FilesTypeOK, Uploads
<1>5. ASSUME NEW f \in Files, BeginAttach(f) \/ Attach(f)
      PROVE  FilesTypeOK'
  BY <1>3, <1>5 DEF BeginAttach, Attach, FilesTypeOK, Uploads
<1>6. ASSUME NEW y \in Syncs, FinishNotes(y)
      PROVE  FilesTypeOK'
  <2>1. Attachable \in SUBSET Files
    BY DEF Attachable
  <2>2. uploads' \in [Syncs -> Uploads]
    BY <1>6, <2>1 DEF FinishNotes, FilesTypeOK, Uploads
  <2> QED
    BY <1>3, <1>6, <2>2 DEF FinishNotes, FilesTypeOK
<1>7. ASSUME NEW y \in Syncs, Upload(y)
      PROVE  FilesTypeOK'
  <2>1. PICK f \in Files :
          /\ Post(y, f, fileClock + 1, UploadVaultEntry(Entry(f, fileClock + 1), Me))
          /\ store' = Inserted(f, fileClock + 1)
    BY <1>7 DEF Upload
  <2>2. fileClock + 1 \in FileIds
    BY <2>1 DEF Post
  <2>3. UploadVaultEntry(Entry(f, fileClock + 1), Me) \in Answers
    BY <2>2, AnswerType
  <2> QED
    BY <1>3, <1>7, <2>1, <2>3, PostType DEF Upload, FilesTypeOK
<1>8. ASSUME NEW y \in Syncs, FailUpload(y)
      PROVE  FilesTypeOK'
  <2>1. PICK f \in Files, i \in {fileClock, fileClock + 1} :
          Post(y, f, i, Error) /\ store' \in {store, Inserted(f, i)}
    BY <1>8 DEF FailUpload
  <2>2. Error \in Answers
    BY DEF Answers
  <2> QED
    BY <1>3, <1>8, <2>1, <2>2, PostType DEF FailUpload, FilesTypeOK
<1>9. ASSUME NEW y \in Syncs, Mark(y)
      PROVE  FilesTypeOK'
  <2>1. uploads[y] \in Uploads /\ uploads[y].file \in Files
    BY <1>9 DEF Mark, IsPosted, FilesTypeOK, Uploads
  <2>2. [NoUpload EXCEPT !.left = uploads[y].left] \in Uploads
    BY <2>1, NoUploadType DEF Uploads
  <2>3. uploads' \in [Syncs -> Uploads]
    BY <1>9, <2>2 DEF Mark, FilesTypeOK, Uploads
  <2>4. uploads[y].answer # Error => uploads[y].answer.id \in FileIds
    BY <2>1 DEF Uploads, Answers
  <2>5. files' \in [Files -> FileIds \cup {NoId, NoFile}]
    BY <1>9, <2>4 DEF Mark, FilesTypeOK
  <2> QED
    BY <1>3, <1>9, <2>3, <2>5 DEF Mark, FilesTypeOK
<1>10. ASSUME NEW y \in Syncs, LoseUpload(y)
      PROVE  FilesTypeOK'
  <2>1. uploads' \in [Syncs -> Uploads]
    BY <1>10, NoUploadType DEF LoseUpload, FilesTypeOK, Uploads
  <2> QED
    BY <1>3, <1>10, <2>1 DEF LoseUpload, FilesTypeOK
<1>11. CASE Kill
  <2>1. uploads' \in [Syncs -> Uploads]
    BY <1>11, NoUploadType DEF Kill
  <2> QED
    BY <1>3, <1>11, <2>1 DEF Kill, FilesTypeOK
<1> QED
  BY <1>4, <1>5, <1>6, <1>7, <1>8, <1>9, <1>10, <1>11 DEF FilesNext, NotesNext, allVars

\* The types of the files hold initially.
LEMMA FilesTypeInit == FilesInit => FilesTypeOK
<1>1. ASSUME FilesInit PROVE uploads \in [Syncs -> Uploads]
  BY <1>1, NoUploadType DEF FilesInit
<1> QED
  BY <1>1, TypeInit DEF FilesInit, FilesTypeOK, Uploads

(***************************************************************************)
(* Files, uploads and what the server has of them always have their types. *)
(***************************************************************************)
THEOREM FilesAreTyped == FilesSpec => []FilesTypeOK
<1>1. FilesTypeOK /\ [FilesNext]_allVars => FilesTypeOK'
  <2>1. FilesTypeOK => TypeOK
    BY DEF FilesTypeOK
  <2> QED
    BY <2>1, NotesStep, TypeStep, FilesTypeStep
<1> QED
  BY <1>1, FilesTypeInit, PTL DEF FilesSpec

-----------------------------------------------------------------------------
(***************************************************************************)
(* A Success names an id under which the server has the file; and what the *)
(* server has it keeps, for an INSERT never writes over a row.             *)
(***************************************************************************)
SuccessIsStored ==
  \A y \in Syncs : uploads[y].answer # Error => store[uploads[y].answer.id] = uploads[y].file

UploadsInv == UploadsAreTrue /\ SuccessIsStored

\* Whatever keeps the rows of the server and brings no answer.
LEMMA QuietUploads ==
  ASSUME FilesTypeOK, UploadsInv,
         \A i \in FileIds : store[i] # NoFile => store'[i] = store[i],
         \A f \in Files : files'[f] \in FileIds => files'[f] = files[f],
         \A y \in Syncs : \/ uploads'[y].answer = Error
                          \/ /\ uploads'[y].answer = uploads[y].answer
                             /\ uploads'[y].file = uploads[y].file
                             /\ uploads[y].file \in Files
  PROVE  UploadsInv'
<1>1. ASSUME NEW f \in Files, files'[f] \in FileIds
      PROVE  store'[files'[f]] = f
  <2>1. files'[f] = files[f] /\ store[files[f]] = f
    BY <1>1 DEF UploadsInv, UploadsAreTrue
  <2>2. store[files[f]] # NoFile
    BY <2>1
  <2> QED
    BY <1>1, <2>1, <2>2
<1>2. ASSUME NEW y \in Syncs, uploads'[y].answer # Error
      PROVE  store'[uploads'[y].answer.id] = uploads'[y].file
  <2>0. /\ uploads'[y].answer = uploads[y].answer /\ uploads'[y].file = uploads[y].file
        /\ uploads[y].file \in Files
    BY <1>2
  <2>1. uploads[y].answer \in Answers /\ uploads[y].answer # Error
    BY <1>2, <2>0 DEF FilesTypeOK
  <2>2. uploads[y].answer.id \in FileIds
    BY <2>1 DEF Answers
  <2>3. store[uploads[y].answer.id] = uploads[y].file
    BY <2>1 DEF UploadsInv, SuccessIsStored
  <2>4. store'[uploads[y].answer.id] = uploads[y].file
    BY <2>0, <2>2, <2>3
  <2> QED
    BY <2>0, <2>4
<1> QED
  BY <1>1, <1>2 DEF UploadsInv, UploadsAreTrue, SuccessIsStored

\* An INSERT keeps every row, and one that is not refused makes one.
LEMMA InsertKeepsRows ==
  ASSUME FilesTypeOK, NEW f \in Files, NEW i \in FileIds
  PROVE  /\ \A j \in FileIds : store[j] # NoFile => Inserted(f, i)[j] = store[j]
         /\ UploadVaultEntry(Entry(f, i), Me) # Error =>
              /\ Inserted(f, i)[i] = f
              /\ UploadVaultEntry(Entry(f, i), Me).id = i
BY DEF Inserted, UploadVaultEntry, Entry, FilesTypeOK

\* What a sync carries an answer for is a file.
PostedIsAFile == \A y \in Syncs : uploads[y].answer # Error => uploads[y].file \in Files

\* Every step keeps the answers with their files.
LEMMA PostedStep ==
  ASSUME FilesTypeOK, PostedIsAFile, [FilesNext]_allVars
  PROVE  PostedIsAFile'
<1>1. CASE UNCHANGED uploads
  BY <1>1 DEF PostedIsAFile
<1>2. ASSUME NEW y \in Syncs, NEW upload, uploads' = [uploads EXCEPT ![y] = upload],
             upload.answer = Error \/ upload.file \in Files
      PROVE  PostedIsAFile'
  BY <1>2 DEF PostedIsAFile, FilesTypeOK
<1>3. ASSUME NEW y \in Syncs, FinishNotes(y)
      PROVE  PostedIsAFile'
  BY <1>3 DEF FinishNotes, PostedIsAFile, FilesTypeOK
<1>4. ASSUME NEW y \in Syncs, Upload(y) \/ FailUpload(y)
      PROVE  PostedIsAFile'
  BY <1>2, <1>4 DEF Upload, FailUpload, Post
<1>5. ASSUME NEW y \in Syncs, Mark(y) \/ LoseUpload(y)
      PROVE  PostedIsAFile'
  BY <1>2, <1>5 DEF Mark, LoseUpload, NoUpload
<1>6. CASE Kill
  BY <1>6 DEF Kill, PostedIsAFile, NoUpload
<1> QED
  BY <1>1, <1>3, <1>4, <1>5, <1>6
     DEF FilesNext, NotesNext, allVars, fileVars, BeginAttach, Attach

\* Every step keeps ids and answers true.
LEMMA UploadsStep ==
  ASSUME FilesTypeOK, UploadsInv, PostedIsAFile, [FilesNext]_allVars
  PROVE  UploadsInv'
<1>1. ASSUME UNCHANGED <<store, uploads>>,
             \A f \in Files : files'[f] \in FileIds => files'[f] = files[f]
      PROVE  UploadsInv'
  BY <1>1 DEF UploadsInv, UploadsAreTrue, SuccessIsStored
<1>2. ASSUME NEW f \in Files, BeginAttach(f) \/ Attach(f)
      PROVE  UploadsInv'
  BY <1>1, <1>2 DEF BeginAttach, Attach, FilesTypeOK
<1>3. ASSUME NEW y \in Syncs, FinishNotes(y)
      PROVE  UploadsInv'
  BY <1>3, QuietUploads DEF FinishNotes, FilesTypeOK, PostedIsAFile
<1>4. ASSUME NEW y \in Syncs, Upload(y)
      PROVE  UploadsInv'
  <2> DEFINE i == fileClock + 1
  <2>1. PICK f \in Files :
          Post(y, f, i, UploadVaultEntry(Entry(f, i), Me)) /\ store' = Inserted(f, i)
    BY <1>4 DEF Upload
  <2> HIDE DEF i
  <2>2. i \in FileIds /\ files' = files
    BY <2>1 DEF Post
  <2>3. \A j \in FileIds : store[j] # NoFile => store'[j] = store[j]
    BY <2>1, <2>2, InsertKeepsRows
  <2>4. \A z \in Syncs \ {y} : uploads'[z] = uploads[z]
    BY <2>1 DEF Post, FilesTypeOK
  <2>5. uploads'[y].answer # Error => store'[uploads'[y].answer.id] = uploads'[y].file
    <3>1. /\ uploads'[y].answer = UploadVaultEntry(Entry(f, i), Me)
          /\ uploads'[y].file = f
      BY <2>1 DEF Post, FilesTypeOK
    <3> QED
      BY <2>1, <2>2, <3>1, InsertKeepsRows
  <2>6. UploadsAreTrue'
    BY <2>2, <2>3 DEF UploadsInv, UploadsAreTrue
  <2>7. ASSUME NEW z \in Syncs \ {y}, uploads'[z].answer # Error
        PROVE  store'[uploads'[z].answer.id] = uploads'[z].file
    <3>1. uploads[z].answer.id \in FileIds
      BY <2>4, <2>7 DEF FilesTypeOK, Answers
    <3>2. store[uploads[z].answer.id] = uploads[z].file /\ uploads[z].file \in Files
      BY <2>4, <2>7 DEF UploadsInv, SuccessIsStored, PostedIsAFile
    <3> QED
      BY <2>3, <2>4, <3>1, <3>2
  <2> QED
    BY <2>3, <2>5, <2>6, <2>7 DEF UploadsInv, SuccessIsStored
<1>5. ASSUME NEW y \in Syncs, FailUpload(y)
      PROVE  UploadsInv'
  <2>1. PICK f \in Files, i \in {fileClock, fileClock + 1} :
          Post(y, f, i, Error) /\ store' \in {store, Inserted(f, i)}
    BY <1>5 DEF FailUpload
  <2>2. i \in FileIds /\ files' = files
    BY <2>1 DEF Post
  <2>3. \A j \in FileIds : store[j] # NoFile => store'[j] = store[j]
    BY <2>1, <2>2, InsertKeepsRows
  <2>4. \A z \in Syncs : uploads'[z].answer = Error \/ uploads'[z] = uploads[z]
    BY <2>1 DEF Post, FilesTypeOK
  <2> QED
    BY <2>2, <2>3, <2>4, QuietUploads DEF PostedIsAFile
<1>6. ASSUME NEW y \in Syncs, Mark(y)
      PROVE  UploadsInv'
  <2>1. store' = store
    BY <1>6 DEF Mark
  <2>2. \A z \in Syncs : uploads'[z].answer = Error \/ uploads'[z] = uploads[z]
    BY <1>6 DEF Mark, NoUpload, FilesTypeOK
  <2>3. SuccessIsStored'
    BY <2>1, <2>2 DEF UploadsInv, SuccessIsStored
  <2>4. ASSUME NEW f \in Files, files'[f] \in FileIds
        PROVE  store[files'[f]] = f
    <3>1. CASE files'[f] = files[f]
      BY <2>4, <3>1 DEF UploadsInv, UploadsAreTrue
    <3>2. CASE files'[f] # files[f]
      <4>1. f = uploads[y].file /\ uploads[y].answer # Error /\ files'[f] = uploads[y].answer.id
        BY <1>6, <3>2 DEF Mark, FilesTypeOK
      <4> QED
        BY <4>1 DEF UploadsInv, SuccessIsStored
    <3> QED
      BY <3>1, <3>2
  <2> QED
    BY <2>1, <2>3, <2>4 DEF UploadsInv, UploadsAreTrue
<1>7. ASSUME NEW y \in Syncs, LoseUpload(y)
      PROVE  UploadsInv'
  <2>1. \A z \in Syncs : uploads'[z].answer = Error \/ uploads'[z] = uploads[z]
    BY <1>7 DEF LoseUpload, NoUpload, FilesTypeOK
  <2> QED
    BY <1>7, <2>1, QuietUploads DEF LoseUpload, PostedIsAFile
<1>8. CASE Kill
  <2>1. \A z \in Syncs : uploads'[z].answer = Error
    BY <1>8 DEF Kill, NoUpload
  <2> QED
    BY <1>8, <2>1, QuietUploads DEF Kill
<1>9. CASE UNCHANGED fileVars
  BY <1>1, <1>9 DEF fileVars
<1> QED
  BY <1>2, <1>3, <1>4, <1>5, <1>6, <1>7, <1>8, <1>9 DEF FilesNext, NotesNext, allVars

\* Nothing is uploaded initially.
LEMMA UploadsInit == FilesInit => UploadsInv /\ PostedIsAFile
BY DEF FilesInit, UploadsInv, UploadsAreTrue, SuccessIsStored, PostedIsAFile, NoUpload

(***************************************************************************)
(* The server id of a file names the file itself, for any number of files  *)
(* and overlapping syncs, whatever collides, is lost, refused or crashes.  *)
(***************************************************************************)
THEOREM FilesKeepTheirIds == FilesSpec => []UploadsAreTrue
<1> DEFINE IInv == FilesTypeOK /\ UploadsInv /\ PostedIsAFile
<1>1. FilesInit => IInv
  BY FilesTypeInit, UploadsInit
<1>2. IInv /\ [FilesNext]_allVars => IInv'
  <2>1. FilesTypeOK => TypeOK
    BY DEF FilesTypeOK
  <2> QED
    BY <2>1, NotesStep, TypeStep, FilesTypeStep, UploadsStep, PostedStep
<1>3. IInv => UploadsAreTrue
  BY DEF UploadsInv
<1> HIDE DEF IInv
<1> QED
  BY <1>1, <1>2, <1>3, PTL DEF FilesSpec

\* Why nothing is uploaded: what is answered is an Error.
LEMMA NoUploadStep ==
  ASSUME ~Understood \/ Sender # Me, FilesTypeOK, NothingIsUploaded,
         \A y \in Syncs : uploads[y].answer = Error, [FilesNext]_allVars
  PROVE  NothingIsUploaded' /\ \A y \in Syncs : uploads'[y].answer = Error
<1>1. ASSUME NEW f \in Files, NEW i \in FileIds, Understood
      PROVE  UploadVaultEntry(Entry(f, i), Me) = Error /\ Inserted(f, i) = store
  BY <1>1 DEF UploadVaultEntry, Entry, Inserted
<1>2. ASSUME NEW y \in Syncs, Upload(y) \/ FailUpload(y)
      PROVE  store' = store /\ files' = files /\ \A z \in Syncs : uploads'[z].answer = Error
  <2>1. PICK f \in Files, i \in FileIds : Post(y, f, i, Error) /\ store' = store
    BY <1>1, <1>2 DEF Upload, FailUpload, Post
  <2> QED
    BY <2>1 DEF Post, FilesTypeOK
<1>3. ASSUME NEW y \in Syncs, Mark(y)
      PROVE  store' = store /\ files' = files /\ \A z \in Syncs : uploads'[z].answer = Error
  BY <1>3 DEF Mark, NoUpload, FilesTypeOK
<1>4. ASSUME NEW f \in Files, BeginAttach(f) \/ Attach(f)
      PROVE  NothingIsUploaded' /\ uploads' = uploads
  BY <1>4 DEF BeginAttach, Attach, NothingIsUploaded, FilesTypeOK
<1>5. ASSUME NEW y \in Syncs, FinishNotes(y) \/ LoseUpload(y)
      PROVE  store' = store /\ files' = files /\ \A z \in Syncs : uploads'[z].answer = Error
  BY <1>5 DEF FinishNotes, LoseUpload, NoUpload, FilesTypeOK
<1>6. ASSUME Kill
      PROVE  store' = store /\ files' = files /\ \A z \in Syncs : uploads'[z].answer = Error
  BY <1>6 DEF Kill, NoUpload
<1> QED
  BY <1>2, <1>3, <1>4, <1>5, <1>6
     DEF FilesNext, NotesNext, allVars, fileVars, NothingIsUploaded

(***************************************************************************)
(* The code as it stands: a server that does not understand the device, or *)
(* a device that does not name its account, as with the nil UUID of        *)
(* SyncService, and no file is ever stored or given a server id.           *)
(***************************************************************************)
THEOREM NothingGetsUploaded ==
  ASSUME ~Understood \/ Sender # Me
  PROVE  FilesSpec => []NothingIsUploaded
<1> DEFINE IInv == NothingIsUploaded /\ \A y \in Syncs : uploads[y].answer = Error
<1>1. FilesInit => IInv
  BY DEF FilesInit, NothingIsUploaded, NoUpload
<1>2. FilesTypeOK /\ IInv /\ [FilesNext]_allVars => IInv'
  BY NoUploadStep
<1>3. IInv => NothingIsUploaded
  OBVIOUS
<1> HIDE DEF IInv
<1> QED
  BY <1>1, <1>2, <1>3, FilesAreTyped, PTL DEF FilesSpec

(***************************************************************************)
(* What the notes keep, they keep with attachments: no deleted note comes  *)
(* back and no row takes an id that was not sent for it.                   *)
(***************************************************************************)
THEOREM NotesKeepTheirWord == FilesSpec => DeletedStaysDeleted /\ RowsTakeTheirOwnIds
<1>1. (Spec => DeletedStaysDeleted) /\ (Spec => RowsTakeTheirOwnIds)
  BY DeletedForGood, OwnIdsOnly
<1> QED
  BY <1>1, FilesLeaveNotesAlone, PTL

(***************************************************************************)
(* While no two ids are generated within a millisecond they also keep, with*)
(* attachments, that no sync changes a text, that a row is marked as synced*)
(* for what the hub has stored, and that the hub still has its version.    *)
(***************************************************************************)
THEOREM TickingNotesKeepTheirWord ==
  ASSUME ClockTicks
  PROVE  FilesSpec => SourceOfTruth /\ SyncedIsStored /\ []SyncedRowsAreKnown
<1>1. /\ Spec => SourceOfTruth
      /\ Spec => SyncedIsStored
      /\ Spec => []SyncedRowsAreKnown
  BY DeviceIsSourceOfTruth, SyncedRowsAreStored, SyncedRowsStayKnown
<1> QED
  BY <1>1, FilesLeaveNotesAlone, PTL
================================================================================
