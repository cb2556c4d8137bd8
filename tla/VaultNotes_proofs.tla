-------------------------- MODULE VaultNotes_proofs --------------------------
(***************************************************************************)
(* Theorems about VaultNotes, for any passwords, salts, lock duration and  *)
(* number of notes, unlocks and saves: the pages leave the lock as it is,  *)
(* the list shows what opens, notes keep their key, and text is dropped    *)
(* only late.                                                              *)
(***************************************************************************)
EXTENDS VaultNotes, VaultLock_proofs

USE DurationIsPositive, NoTimerIsNoTime, NoKeyIsNoKey, NotesAreNumbers, NothingIsNothing

-----------------------------------------------------------------------------
(***************************************************************************)
(* Refinement: what the pages do to the vault is what VaultLock does.      *)
(***************************************************************************)
LEMMA LockOfNotesStep == [NotesNext]_allVars => [Next]_vars
<1> SUFFICES ASSUME [NotesNext]_allVars PROVE [Next]_vars
  OBVIOUS
<1>1. CASE UNCHANGED allVars
  BY <1>1 DEF allVars
<1>2. CASE LockStep
  BY <1>2 DEF LockStep, Ask, Next, Step
<1>3. CASE Restart
  BY <1>3 DEF Restart, Next
<1>4. CASE Load \/ Show \/ Navigate \/ Drop
  BY <1>4 DEF Load, Show, Navigate, Drop
<1>5. CASE Open \/ Touch
  BY <1>5 DEF Open, Touch, Next
<1>6. ASSUME NEW s \in Saves, Press(s) \/ Write(s)
      PROVE  Next
  BY <1>6 DEF Press, Write, Next
<1> QED
  BY <1>1, <1>2, <1>3, <1>4, <1>5, <1>6 DEF NotesNext, NotesStep

(***************************************************************************)
(* The vault behind the pages is the vault of VaultLock: every theorem     *)
(* about the lock holds with the pages, too.                               *)
(***************************************************************************)
THEOREM PagesLeaveTheLockAlone == NotesSpec => Spec
<1>1. NotesInit => Init
  BY DEF NotesInit
<1> QED
  BY <1>1, LockOfNotesStep, PTL DEF NotesSpec, Spec

-----------------------------------------------------------------------------
(***************************************************************************)
(* Types.                                                                  *)
(***************************************************************************)
LEMMA InitTypes == NotesInit => PagesTypeOK
<1> SUFFICES ASSUME NotesInit PROVE PagesTypeOK
  OBVIOUS
<1>1. /\ rows \in Seq(Key) /\ Len(rows) <= MaxNotes
      /\ twice \in BOOLEAN
  <2>1. rows = <<>> /\ twice = FALSE
    BY DEF NotesInit
  <2>2. rows \in Seq(Key) /\ Len(rows) = 0
    BY <2>1
  <2>3. twice \in BOOLEAN
    BY <2>1, Zenon
  <2> QED
    BY <2>1, <2>2, <2>3
<1>2. shown \subseteq DOMAIN rows /\ editor \in Pages \cup {Nothing}
  BY DEF NotesInit
<1>3. build \in [state : {"fresh", "due"}]
  BY DEF NotesInit
<1>4. targets \in [Saves -> Targets \cup {Nothing}]
  BY DEF NotesInit
<1>5. \A s \in Saves : saves[s] = NoKey <=> targets[s] = Nothing
  BY DEF NotesInit, Init
<1> QED
  BY <1>1, <1>2, <1>3, <1>4, <1>5 DEF PagesTypeOK

\* Closing or opening a page keeps what saves write.
LEMMA ReplacedType ==
  ASSUME PagesTypeOK, NEW page \in Pages \cup {Nothing}, Replaced(page)
  PROVE  /\ editor' \in Pages \cup {Nothing}
         /\ targets' \in [Saves -> Targets \cup {Nothing}]
         /\ \A s \in Saves : targets'[s] = Nothing <=> targets[s] = Nothing
BY DEF PagesTypeOK, Replaced, Targets, Pages

\* Steps that leave the rows alone keep the types if they keep these parts.
LEMMA KeepsTypes ==
  ASSUME PagesTypeOK, UNCHANGED rows, shown' \subseteq DOMAIN rows,
         build' \in [state : {"fresh", "due"}] \cup [state : {"loading"}, found : SUBSET DOMAIN rows],
         editor' \in Pages \cup {Nothing}, targets' \in [Saves -> Targets \cup {Nothing}],
         twice' \in BOOLEAN,
         \A s \in Saves : saves'[s] = NoKey <=> targets'[s] = Nothing
  PROVE  PagesTypeOK'
BY DEF PagesTypeOK

LEMMA WatchType ==
  ASSUME PagesTypeOK, Watch
  PROVE  build' \in [state : {"fresh", "due"}] \cup [state : {"loading"}, found : SUBSET DOMAIN rows]
BY DEF PagesTypeOK, Watch

\* A step of the lock starts no save, and ends none.
LEMMA LockSaves ==
  ASSUME LockStep
  PROVE  saves' = saves /\ sealed' = sealed
BY DEF LockStep, Tick, Keep, LockNow, Fire, Ask, Unlock, Read, Initialize, Reread, Fail,
       Throw, Derive, Move

LEMMA LockStepType ==
  ASSUME PagesTypeOK, LockStep, twice' \in BOOLEAN
  PROVE  PagesTypeOK'
<1>1. UNCHANGED <<rows, shown, editor, targets, saves>>
  BY LockSaves DEF LockStep
<1> QED
  BY <1>1, KeepsTypes, WatchType DEF LockStep, PagesTypeOK

\* What a save writes is a row more, or another key for a row there is.
LEMMA StoredType ==
  ASSUME PagesTypeOK, TypeOK, NEW s \in Saves, targets[s] # Nothing, Stored(s),
         targets[s].note # New => targets[s].note \in DOMAIN rows
  PROVE  /\ rows' \in Seq(Key)
         /\ DOMAIN rows \subseteq DOMAIN rows'
<1>1. saves[s] \in Key /\ rows \in Seq(Key)
  BY DEF PagesTypeOK, TypeOK
<1>2. CASE targets[s].note = New
  <2>1. rows' = Append(rows, saves[s])
    BY <1>2 DEF Stored
  <2> QED
    BY <1>1, <2>1
<1>3. CASE targets[s].note # New
  <2>1. rows' = [rows EXCEPT ![targets[s].note] = saves[s]]
    BY <1>3 DEF Stored
  <2> QED
    BY <1>1, <1>3, <2>1
<1> QED
  BY <1>2, <1>3

\* A save of a note that is shown finds its row: rows only get more.
TargetsExist ==
  \A s \in Saves : targets[s] # Nothing /\ targets[s].note # New => targets[s].note \in DOMAIN rows
NoteTypes == TypeOK /\ PagesTypeOK /\ TargetsExist

LEMMA PressType ==
  ASSUME NoteTypes, NEW s \in Saves, Press(s), twice' \in BOOLEAN
  PROVE  PagesTypeOK' /\ TargetsExist'
<1> DEFINE target == [note |-> editor, mounted |-> TRUE]
<1>1. editor \in Pages
  BY DEF Press, IsOpen, NoteTypes, PagesTypeOK
<1>2. /\ target \in Targets
      /\ target # Nothing
      /\ target.note = editor
  <2>1. target \in Targets
    BY <1>1 DEF Pages, Targets
  <2> QED
    BY <2>1
<1>3. targets' = [targets EXCEPT ![s] = target]
  BY DEF Press
<1> HIDE DEF target
<1>4. targets' \in [Saves -> Targets \cup {Nothing}]
  BY <1>2, <1>3 DEF NoteTypes, PagesTypeOK
<1>5. \A t \in Saves : saves'[t] = NoKey <=> targets'[t] = Nothing
  BY <1>2, <1>3 DEF NoteTypes, PagesTypeOK, TypeOK, Press, BeginSave
<1>7. PagesTypeOK'
  BY <1>4, <1>5, KeepsTypes DEF NoteTypes, PagesTypeOK, Press
<1>8. editor # New => editor \in DOMAIN rows
  BY DEF Press, NoteTypes, PagesTypeOK
<1>9. TargetsExist'
  BY <1>2, <1>3, <1>8 DEF NoteTypes, PagesTypeOK, TargetsExist, Press
<1> QED
  BY <1>7, <1>9

LEMMA WriteType ==
  ASSUME NoteTypes, NEW s \in Saves, Write(s), twice' \in BOOLEAN, Len(rows') <= MaxNotes
  PROVE  PagesTypeOK' /\ TargetsExist'
<1>1. rows' \in Seq(Key) /\ DOMAIN rows \subseteq DOMAIN rows'
  BY StoredType DEF Write, NoteTypes, TargetsExist
<1>2. \A t \in Saves :
        /\ targets'[t] \in Targets \cup {Nothing}
        /\ targets'[t] = Nothing <=> t = s \/ targets[t] = Nothing
        /\ targets'[t] # Nothing => targets'[t].note = targets[t].note
  <2> TAKE t \in Saves
  <2>1. CASE t = s \/ targets[t] = Nothing
    BY <2>1 DEF Write
  <2>2. CASE ~(t = s \/ targets[t] = Nothing)
    <3>1. targets[t] \in Targets
      BY <2>2 DEF NoteTypes, PagesTypeOK
    <3>2. targets'[t] = [targets[t] EXCEPT !.mounted = @ /\ ~targets[s].mounted]
      BY <2>2 DEF Write
    <3>3. targets'[t] \in Targets /\ targets'[t].note = targets[t].note
      BY <3>1, <3>2 DEF Targets
    <3> QED
      BY <2>2, <3>3
  <2> QED
    BY <2>1, <2>2
<1>3. targets' \in [Saves -> Targets \cup {Nothing}]
  BY <1>2 DEF Write
<1>4. \A t \in Saves : saves'[t] = NoKey <=> targets'[t] = Nothing
  BY <1>2 DEF NoteTypes, PagesTypeOK, TypeOK, Write, Seal
<1>5. editor' \in Pages \cup {Nothing} /\ shown' \subseteq DOMAIN rows'
  BY <1>1 DEF NoteTypes, PagesTypeOK, Write
<1>6. build' \in [state : {"fresh", "due"}]
  BY DEF Write, Stored
<1>7. PagesTypeOK'
  BY <1>1, <1>3, <1>4, <1>5, <1>6 DEF PagesTypeOK
<1>8. TargetsExist'
  BY <1>1, <1>2 DEF NoteTypes, TargetsExist
<1> QED
  BY <1>7, <1>8

LEMMA PagesType ==
  ASSUME NoteTypes, Navigate \/ Open \/ Drop, twice' \in BOOLEAN
  PROVE  PagesTypeOK' /\ TargetsExist'
<1>1. /\ editor' \in Pages \cup {Nothing}
      /\ targets' \in [Saves -> Targets \cup {Nothing}]
      /\ \A s \in Saves : targets'[s] = Nothing <=> targets[s] = Nothing
      /\ \A s \in Saves : targets[s] # Nothing => targets'[s].note = targets[s].note
  <2>1. ASSUME NEW page \in Pages \cup {Nothing}, Replaced(page)
        PROVE  <1>1!:
    <3>1. \A s \in Saves : targets[s] # Nothing => targets'[s].note = targets[s].note
      BY <2>1 DEF NoteTypes, PagesTypeOK, Replaced, Targets
    <3> QED
      BY <2>1, <3>1, ReplacedType DEF NoteTypes
  <2>3. CASE Drop
    BY <2>1, <2>3 DEF Drop
  <2>4. CASE Navigate
    <3>1. CASE Replaced(Nothing)
      BY <2>1, <3>1
    <3>2. CASE Replaced(New)
      BY <2>1, <3>2 DEF Pages
    <3>3. CASE IsOpen /\ editor' = New /\ UNCHANGED targets
      BY <3>3 DEF NoteTypes, PagesTypeOK, Pages
    <3> QED
      BY <2>4, <3>1, <3>2, <3>3 DEF Navigate
  <2>5. CASE Open
    <3>1. PICK n \in shown : Replaced(n)
      BY <2>5 DEF Open
    <3>2. n \in Pages
      BY DEF NoteTypes, PagesTypeOK, Notes, Pages
    <3> QED
      BY <2>1, <3>1, <3>2
  <2> QED
    BY <2>3, <2>4, <2>5
<1>2. UNCHANGED <<rows, shown, build, saves>>
  BY DEF Navigate, Open, Drop, Poke, vars, NoteTypes, PagesTypeOK
<1>3. PagesTypeOK'
  BY <1>1, <1>2, KeepsTypes DEF NoteTypes, PagesTypeOK
<1> QED
  BY <1>1, <1>2, <1>3 DEF NoteTypes, TargetsExist

LEMMA TypeStep ==
  ASSUME NoteTypes, TypeOK', NotesNext
  PROVE  NoteTypes'
<1>1. twice' \in BOOLEAN
  <2>1. twice' = (twice \/ Overlap)
    BY DEF NotesNext
  <2> QED
    BY <2>1, Zenon DEF Overlap
<1>2. CASE LockStep
  <2>1. PagesTypeOK'
    BY <1>1, <1>2, LockStepType DEF NoteTypes
  <2>2. UNCHANGED <<rows, targets>>
    BY <1>2 DEF LockStep
  <2> QED
    BY <2>1, <2>2 DEF NoteTypes, TargetsExist
<1>3. CASE Restart
  <2>1. PagesTypeOK'
    BY <1>1, <1>3, KeepsTypes DEF NoteTypes, PagesTypeOK, Restart, Crash
  <2> QED
    BY <1>3, <2>1 DEF NoteTypes, TargetsExist, Restart
<1>4. CASE Load \/ Show \/ Touch
  <2>1. UNCHANGED <<rows, targets, editor, saves>>
    BY <1>4 DEF Load, Show, Touch, Poke, vars, NoteTypes, PagesTypeOK
  <2>2. /\ shown' \subseteq DOMAIN rows
        /\ build' \in [state : {"fresh", "due"}] \cup [state : {"loading"}, found : SUBSET DOMAIN rows]
    <3>1. Opened(key) \in SUBSET DOMAIN rows
      BY DEF Opened
    <3> QED
      BY <1>4, <3>1 DEF Load, Show, Touch, NoteTypes, PagesTypeOK
  <2>3. PagesTypeOK'
    BY <1>1, <2>1, <2>2, KeepsTypes DEF NoteTypes, PagesTypeOK
  <2> QED
    BY <2>1, <2>3 DEF NoteTypes, TargetsExist
<1>5. CASE Navigate \/ Open \/ Drop
  BY <1>1, <1>5, PagesType DEF NoteTypes
<1>6. ASSUME NEW s \in Saves, Press(s)
      PROVE  NoteTypes'
  BY <1>1, <1>6, PressType DEF NoteTypes
<1>7. ASSUME NEW s \in Saves, Write(s)
      PROVE  NoteTypes'
  BY <1>1, <1>7, WriteType DEF NoteTypes, NotesNext
<1> QED
  BY <1>2, <1>3, <1>4, <1>5, <1>6, <1>7 DEF NotesNext, NotesStep

LEMMA NoteTypesHold == NotesSpec => []NoteTypes
<1>1. NotesInit => TargetsExist
  BY DEF NotesInit, TargetsExist
<1>2. NoteTypes /\ TypeOK' /\ [NotesNext]_allVars => NoteTypes'
  <2>1. ASSUME NoteTypes, TypeOK', UNCHANGED allVars
        PROVE  NoteTypes'
    BY <2>1 DEF NoteTypes, PagesTypeOK, TargetsExist, allVars, vars, noteVars
  <2> QED
    BY <2>1, TypeStep
<1> QED
  BY <1>1, <1>2, InitTypes, PagesLeaveTheLockAlone, TypeCorrect, PTL DEF NotesSpec, NoteTypes

(***************************************************************************)
(* The rows, the list and the pages keep their types, and a save is under  *)
(* way only with a key, for any number of notes and saves.                 *)
(***************************************************************************)
THEOREM NotesAreTyped == NotesSpec => []NotesTypeOK
<1>1. NoteTypes => NotesTypeOK
  BY DEF NoteTypes, NotesTypeOK
<1> QED
  BY <1>1, NoteTypesHold, PTL

-----------------------------------------------------------------------------
(***************************************************************************)
(* The list: what a build has read, and what a fresh one shows, are the    *)
(* rows that open with the key of now.                                     *)
(***************************************************************************)
ListInv == ListIsFresh /\ (build.state = "loading" => build.found = Opened(key))

LEMMA ListStep ==
  ASSUME ListInv, [NotesNext]_allVars
  PROVE  ListInv'
<1>1. CASE UNCHANGED <<rows, shown, build, key>>
  BY <1>1 DEF ListInv, ListIsFresh, Opened
<1>2. CASE build' = [state |-> "due"]
  BY <1>2 DEF ListInv, ListIsFresh
<1>3. CASE LockStep
  BY <1>1, <1>2, <1>3 DEF LockStep, Watch
<1>4. CASE Restart
  BY <1>2, <1>4 DEF Restart
<1>5. CASE Load
  <2>1. UNCHANGED <<rows, key>> /\ build' = [state |-> "loading", found |-> Opened(key)]
    BY <1>5 DEF Load, vars
  <2> QED
    BY <2>1 DEF ListInv, ListIsFresh, Opened
<1>6. CASE Show
  <2>1. UNCHANGED <<rows, key>> /\ build' = [state |-> "fresh"] /\ shown' = Opened(key)
    BY <1>6 DEF Show, vars, ListInv
  <2> QED
    BY <2>1 DEF ListInv, ListIsFresh, Opened
<1>7. CASE Navigate \/ Open \/ Touch \/ Drop
  BY <1>1, <1>7 DEF Navigate, Open, Touch, Drop, Poke, vars
<1>8. ASSUME NEW s \in Saves, Press(s)
      PROVE  ListInv'
  BY <1>1, <1>8 DEF Press, BeginSave
<1>9. ASSUME NEW s \in Saves, Write(s)
      PROVE  ListInv'
  BY <1>2, <1>9 DEF Write, Stored
<1>10. CASE UNCHANGED allVars
  BY <1>1, <1>10 DEF allVars, vars, noteVars
<1> QED
  BY <1>3, <1>4, <1>5, <1>6, <1>7, <1>8, <1>9, <1>10 DEF NotesNext, NotesStep

LEMMA ListHolds == NotesSpec => []ListInv
<1>1. NotesInit => ListInv
  BY DEF NotesInit, ListInv, ListIsFresh
<1> QED
  BY <1>1, ListStep, PTL DEF NotesSpec

(***************************************************************************)
(* A list for which no build is due shows what opens with the key of now,  *)
(* for any number of notes, saves and unlocks.                             *)
(***************************************************************************)
THEOREM FreshListsAreTrue == NotesSpec => []ListIsFresh
<1>1. ListInv => ListIsFresh
  BY DEF ListInv
<1> QED
  BY <1>1, ListHolds, PTL

-----------------------------------------------------------------------------
(***************************************************************************)
(* The keys of the notes, while no two unlocks have run at the same time:  *)
(* an unlock runs on a locked vault, with an empty list; what is shown     *)
(* opens with the key of now; and a save carries the key its row has.      *)
(***************************************************************************)
NoUnlock   == \A c \in Calls : calls[c] = NoCall
OneUnlock  == \A c, d \in Calls : calls[c] # NoCall /\ calls[d] # NoCall => c = d
ShownOpens == /\ key # NoKey => NoUnlock /\ \A n \in shown : rows[n] = key
              /\ ~NoUnlock => shown = {}
SavesAgree == \A s \in Saves : targets[s] # Nothing /\ targets[s].note # New
                                  => saves[s] = rows[targets[s].note]
KeysInv == ~twice => OneUnlock /\ ShownOpens /\ SavesAgree

\* A call that is somewhere is a call that is under way.
LEMMA BusyCall ==
  ASSUME NEW c \in Calls,
         Keep(c) \/ Read(c) \/ Initialize(c) \/ Reread(c) \/ Fail(c)
  PROVE  calls[c] # NoCall /\ ~NoUnlock
BY DEF Keep, Read, Initialize, Reread, Fail, At, NoCall, NoUnlock

\* A call that goes on leaves the key and idle alone, or throws.
LEMMA CallKeepsKey ==
  ASSUME NEW c \in Calls,
         Ask(c) \/ Read(c) \/ Initialize(c) \/ Reread(c) \/ Fail(c)
  PROVE  key' = NoKey \/ UNCHANGED <<key, idle>>
BY DEF Ask, Unlock, Read, Initialize, Reread, Fail, Throw, Derive

\* Nothing opens without a key.
LEMMA NothingOpens ==
  ASSUME PagesTypeOK
  PROVE  Opened(NoKey) = {}
<1>1. \A n \in DOMAIN rows : rows[n] \in Key
  BY DEF PagesTypeOK
<1> QED
  BY <1>1 DEF Opened

\* A save writes the key there is.
LEMMA RowsStay ==
  ASSUME NoteTypes, SavesAgree, NEW s \in Saves, Write(s)
  PROVE  \A n \in DOMAIN rows : n \in DOMAIN rows' /\ rows'[n] = rows[n]
<1>1. rows \in Seq(Key) /\ targets[s] # Nothing
  BY DEF NoteTypes, PagesTypeOK, Write
<1>2. CASE targets[s].note = New
  <2>1. rows' = Append(rows, saves[s])
    BY <1>2 DEF Write, Stored
  <2> QED
    BY <1>1, <2>1
<1>3. CASE targets[s].note # New
  <2>1. rows' = [rows EXCEPT ![targets[s].note] = saves[s]] /\ saves[s] = rows[targets[s].note]
    BY <1>1, <1>3 DEF Write, Stored, SavesAgree
  <2> QED
    BY <1>1, <2>1
<1> QED
  BY <1>2, <1>3

LEMMA KeysCallStep ==
  ASSUME NoteTypes, ListInv, OneUnlock, ShownOpens, SavesAgree, ~Overlap,
         NEW c \in Calls, UNCHANGED <<rows, shown, targets, saves>>,
         \E call : calls' = [calls EXCEPT ![c] = call],
         \/ calls[c] # NoCall /\ (key' = NoKey \/ UNCHANGED key \/ calls'[c] = NoCall)
         \/ key = NoKey /\ build.state = "fresh" /\ UNCHANGED key
  PROVE  OneUnlock' /\ ShownOpens' /\ SavesAgree'
<1>1. OneUnlock'
  BY DEF Overlap, OneUnlock
<1>2. SavesAgree'
  BY DEF SavesAgree
<1>3. PICK call : calls' = [calls EXCEPT ![c] = call]
  OBVIOUS
<1>4. CASE calls[c] # NoCall /\ (key' = NoKey \/ UNCHANGED key \/ calls'[c] = NoCall)
  <2>1. ~NoUnlock /\ shown = {} /\ key = NoKey
    BY <1>4 DEF NoUnlock, ShownOpens
  <2>2. calls'[c] = NoCall => NoUnlock'
    BY <1>3, <1>4 DEF OneUnlock, NoUnlock, NoteTypes, TypeOK
  <2> QED
    BY <1>1, <1>2, <1>4, <2>1, <2>2 DEF ShownOpens
<1>5. CASE key = NoKey /\ build.state = "fresh" /\ UNCHANGED key
  <2>1. shown = {}
    BY <1>5, NothingOpens DEF ListInv, ListIsFresh, NoteTypes
  <2> QED
    BY <1>1, <1>2, <1>5, <2>1 DEF ShownOpens
<1> QED
  BY <1>4, <1>5

LEMMA KeysLockStep ==
  ASSUME NoteTypes, ListInv, OneUnlock, ShownOpens, SavesAgree, ~Overlap, LockStep
  PROVE  OneUnlock' /\ ShownOpens' /\ SavesAgree'
<1>1. UNCHANGED <<rows, shown, targets, saves>>
  BY LockSaves DEF LockStep
<1>2. CASE UNCHANGED calls /\ (key' = NoKey \/ UNCHANGED key)
  BY <1>1, <1>2 DEF OneUnlock, ShownOpens, SavesAgree, NoUnlock
<1>3. CASE Tick \/ LockNow \/ Fire
  BY <1>2, <1>3 DEF Tick, LockNow, Fire, Lock
<1>4. ASSUME NEW c \in Calls, Keep(c)
      PROVE  OneUnlock' /\ ShownOpens' /\ SavesAgree'
  <2>1. calls[c] # NoCall /\ calls'[c] = NoCall /\ calls' = [calls EXCEPT ![c] = NoCall]
    BY <1>4, BusyCall DEF Keep, Move, NoteTypes, TypeOK
  <2> QED
    BY <1>1, <2>1, KeysCallStep
<1>5. ASSUME NEW c \in Calls, Read(c) \/ Initialize(c) \/ Reread(c) \/ Fail(c)
      PROVE  OneUnlock' /\ ShownOpens' /\ SavesAgree'
  <2>1. calls[c] # NoCall /\ (key' = NoKey \/ UNCHANGED key)
    BY <1>5, BusyCall, CallKeepsKey
  <2>2. \E call : calls' = [calls EXCEPT ![c] = call]
    BY <1>5 DEF Read, Initialize, Reread, Fail, Throw, Derive, Move
  <2> QED
    BY <1>1, <2>1, <2>2, KeysCallStep
<1>6. ASSUME NEW c \in Calls, Ask(c)
      PROVE  OneUnlock' /\ ShownOpens' /\ SavesAgree'
  <2>1. key = NoKey /\ build.state = "fresh" /\ UNCHANGED key
    BY <1>6 DEF Ask, Unlock
  <2>2. \E call : calls' = [calls EXCEPT ![c] = call]
    BY <1>6 DEF Ask, Unlock, Move
  <2> QED
    BY <1>1, <2>1, <2>2, KeysCallStep
<1> QED
  BY <1>3, <1>4, <1>5, <1>6 DEF LockStep

\* Closing or opening a page leaves every save its note.
LEMMA PagesKeepNotes ==
  ASSUME NoteTypes, SavesAgree, UNCHANGED <<rows, saves>>,
         UNCHANGED targets \/ \E page : Replaced(page)
  PROVE  SavesAgree'
<1>1. \A s \in Saves : targets'[s] # Nothing
        => targets[s] # Nothing /\ targets'[s].note = targets[s].note
  BY DEF NoteTypes, PagesTypeOK, Replaced, Targets
<1> QED
  BY <1>1 DEF SavesAgree

LEMMA KeysStep ==
  ASSUME NoteTypes, ListInv, KeysInv, [NotesNext]_allVars
  PROVE  KeysInv'
<1> SUFFICES ASSUME ~twice' PROVE OneUnlock' /\ ShownOpens' /\ SavesAgree'
  BY DEF KeysInv
<1>1. CASE UNCHANGED allVars
  BY <1>1 DEF allVars, vars, noteVars, KeysInv, OneUnlock, ShownOpens, SavesAgree, NoUnlock
<1>2. CASE NotesNext
  <2>1. ~twice /\ ~Overlap
    BY <1>2 DEF NotesNext
  <2>2. OneUnlock /\ ShownOpens /\ SavesAgree
    BY <2>1 DEF KeysInv
  <2>3. CASE LockStep
    BY <2>1, <2>2, <2>3, KeysLockStep
  <2>4. CASE Restart
    BY <2>4 DEF Restart, Crash, Lock, OneUnlock, ShownOpens, SavesAgree, NoUnlock
  <2>5. ASSUME UNCHANGED <<key, calls, rows, saves>>, UNCHANGED shown,
               UNCHANGED targets \/ \E page : Replaced(page)
        PROVE  OneUnlock' /\ ShownOpens' /\ SavesAgree'
    BY <2>2, <2>5, PagesKeepNotes DEF OneUnlock, ShownOpens, NoUnlock
  <2>6. CASE Load \/ Touch
    BY <2>5, <2>6 DEF Load, Touch, Poke, vars
  <2>7. CASE Navigate \/ Drop
    BY <2>5, <2>7 DEF Navigate, Drop, vars
  <2>8. CASE Open
    BY <2>5, <2>8 DEF Open, Poke
  <2>9. CASE Show
    <3>1. UNCHANGED <<key, calls, rows, saves, targets>> /\ shown' = Opened(key)
      BY <2>9 DEF Show, vars, ListInv
    <3>2. \A n \in shown' : rows'[n] = key'
      BY <3>1 DEF Opened
    <3>3. key = NoKey => shown' = {}
      BY <3>1, NothingOpens DEF NoteTypes
    <3> QED
      BY <2>2, <3>1, <3>2, <3>3 DEF OneUnlock, ShownOpens, SavesAgree, NoUnlock
  <2>10. ASSUME NEW s \in Saves, Press(s)
         PROVE  OneUnlock' /\ ShownOpens' /\ SavesAgree'
    <3>1. key # NoKey /\ UNCHANGED <<key, calls, rows, shown>>
      BY <2>10 DEF Press, BeginSave
    <3>2. /\ saves' = [saves EXCEPT ![s] = key]
          /\ targets' = [targets EXCEPT ![s] = [note |-> editor, mounted |-> TRUE]]
          /\ editor # New => editor \in shown
      BY <2>10 DEF Press, BeginSave
    <3>3. editor # New => rows[editor] = key
      BY <2>2, <3>1, <3>2 DEF ShownOpens
    <3>4. SavesAgree'
      BY <2>2, <3>1, <3>2, <3>3 DEF SavesAgree, NoteTypes, TypeOK, PagesTypeOK
    <3> QED
      BY <2>2, <3>1, <3>4 DEF OneUnlock, ShownOpens, NoUnlock
  <2>11. ASSUME NEW s \in Saves, Write(s)
         PROVE  OneUnlock' /\ ShownOpens' /\ SavesAgree'
    <3>1. \A n \in DOMAIN rows : n \in DOMAIN rows' /\ rows'[n] = rows[n]
      BY <2>2, <2>11, RowsStay
    <3>2. UNCHANGED <<key, calls, shown>> /\ shown \subseteq DOMAIN rows
      BY <2>11 DEF Write, Seal, NoteTypes, PagesTypeOK
    <3>3. ASSUME NEW t \in Saves, targets'[t] # Nothing
          PROVE  targets[t] # Nothing /\ targets'[t].note = targets[t].note /\ saves'[t] = saves[t]
      <4>1. t # s /\ targets[t] # Nothing
        BY <2>11, <3>3 DEF Write
      <4>2. targets'[t] = [targets[t] EXCEPT !.mounted = @ /\ ~targets[s].mounted]
        BY <2>11, <4>1 DEF Write
      <4>3. targets[t] \in Targets
        BY <4>1 DEF NoteTypes, PagesTypeOK
      <4>4. targets'[t].note = targets[t].note
        BY <4>2, <4>3 DEF Targets
      <4> QED
        BY <2>11, <4>1, <4>4 DEF Write, Seal
    <3>4. SavesAgree'
      BY <2>2, <3>1, <3>3 DEF SavesAgree, NoteTypes, TargetsExist
    <3> QED
      BY <2>2, <3>1, <3>2, <3>4 DEF OneUnlock, ShownOpens, NoUnlock
  <2> QED
    BY <1>2, <2>3, <2>4, <2>6, <2>7, <2>8, <2>9, <2>10, <2>11 DEF NotesNext, NotesStep
<1> QED
  BY <1>1, <1>2

LEMMA KeysHold == NotesSpec => []KeysInv
<1>1. NotesInit => KeysInv
  BY DEF NotesInit, Init, KeysInv, OneUnlock, ShownOpens, SavesAgree, NoUnlock
<1>2. NoteTypes /\ ListInv /\ KeysInv /\ [NotesNext]_allVars => KeysInv'
  BY KeysStep
<1> QED
  BY <1>1, <1>2, NoteTypesHold, ListHolds, PTL DEF NotesSpec

\* Only a write changes rows, and it finds the key it carries.
LEMMA RowStep ==
  ASSUME NoteTypes, KeysInv, [NotesNext]_allVars, ~twice
  PROVE  \A n \in DOMAIN rows : rows'[n] = rows[n]
<1>1. CASE UNCHANGED rows
  BY <1>1
<1>2. ASSUME NEW s \in Saves, Write(s)
      PROVE  \A n \in DOMAIN rows : rows'[n] = rows[n]
  BY <1>2, RowsStay DEF KeysInv
<1>3. ASSUME NEW s \in Saves, Press(s)
      PROVE  UNCHANGED rows
  BY <1>3 DEF Press
<1>4. CASE LockStep \/ Restart \/ Load \/ Show \/ Navigate \/ Open \/ Touch \/ Drop \/ UNCHANGED allVars
  BY <1>1, <1>4 DEF LockStep, Restart, Load, Show, Navigate, Open, Touch, Drop, allVars, noteVars
<1> QED
  BY <1>1, <1>2, <1>3, <1>4 DEF NotesNext, NotesStep

(***************************************************************************)
(* While no two unlocks have run at the same time, no note is ever sealed  *)
(* again under another key, for any number of notes and saves and any      *)
(* passwords.                                                              *)
(***************************************************************************)
THEOREM SealedNotesKeepTheirKey == NotesSpec => NotesKeepTheirKey
<1>1. NoteTypes /\ KeysInv /\ [NotesNext]_allVars
        => [\A n \in DOMAIN rows : rows'[n] = rows[n] \/ twice]_allVars
  BY RowStep
<1> QED
  BY <1>1, NoteTypesHold, KeysHold, PTL DEF NotesSpec, NotesKeepTheirKey

-----------------------------------------------------------------------------
(***************************************************************************)
(* The salt, while no two unlocks have run at the same time: the call that *)
(* is about to insert one finds the table as it read it, empty.            *)
(***************************************************************************)
FirstSalt ==
  /\ Len(metadata) <= 1
  /\ \A c \in Calls : At(c, "initialize") => metadata = <<>>
FirstSaltInv == ~twice => FirstSalt

\* A call that goes on inserts only where it found nothing.
LEMMA FirstSaltCall ==
  ASSUME TypeOK, OneUnlock, FirstSalt, NEW c \in Calls,
         Ask(c) \/ Read(c) \/ Initialize(c) \/ Reread(c) \/ Keep(c) \/ Fail(c)
  PROVE  FirstSalt'
<1>1. ASSUME NEW call \in CallStates, calls' = [calls EXCEPT ![c] = call],
             UNCHANGED metadata, call.pc = "initialize" => metadata = <<>>
      PROVE  FirstSalt'
  <2>1. ASSUME NEW d \in Calls, At(d, "initialize")'
        PROVE  metadata = <<>>
    <3>1. d = c \/ At(d, "initialize")
      BY <1>1, <2>1 DEF At, TypeOK
    <3>2. d = c => call.pc = "initialize"
      BY <1>1, <2>1 DEF At, TypeOK
    <3> QED
      BY <1>1, <3>1, <3>2 DEF FirstSalt
  <2> QED
    BY <1>1, <2>1 DEF FirstSalt
<1>2. CASE Ask(c)
  <2>1. PICK p \in Passwords : Unlock(c, p)
    BY <1>2 DEF Ask
  <2>2. [pc |-> "read", password |-> p] \in CallStates
    BY DEF CallStates, Asking
  <2> QED
    BY <1>1, <2>1, <2>2 DEF Unlock, Move
<1>3. CASE UNCHANGED metadata /\ calls' = [calls EXCEPT ![c] = NoCall]
  BY <1>1, <1>3 DEF CallStates, NoCall
<1>4. CASE Keep(c) \/ Fail(c)
  BY <1>3, <1>4 DEF Keep, Fail, Throw, Move
<1>5. ASSUME NEW salt \in Salts, Derive(c, salt), calls[c].password \in Passwords
      PROVE  FirstSalt'
  <2>1. [pc |-> "derive", password |-> calls[c].password, salt |-> salt] \in CallStates
    BY <1>5 DEF CallStates, Deriving
  <2> QED
    BY <1>1, <1>5, <2>1 DEF Derive, Move
<1>6. CASE Read(c)
  <2>1. calls[c].password \in Passwords
    BY <1>6, CallType DEF Read, At
  <2>2. [pc |-> "initialize", password |-> calls[c].password] \in CallStates
    BY <2>1 DEF CallStates, Asking
  <2> QED
    BY <1>1, <1>3, <1>5, <1>6, <2>1, <2>2 DEF Read, Throw, Move
<1>7. CASE Reread(c)
  <2>1. calls[c].password \in Passwords
    BY <1>7, CallType DEF Reread, At
  <2> QED
    BY <1>3, <1>5, <1>7, <2>1 DEF Reread, Throw, Move
<1>8. CASE Initialize(c)
  <2>1. PICK salt \in Salts : metadata' = Append(metadata, salt)
    BY <1>8 DEF Initialize
  <2>2. Len(metadata') = 1
    BY <1>8, <2>1 DEF Initialize, FirstSalt
  <2>3. ASSUME NEW d \in Calls, At(d, "initialize")'
        PROVE  FALSE
    <3>1. d # c /\ At(d, "initialize")
      BY <1>8, <2>3 DEF Initialize, Move, At, TypeOK
    <3> QED
      BY <1>8, <3>1 DEF Initialize, At, OneUnlock, NoCall
  <2> QED
    BY <2>2, <2>3 DEF FirstSalt
<1> QED
  BY <1>2, <1>4, <1>6, <1>7, <1>8

LEMMA FirstSaltStep ==
  ASSUME TypeOK, KeysInv, FirstSaltInv, [NotesNext]_allVars
  PROVE  FirstSaltInv'
<1> SUFFICES ASSUME ~twice' PROVE FirstSalt'
  BY DEF FirstSaltInv
<1>1. CASE UNCHANGED <<metadata, calls, twice>>
  BY <1>1 DEF FirstSaltInv, FirstSalt, At
<1>2. CASE NotesNext
  <2>1. ~twice
    BY <1>2 DEF NotesNext
  <2>2. OneUnlock /\ FirstSalt
    BY <2>1 DEF KeysInv, FirstSaltInv
  <2>3. CASE UNCHANGED <<metadata, calls>>
    BY <2>2, <2>3 DEF FirstSalt, At
  <2>4. CASE LockStep
    <3>1. CASE Tick \/ LockNow \/ Fire
      BY <2>3, <3>1 DEF Tick, LockNow, Fire
    <3>2. ASSUME NEW c \in Calls,
                 Ask(c) \/ Read(c) \/ Initialize(c) \/ Reread(c) \/ Keep(c) \/ Fail(c)
          PROVE  FirstSalt'
      BY <2>2, <3>2, FirstSaltCall
    <3> QED
      BY <2>4, <3>1, <3>2 DEF LockStep
  <2>5. CASE Restart
    BY <2>2, <2>5 DEF Restart, Crash, FirstSalt, At, NoCall
  <2>6. CASE Load \/ Show \/ Navigate \/ Open \/ Touch \/ Drop
    BY <2>3, <2>6 DEF Load, Show, Navigate, Open, Touch, Drop, Poke, vars
  <2>7. ASSUME NEW s \in Saves, Press(s) \/ Write(s)
        PROVE  FirstSalt'
    BY <2>3, <2>7 DEF Press, Write, BeginSave, Seal
  <2> QED
    BY <1>2, <2>4, <2>5, <2>6, <2>7 DEF NotesNext, NotesStep
<1> QED
  BY <1>1, <1>2 DEF allVars, vars, noteVars

(***************************************************************************)
(* While no two unlocks have run at the same time the salt is generated    *)
(* once, whatever fails, crashes or locks between the check for it and its *)
(* insert: the overlap is all that breaks what kdf.rs says.                *)
(***************************************************************************)
THEOREM OnlyTwoUnlocksMakeTwoSalts == NotesSpec => []OneSaltUnlessTwice
<1>1. NotesInit => FirstSaltInv
  BY DEF NotesInit, Init, FirstSaltInv, FirstSalt, At, NoCall
<1>2. TypeOK /\ KeysInv /\ FirstSaltInv /\ [NotesNext]_allVars => FirstSaltInv'
  BY FirstSaltStep
<1>3. FirstSaltInv => OneSaltUnlessTwice
  BY DEF FirstSaltInv, FirstSalt, OneSaltUnlessTwice
<1> QED
  BY <1>1, <1>2, <1>3, PagesLeaveTheLockAlone, TypeCorrect, KeysHold, PTL DEF NotesSpec

(***************************************************************************)
(* With the pages, an unlocked vault has its timer, and all keys come from *)
(* one salt.                                                               *)
(***************************************************************************)
THEOREM TheLockKeepsItsWord == NotesSpec => []AutoLock /\ []OneSaltInUse
BY PagesLeaveTheLockAlone, UnlockedHasTimer, OneSalt, PTL
==============================================================================
