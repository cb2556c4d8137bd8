----------------------------- MODULE VaultNotes -----------------------------
(***************************************************************************)
(* The notes behind the lock of VaultLock: NotesState, which watches the   *)
(* key and decrypts the notes it opens, and the pages that call it.  The   *)
(* list page unlocks and locks; the editor page keeps what is typed until  *)
(* it is saved, and may be opened on a locked vault.                       *)
(*                                                                         *)
(* A row is the key it is encrypted with; NotesClient has its versions and *)
(* its sync, and deletions, which no page asks for.                        *)
(***************************************************************************)
EXTENDS VaultLock

CONSTANTS
  MaxNotes, \* bound: rows of note_entries
  New,      \* the editor without a note id
  Nothing   \* no page, and no save

ASSUME NotesAreNumbers == MaxNotes \in Nat /\ New \notin Nat

VARIABLES
  rows,    \* note_entries: the key of the row, by its id
  shown,   \* NotesState.value: the ids of the notes on display
  build,   \* NotesState.build: "fresh", "due", or what the one under way has read
  editor,  \* the note on the editor page, New, or Nothing
  targets, \* what the saves under way write, and whether their page is mounted
  twice    \* history: whether unlocks have run at the same time

noteVars == <<rows, shown, build, editor, targets, twice>>
allVars  == <<vars, noteVars>>

Notes   == 1 .. MaxNotes
Pages   == Notes \cup {New}
Targets == [note : Pages, mounted : BOOLEAN]
ASSUME NothingIsNothing == Nothing \notin Pages \cup Targets

Opened(k) == {n \in DOMAIN rows : rows[n] = k}
IsOpen    == editor # Nothing

NotesInit ==
  /\ Init
  /\ rows    = <<>>
  /\ shown   = {}
  /\ build   = [state |-> "due"]
  /\ editor  = Nothing
  /\ targets = [s \in Saves |-> Nothing]
  /\ twice   = FALSE

-----------------------------------------------------------------------------
(***************************************************************************)
(* NotesState.build: it reads the key and the rows, and shows, when they   *)
(* are decrypted, the ones that open.                                      *)
(***************************************************************************)
\* Mutant of Watch: the key is read, and not watched.
ReadOnly == UNCHANGED build

\* A key that changes sets off a new build; one that is under way is void.
Watch == build' = IF key' = key THEN build ELSE [state |-> "due"]

Load ==
  /\ build.state = "due"
  /\ build' = [state |-> "loading", found |-> Opened(key)]
  /\ UNCHANGED <<vars, rows, shown, editor, targets>>

Show ==
  /\ build.state = "loading"
  /\ shown' = build.found
  /\ build' = [state |-> "fresh"]
  /\ UNCHANGED <<vars, rows, editor, targets>>

-----------------------------------------------------------------------------
(***************************************************************************)
(* The pages.  What is pressed is a pointer event, which pokes the vault,  *)
(* except in the shell around the pages, and on its shortcut.              *)
(***************************************************************************)
Replaced(page) ==
  /\ editor'  = page
  /\ targets' = [s \in Saves |-> IF targets[s] = Nothing THEN Nothing
                                 ELSE [targets[s] EXCEPT !.mounted = FALSE]]

\* The shell leaves the editor, or opens it without a note: the page of an
\* open editor is kept, and what is typed is now a new note.
Navigate ==
  /\ \/ Replaced(Nothing)
     \/ ~IsOpen /\ Replaced(New)
     \/ IsOpen /\ editor' = New /\ UNCHANGED targets
  /\ UNCHANGED <<vars, rows, shown, build>>

\* On the list page: a note that is shown is tapped.
Open ==
  /\ ~IsOpen
  /\ Poke
  /\ \E n \in shown : Replaced(n)
  /\ UNCHANGED <<rows, shown, build>>

\* A pointer event on one of the pages.
Touch ==
  /\ Poke
  /\ UNCHANGED <<rows, shown, build, editor, targets>>

\* _save on a locked vault: nothing is saved, and the page leaves.
Drop ==
  /\ IsOpen /\ key = NoKey
  /\ Replaced(Nothing)
  /\ UNCHANGED <<vars, rows, shown, build>>

\* For a note that is not shown firstWhere throws, and the page stays.
Press(s) ==
  /\ IsOpen /\ targets[s] = Nothing
  /\ editor \in shown \cup {New}
  /\ BeginSave(s)
  /\ targets' = [targets EXCEPT ![s] = [note |-> editor, mounted |-> TRUE]]
  /\ UNCHANGED <<rows, shown, build, editor>>

\* Mutant of Stored: the list is not told.
StoredQuietly(s) ==
  /\ rows' = IF targets[s].note = New THEN Append(rows, saves[s])
             ELSE [rows EXCEPT ![targets[s].note] = saves[s]]
  /\ UNCHANGED build

\* The row is written, and the list built anew.
Stored(s) ==
  /\ rows' = IF targets[s].note = New THEN Append(rows, saves[s])
             ELSE [rows EXCEPT ![targets[s].note] = saves[s]]
  /\ build' = [state |-> "due"]

Write(s) ==
  /\ targets[s] # Nothing
  /\ Seal(s)
  /\ Stored(s)
  /\ editor'  = IF targets[s].mounted THEN Nothing ELSE editor
  /\ targets' = [t \in Saves |->
                   IF t = s \/ targets[t] = Nothing THEN Nothing
                   ELSE [targets[t] EXCEPT !.mounted = @ /\ ~targets[s].mounted]]
  /\ UNCHANGED shown

\* A new process: the pages and the list are built again.
Restart ==
  /\ Crash
  /\ editor'  = Nothing
  /\ targets' = [s \in Saves |-> Nothing]
  /\ shown'   = {}
  /\ build'   = [state |-> "due"]
  /\ UNCHANGED rows

\* The list page has the button that locks; on a locked vault, whose empty
\* list is built at once, it has the password field instead.
Ask(c) == ~IsOpen /\ key = NoKey /\ build.state = "fresh" /\ \E p \in Passwords : Unlock(c, p)

LockStep ==
  /\ \/ Tick \/ Fire
     \/ ~IsOpen /\ LockNow
     \/ \E c \in Calls : Ask(c) \/ Read(c) \/ Initialize(c) \/ Reread(c) \/ Keep(c) \/ Fail(c)
  /\ Watch
  /\ UNCHANGED <<rows, shown, editor, targets>>

-----------------------------------------------------------------------------
NotesStep ==
  \/ LockStep \/ Restart
  \/ Load \/ Show
  \/ Navigate \/ Open \/ Touch \/ Drop
  \/ \E s \in Saves : Press(s) \/ Write(s)

Overlap == \E c, d \in Calls : c # d /\ calls'[c] # NoCall /\ calls'[d] # NoCall

NotesNext ==
  /\ NotesStep
  /\ twice' = (twice \/ Overlap)
  /\ Len(rows') <= MaxNotes

NotesSpec == NotesInit /\ [][NotesNext]_allVars

\* The timer is run by the platform, whatever the app does.
FairNotesSpec ==
  /\ NotesSpec
  /\ WF_allVars(Tick /\ NotesNext) /\ WF_allVars(Fire /\ NotesNext)

-----------------------------------------------------------------------------
\* The variables hold what the tables, the providers and the pages can hold.
PagesTypeOK ==
  /\ rows    \in Seq(Key) /\ Len(rows) <= MaxNotes
  /\ shown   \subseteq DOMAIN rows
  /\ build   \in [state : {"fresh", "due"}] \cup [state : {"loading"}, found : SUBSET DOMAIN rows]
  /\ editor  \in Pages \cup {Nothing}
  /\ targets \in [Saves -> Targets \cup {Nothing}]
  /\ twice   \in BOOLEAN
  /\ \A s \in Saves : saves[s] = NoKey <=> targets[s] = Nothing

NotesTypeOK == TypeOK /\ PagesTypeOK

(***************************************************************************)
(* When no build is due, the list shows exactly the notes that open with   *)
(* the key of now, and none when the vault is locked: whatever keys,       *)
(* builds and saves have overtaken each other.                             *)
(***************************************************************************)
ListIsFresh == build.state = "fresh" => shown = Opened(key)

(***************************************************************************)
(* The salt is generated once, unless two unlocks have run at the same     *)
(* time: no failure, crash, lock or wrong password between the check for a *)
(* salt and its insert makes a second one.                                 *)
(***************************************************************************)
OneSaltUnlessTwice == twice \/ Len(metadata) <= 1

(***************************************************************************)
(* A note is never sealed again under another key, unless two unlocks have *)
(* run at the same time: what one password has written no other one locks  *)
(* away, though any password unlocks.                                      *)
(***************************************************************************)
NotesKeepTheirKey ==
  [][\A n \in DOMAIN rows : rows'[n] = rows[n] \/ twice]_allVars
==============================================================================
