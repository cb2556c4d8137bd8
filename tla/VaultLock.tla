------------------------------ MODULE VaultLock ------------------------------
(***************************************************************************)
(* The lock of the vault: VaultAuthState with its auto-lock timer, the     *)
(* unlock use case, and the table vault_metadata, in which the first       *)
(* unlock stores the salt.                                                 *)
(*                                                                         *)
(* unlock derives a key from the password and the salt and keeps it; any   *)
(* password gives a key.  Calls of unlock, and saves of notes, run on one  *)
(* event loop and may overlap at every await.  A key is the pair of        *)
(* password and salt that Argon2id makes it from.  The timer is punctual:  *)
(* time does not pass while it is due.                                     *)
(***************************************************************************)
EXTENDS Integers, Sequences

CONSTANTS
  Passwords,    \* master passwords that are typed in
  Salts,        \* salts that are generated
  NoKey,        \* a master key that is null
  NoTimer,      \* a lock timer that is null or cancelled
  LockDuration, \* vault_metadata.lock_duration_seconds, in ticks
  Calls,        \* bound: calls of unlock that run at the same time
  Saves         \* bound: saves that run at the same time

ASSUME DurationIsPositive == LockDuration \in Nat \ {0}
ASSUME NoTimerIsNoTime    == NoTimer \notin Int

VARIABLES
  metadata, \* vault_metadata: the salts of its rows, oldest first
  calls,    \* calls of unlock
  key,      \* VaultAuthState._masterKey, which is also its state
  timer,    \* VaultAuthState._lockTimer: the ticks left, or NoTimer
  saves,    \* saves between their read of the key and their write: the key
  sealed,   \* the keys the stored notes are encrypted with
  idle      \* history: ticks since the vault was unlocked or last poked

vars == <<metadata, calls, key, timer, saves, sealed, idle>>

Key == [password : Passwords, salt : Salts]
ASSUME NoKeyIsNoKey == NoKey \notin Key

NoCall == [pc |-> "idle"]
Asking == [pc : {"read", "initialize", "reread"}, password : Passwords]
Deriving == [pc : {"derive"}, password : Passwords, salt : Salts]
At(c, label) == calls[c].pc = label

Init ==
  /\ metadata = <<>>
  /\ calls  = [c \in Calls |-> NoCall]
  /\ key    = NoKey
  /\ timer  = NoTimer
  /\ saves  = [s \in Saves |-> NoKey]
  /\ sealed = {}
  /\ idle   = 0

-----------------------------------------------------------------------------
(***************************************************************************)
(* VaultAuthState: the timer, lock and poke.                               *)
(***************************************************************************)
\* Mutant of Rearm: a timer that is running is left running.
RearmIfNone ==
  /\ timer' = IF timer = NoTimer THEN LockDuration ELSE timer
  /\ idle'  = 0

Rearm ==
  /\ timer' = LockDuration
  /\ idle'  = 0

\* Mutant of Lock: the page is told, the key is kept.
LockForgetsNothing ==
  /\ timer' = NoTimer
  /\ UNCHANGED <<key, idle>>

Lock ==
  /\ key'   = NoKey
  /\ timer' = NoTimer
  /\ idle'  = 0

LockNow ==
  /\ key # NoKey
  /\ Lock
  /\ UNCHANGED <<metadata, calls, saves, sealed>>

Fire ==
  /\ timer = 0
  /\ Lock
  /\ UNCHANGED <<metadata, calls, saves, sealed>>

Poke ==
  /\ key # NoKey
  /\ Rearm
  /\ UNCHANGED <<metadata, calls, key, saves, sealed>>

Tick ==
  /\ timer \notin {0, NoTimer}
  /\ timer' = timer - 1
  /\ idle'  = IF key = NoKey THEN 0 ELSE idle + 1
  /\ UNCHANGED <<metadata, calls, key, saves, sealed>>

-----------------------------------------------------------------------------
(***************************************************************************)
(* VaultAuthState.unlock and the calls it makes, from await to await.      *)
(***************************************************************************)
Move(c, call) ==
  /\ calls' = [calls EXCEPT ![c] = call]
  /\ UNCHANGED <<saves, sealed>>

Unlock(c, p) ==
  /\ calls[c] = NoCall
  /\ Move(c, [pc |-> "read", password |-> p])
  /\ UNCHANGED <<metadata, key, timer, idle>>

\* Whatever is thrown, unlock forgets the key; the timer runs on.
Throw(c) ==
  /\ Move(c, NoCall)
  /\ key'  = NoKey
  /\ idle' = 0
  /\ UNCHANGED <<metadata, timer>>

Derive(c, salt) ==
  /\ Move(c, [pc |-> "derive", password |-> calls[c].password, salt |-> salt])
  /\ UNCHANGED <<metadata, key, timer, idle>>

\* Mutant of Found: of several rows the latest one counts.
FoundLast(salt) == metadata # <<>> /\ salt = metadata[Len(metadata)]

\* getSingleOrNull: a row when there is one, null without one; several throw.
Found(salt) == Len(metadata) = 1 /\ salt = metadata[1]

\* Mutant of Read: a salt is generated by every unlock.
ReadNothing(c) ==
  /\ At(c, "read")
  /\ Move(c, [pc |-> "initialize", password |-> calls[c].password])
  /\ UNCHANGED <<metadata, key, timer, idle>>

Read(c) ==
  /\ At(c, "read")
  /\ \/ \E salt \in Salts : Found(salt) /\ Derive(c, salt)
     \/ /\ metadata = <<>>
        /\ Move(c, [pc |-> "initialize", password |-> calls[c].password])
        /\ UNCHANGED <<metadata, key, timer, idle>>
     \/ Len(metadata) > 1 /\ Throw(c)

Initialize(c) ==
  /\ At(c, "initialize")
  /\ \E salt \in Salts : metadata' = Append(metadata, salt)
  /\ Move(c, [pc |-> "reread", password |-> calls[c].password])
  /\ UNCHANGED <<key, timer, idle>>

Reread(c) ==
  /\ At(c, "reread")
  /\ \/ \E salt \in Salts : Found(salt) /\ Derive(c, salt)
     \/ Len(metadata) # 1 /\ Throw(c)

Keep(c) ==
  /\ At(c, "derive")
  /\ key' = [password |-> calls[c].password, salt |-> calls[c].salt]
  /\ Rearm
  /\ Move(c, NoCall)
  /\ UNCHANGED metadata

\* A statement or the derivation fails.
Fail(c) ==
  /\ calls[c] # NoCall
  /\ Throw(c)

Step(c) == Read(c) \/ Initialize(c) \/ Reread(c) \/ Keep(c)

-----------------------------------------------------------------------------
(***************************************************************************)
(* NotesState.addNote and updateNote: the key is read and the vault poked  *)
(* at once, and the note written when it is encrypted, locked or not.      *)
(***************************************************************************)
\* Mutant of BeginSave: whether there is a key is not asked.
BeginSaveAnyway(s) ==
  /\ saves[s] = NoKey
  /\ saves' = [saves EXCEPT ![s] = key]
  /\ Rearm
  /\ UNCHANGED <<metadata, calls, key, sealed>>

BeginSave(s) ==
  /\ key # NoKey /\ saves[s] = NoKey
  /\ saves' = [saves EXCEPT ![s] = key]
  /\ Rearm
  /\ UNCHANGED <<metadata, calls, key, sealed>>

Seal(s) ==
  /\ saves[s] # NoKey
  /\ sealed' = sealed \cup {saves[s]}
  /\ saves'  = [saves EXCEPT ![s] = NoKey]
  /\ UNCHANGED <<metadata, calls, key, timer, idle>>

\* The app is killed and started again: the tables survive.
Crash ==
  /\ calls' = [c \in Calls |-> NoCall]
  /\ saves' = [s \in Saves |-> NoKey]
  /\ Lock
  /\ UNCHANGED <<metadata, sealed>>

Next ==
  \/ LockNow \/ Fire \/ Poke \/ Tick \/ Crash
  \/ \E c \in Calls : (\E p \in Passwords : Unlock(c, p)) \/ Step(c) \/ Fail(c)
  \/ \E s \in Saves : BeginSave(s) \/ Seal(s)

Spec == Init /\ [][Next]_vars

-----------------------------------------------------------------------------
\* The variables hold what the tables and the fields of the app can hold.
TypeOK ==
  /\ metadata \in Seq(Salts)
  /\ calls    \in [Calls -> {NoCall} \cup Asking \cup Deriving]
  /\ key      \in Key \cup {NoKey}
  /\ timer    \in 0 .. LockDuration \cup {NoTimer}
  /\ saves    \in [Saves -> Key \cup {NoKey}]
  /\ sealed   \subseteq Key
  /\ idle     \in 0 .. LockDuration

(***************************************************************************)
(* An unlocked vault has a timer, which counts from the last interaction,  *)
(* whatever unlocks, failures and saves have overlapped.                   *)
(***************************************************************************)
AutoLock == key # NoKey => timer # NoTimer /\ timer + idle = LockDuration

(***************************************************************************)
(* All keys there are come from one salt, however many first unlocks have  *)
(* overlapped: a note opens with the password it was sealed under.         *)
(***************************************************************************)
Keys == ({key} \cup sealed \cup {saves[s] : s \in Saves}) \ {NoKey}
OneSaltInUse == \A k, l \in Keys : k.salt = l.salt

\* nyrex-crypto's kdf.rs: "the salt is generated once per user and stored on
\* the device".  Of two first unlocks that overlap each stores one.
SaltIsGeneratedOnce == Len(metadata) <= 1

(***************************************************************************)
(* What a second salt comes to: once the vault is locked and no key is     *)
(* derived, it stays locked for good, as every unlock throws, restarts of  *)
(* the app included.                                                       *)
(***************************************************************************)
LockedOut ==
  /\ Len(metadata) > 1 /\ key = NoKey
  /\ \A c \in Calls : ~At(c, "derive")

SecondSaltLocksOut == [][LockedOut => LockedOut']_vars

\* A vault that is left alone is locked in the end.
LeftAloneLocks == (key # NoKey /\ idle > 0) ~> (key = NoKey \/ idle = 0)
==============================================================================
