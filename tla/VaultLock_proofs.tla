--------------------------- MODULE VaultLock_proofs ---------------------------
(***************************************************************************)
(* Theorems about VaultLock, for any passwords, salts and lock duration    *)
(* and any number of unlocks and saves.                                    *)
(***************************************************************************)
EXTENDS VaultLock, TLAPS

USE DurationIsPositive, NoTimerIsNoTime

CallStates == {NoCall} \cup Asking \cup Deriving

-----------------------------------------------------------------------------
(***************************************************************************)
(* Types and the timer.  The bound on idle needs the timer: what a tick    *)
(* adds to the one it takes from the other.                                *)
(***************************************************************************)
TimerInv == TypeOK /\ AutoLock

\* A step of a call of unlock keeps the types of calls, saves and stored notes.
LEMMA MoveType ==
  ASSUME TypeOK, NEW c \in Calls, NEW call \in CallStates, Move(c, call)
  PROVE  /\ calls'  \in [Calls -> CallStates]
         /\ saves'  \in [Saves -> Key \cup {NoKey}]
         /\ sealed' \subseteq Key
BY DEF TypeOK, Move, CallStates

\* What a call of unlock knows follows from where it is.
LEMMA CallType ==
  ASSUME TypeOK, NEW c \in Calls
  PROVE  /\ calls[c].pc \in {"read", "initialize", "reread"} => calls[c].password \in Passwords
         /\ calls[c].pc = "derive" => calls[c].password \in Passwords /\ calls[c].salt \in Salts
BY DEF TypeOK, NoCall, Asking, Deriving

\* A failing unlock forgets the key and keeps the timer in its range.
LEMMA ThrowInv ==
  ASSUME TimerInv, NEW c \in Calls, Throw(c)
  PROVE  TimerInv'
<1>1. NoCall \in CallStates
  BY DEF CallStates
<1>2. calls' \in [Calls -> CallStates] /\ saves' \in [Saves -> Key \cup {NoKey}] /\ sealed' \subseteq Key
  BY <1>1, MoveType DEF TimerInv, Throw
<1> QED
  BY <1>2 DEF TimerInv, TypeOK, AutoLock, Throw, CallStates

\* A step of a call that leaves the key and the timer alone keeps both invariants.
LEMMA MoveInv ==
  ASSUME TimerInv, NEW c \in Calls, NEW call \in CallStates, Move(c, call),
         metadata' \in Seq(Salts), UNCHANGED <<key, timer, idle>>
  PROVE  TimerInv'
<1>1. calls' \in [Calls -> CallStates] /\ saves' \in [Saves -> Key \cup {NoKey}] /\ sealed' \subseteq Key
  BY MoveType DEF TimerInv
<1> QED
  BY <1>1 DEF TimerInv, TypeOK, AutoLock, CallStates

\* Going on to the derivation does.
LEMMA DeriveInv ==
  ASSUME TimerInv, NEW c \in Calls, calls[c].password \in Passwords,
         NEW salt \in Salts, Derive(c, salt)
  PROVE  TimerInv'
<1> DEFINE call == [pc |-> "derive", password |-> calls[c].password, salt |-> salt]
<1>1. call \in CallStates
  BY DEF CallStates, Deriving
<1>2. Move(c, call) /\ UNCHANGED <<metadata, key, timer, idle>>
  BY DEF Derive
<1>3. metadata' \in Seq(Salts)
  BY <1>2 DEF TimerInv, TypeOK
<1> HIDE DEF call
<1> QED
  BY <1>1, <1>2, <1>3, MoveInv

\* Locking and starting the timer again establish what they disturb.
LEMMA LockInv ==
  ASSUME TimerInv, Lock, metadata' = metadata, sealed' = sealed,
         calls' \in [Calls -> CallStates], saves' \in [Saves -> Key \cup {NoKey}]
  PROVE  TimerInv'
BY DEF TimerInv, TypeOK, AutoLock, Lock, CallStates

\* Starting the timer again makes it count from now.
LEMMA RearmInv ==
  ASSUME TimerInv, Rearm, metadata' = metadata, sealed' = sealed, key' \in Key \cup {NoKey},
         calls' \in [Calls -> CallStates], saves' \in [Saves -> Key \cup {NoKey}]
  PROVE  TimerInv'
BY DEF TimerInv, TypeOK, AutoLock, Rearm, CallStates

\* Every step keeps the types and the timer.
LEMMA StepTimer ==
  ASSUME TimerInv, [Next]_vars
  PROVE  TimerInv'
<1> USE DEF CallStates
<1>0. /\ calls \in [Calls -> CallStates] /\ saves \in [Saves -> Key \cup {NoKey}]
      /\ key \in Key \cup {NoKey}
  BY DEF TimerInv, TypeOK
<1> HIDE DEF CallStates
<1>1. CASE LockNow
  BY <1>0, <1>1, LockInv DEF LockNow
<1>2. CASE Fire
  BY <1>0, <1>2, LockInv DEF Fire
<1>3. CASE Poke
  BY <1>0, <1>3, RearmInv DEF Poke
<1>4. CASE Tick
  BY <1>4 DEF TimerInv, TypeOK, AutoLock, Tick
<1>5. CASE Crash
  <2>1. calls' \in [Calls -> CallStates] /\ saves' \in [Saves -> Key \cup {NoKey}]
    BY <1>5 DEF Crash, CallStates
  <2> QED
    BY <1>5, <2>1, LockInv DEF Crash
<1>6. ASSUME NEW c \in Calls, NEW p \in Passwords, Unlock(c, p)
      PROVE  TimerInv'
  <2>1. [pc |-> "read", password |-> p] \in CallStates
    BY DEF CallStates, Asking
  <2>2. metadata' \in Seq(Salts)
    BY <1>6 DEF Unlock, TimerInv, TypeOK
  <2> QED
    BY <1>6, <2>1, <2>2, MoveInv DEF Unlock
<1>7. ASSUME NEW c \in Calls, Read(c)
      PROVE  TimerInv'
  <2>1. calls[c].password \in Passwords
    BY <1>7, CallType DEF TimerInv, Read, At
  <2>2. CASE \E salt \in Salts : Derive(c, salt)
    BY <2>1, <2>2, DeriveInv
  <2>3. CASE Throw(c)
    BY <2>3, ThrowInv
  <2>4. CASE /\ Move(c, [pc |-> "initialize", password |-> calls[c].password])
             /\ UNCHANGED <<metadata, key, timer, idle>>
    <3>1. [pc |-> "initialize", password |-> calls[c].password] \in CallStates
      BY <2>1 DEF CallStates, Asking
    <3>2. metadata' \in Seq(Salts)
      BY <2>4 DEF TimerInv, TypeOK
    <3> QED
      BY <2>4, <3>1, <3>2, MoveInv
  <2> QED
    BY <1>7, <2>2, <2>3, <2>4 DEF Read
<1>8. ASSUME NEW c \in Calls, Initialize(c)
      PROVE  TimerInv'
  <2>1. [pc |-> "reread", password |-> calls[c].password] \in CallStates
    BY <1>8, CallType DEF TimerInv, Initialize, At, CallStates, Asking
  <2>2. metadata' \in Seq(Salts)
    BY <1>8 DEF Initialize, TimerInv, TypeOK
  <2> QED
    BY <1>8, <2>1, <2>2, MoveInv DEF Initialize
<1>9. ASSUME NEW c \in Calls, Reread(c)
      PROVE  TimerInv'
  <2>1. calls[c].password \in Passwords
    BY <1>9, CallType DEF TimerInv, Reread, At
  <2> QED
    BY <1>9, <2>1, DeriveInv, ThrowInv DEF Reread
<1>10. ASSUME NEW c \in Calls, Keep(c)
       PROVE  TimerInv'
  <2>1. key' \in Key
    BY <1>10, CallType DEF TimerInv, Keep, At, Key
  <2>2. NoCall \in CallStates
    BY DEF CallStates
  <2>3. /\ calls' \in [Calls -> CallStates] /\ saves' \in [Saves -> Key \cup {NoKey}]
        /\ metadata' = metadata /\ sealed' = sealed
    BY <1>10, <2>2, MoveType DEF Keep, TimerInv, Move
  <2> QED
    BY <1>10, <2>1, <2>3, RearmInv DEF Keep
<1>11. ASSUME NEW c \in Calls, Fail(c)
       PROVE  TimerInv'
  BY <1>11, ThrowInv DEF Fail
<1>12. ASSUME NEW s \in Saves, BeginSave(s)
       PROVE  TimerInv'
  BY <1>0, <1>12, RearmInv DEF BeginSave
<1>13. ASSUME NEW s \in Saves, Seal(s)
       PROVE  TimerInv'
  BY <1>13 DEF Seal, TimerInv, TypeOK, AutoLock
<1>14. CASE UNCHANGED vars
  BY <1>14 DEF vars, TimerInv, TypeOK, AutoLock
<1> QED
  BY <1>1, <1>2, <1>3, <1>4, <1>5, <1>6, <1>7, <1>8, <1>9, <1>10, <1>11, <1>12, <1>13, <1>14
  DEF Next, Step

\* The types and the timer are always right.
LEMMA TimerCorrect == Spec => []TimerInv
<1>1. Init => TimerInv
  BY DEF Init, TimerInv, TypeOK, AutoLock
<1>2. TimerInv /\ [Next]_vars => TimerInv'
  BY StepTimer
<1> QED
  BY <1>1, <1>2, PTL DEF Spec

(***************************************************************************)
(* The variables of the vault lock always have their types.                *)
(***************************************************************************)
THEOREM TypeCorrect == Spec => []TypeOK
BY TimerCorrect, PTL DEF TimerInv

(***************************************************************************)
(* An unlocked vault always has a timer that counts from the last          *)
(* interaction.                                                            *)
(***************************************************************************)
THEOREM UnlockedHasTimer == Spec => []AutoLock
BY TimerCorrect, PTL DEF TimerInv

-----------------------------------------------------------------------------
(***************************************************************************)
(* The salt.  Rows are only added, behind the first, and a salt is only    *)
(* read while the first is alone: every key, and every key a call is about *)
(* to derive, comes from the first row.                                    *)
(***************************************************************************)
FromFirstRow(salt) == metadata # <<>> /\ salt = metadata[1]

SaltInv ==
  /\ \A c \in Calls : At(c, "derive") => FromFirstRow(calls[c].salt)
  /\ \A k \in Keys : FromFirstRow(k.salt)

\* A salt that comes from the first row still does when rows are added.
LEMMA FirstRowStays ==
  ASSUME TypeOK, [Next]_vars, NEW salt, FromFirstRow(salt)
  PROVE  FromFirstRow(salt)'
<1>1. metadata' = metadata \/ \E new \in Salts : metadata' = Append(metadata, new)
  BY DEF Next, vars, Step, LockNow, Fire, Poke, Tick, Crash, Unlock, Read, Initialize, Reread,
         Keep, Fail, BeginSave, Seal, Derive, Throw
<1> QED
  BY <1>1 DEF TypeOK, FromFirstRow

\* A call that reads a salt reads the one of the first row.
LEMMA FoundIsFirst ==
  ASSUME TypeOK, NEW salt, Found(salt)
  PROVE  FromFirstRow(salt)
<1>1. metadata \in Seq(Salts)
  BY DEF TypeOK
<1>2. Len(metadata) = 1 /\ salt = metadata[1]
  BY DEF Found
<1>3. Len(metadata) = 1
  BY <1>2
<1>4. metadata # <<>>
  BY ONLY <1>1, <1>3
<1> QED
  BY <1>2, <1>4 DEF FromFirstRow

\* What a step derives from is what was derived from, or what it has found.
LEMMA DerivingOnlyFound ==
  ASSUME TypeOK, [Next]_vars, NEW c \in Calls, At(c, "derive")'
  PROVE  (At(c, "derive") /\ calls'[c] = calls[c]) \/ Found(calls'[c].salt)
<1>1. ASSUME NEW b \in Calls, NEW call, Move(b, call), call.pc # "derive"
      PROVE  calls'[c] = calls[c]
  BY <1>1 DEF Move, TypeOK, At
<1>2. ASSUME NEW b \in Calls, NEW salt \in Salts, Derive(b, salt)
      PROVE  calls'[c] = calls[c] \/ calls'[c].salt = salt
  BY <1>2 DEF Derive, Move, TypeOK
<1>3. ASSUME NEW b \in Calls, NEW p \in Passwords, Unlock(b, p)
      PROVE  calls'[c] = calls[c]
  BY <1>1, <1>3 DEF Unlock
<1>4. ASSUME NEW b \in Calls, Throw(b)
      PROVE  calls'[c] = calls[c]
  BY <1>1, <1>4 DEF Throw, NoCall
<1>5. ASSUME NEW b \in Calls, Read(b)
      PROVE  calls'[c] = calls[c] \/ Found(calls'[c].salt)
  BY <1>1, <1>2, <1>4, <1>5 DEF Read
<1>6. ASSUME NEW b \in Calls, Initialize(b)
      PROVE  calls'[c] = calls[c]
  BY <1>1, <1>6 DEF Initialize
<1>7. ASSUME NEW b \in Calls, Reread(b)
      PROVE  calls'[c] = calls[c] \/ Found(calls'[c].salt)
  BY <1>2, <1>4, <1>7 DEF Reread
<1>8. ASSUME NEW b \in Calls, Keep(b)
      PROVE  calls'[c] = calls[c]
  BY <1>1, <1>8 DEF Keep, NoCall
<1>9. ASSUME NEW b \in Calls, Fail(b)
      PROVE  calls'[c] = calls[c]
  BY <1>4, <1>9 DEF Fail
<1>10. ~Crash
  BY DEF Crash, At, NoCall
<1>11. calls'[c] = calls[c] \/ Found(calls'[c].salt)
  BY <1>3, <1>5, <1>6, <1>7, <1>8, <1>9, <1>10
  DEF Next, vars, Step, LockNow, Fire, Poke, Tick, BeginSave, Seal
<1> QED
  BY <1>11 DEF At

\* A key is an earlier key, or what a call has derived.
LEMMA KeysOnlyDerived ==
  ASSUME TypeOK, [Next]_vars, NEW k \in Keys'
  PROVE  k \in Keys \/ \E c \in Calls : At(c, "derive") /\ k.salt = calls[c].salt
<1>1. ASSUME UNCHANGED <<saves, sealed>>, key' \in {key, NoKey}
      PROVE  k \in Keys
  BY <1>1 DEF Keys
<1>2. CASE LockNow \/ Fire \/ Poke \/ Tick
  BY <1>1, <1>2 DEF LockNow, Fire, Poke, Tick, Lock
<1>3. CASE Crash
  BY <1>3 DEF Crash, Lock, Keys
<1>4. ASSUME NEW c \in Calls, NEW p \in Passwords, Unlock(c, p)
      PROVE  k \in Keys
  BY <1>1, <1>4 DEF Unlock, Move
<1>5. ASSUME NEW c \in Calls, Read(c) \/ Initialize(c) \/ Reread(c) \/ Fail(c)
      PROVE  k \in Keys
  BY <1>1, <1>5 DEF Read, Initialize, Reread, Fail, Derive, Throw, Move
<1>6. ASSUME NEW c \in Calls, Keep(c)
      PROVE  k \in Keys \/ (At(c, "derive") /\ k.salt = calls[c].salt)
  BY <1>6 DEF Keep, Move, Keys
<1>7. ASSUME NEW s \in Saves, BeginSave(s)
      PROVE  k \in Keys
  BY <1>7 DEF BeginSave, Keys, TypeOK
<1>8. ASSUME NEW s \in Saves, Seal(s)
      PROVE  k \in Keys
  BY <1>8 DEF Seal, Keys, TypeOK
<1>9. CASE UNCHANGED vars
  BY <1>1, <1>9 DEF vars
<1> QED
  BY <1>2, <1>3, <1>4, <1>5, <1>6, <1>7, <1>8, <1>9 DEF Next, Step

\* Every step keeps all keys on the salt of the first row.
LEMMA StepSalt ==
  ASSUME TypeOK, SaltInv, [Next]_vars
  PROVE  SaltInv'
<1>1. ASSUME NEW c \in Calls, At(c, "derive")'
      PROVE  FromFirstRow(calls[c].salt)'
  <2>1. FromFirstRow(calls'[c].salt)
    BY <1>1, DerivingOnlyFound, FoundIsFirst DEF SaltInv
  <2> QED
    BY <2>1, FirstRowStays DEF FromFirstRow
<1>2. ASSUME NEW k \in Keys'
      PROVE  FromFirstRow(k.salt)'
  <2>1. FromFirstRow(k.salt)
    BY <1>2, KeysOnlyDerived DEF SaltInv
  <2> QED
    BY <2>1, FirstRowStays
<1> QED
  BY <1>1, <1>2 DEF SaltInv

(***************************************************************************)
(* All keys that are kept, that saves carry and that notes are sealed with *)
(* come from one salt, however many first unlocks have overlapped.         *)
(***************************************************************************)
THEOREM OneSalt == Spec => []OneSaltInUse
<1>1. Init => SaltInv
  BY DEF Init, SaltInv, Keys, At, NoCall
<1>2. TypeOK /\ SaltInv /\ [Next]_vars => SaltInv'
  BY StepSalt
<1>3. SaltInv => OneSaltInUse
  BY DEF SaltInv, OneSaltInUse, FromFirstRow
<1> QED
  BY <1>1, <1>2, <1>3, TypeCorrect, PTL DEF Spec

-----------------------------------------------------------------------------
(***************************************************************************)
(* With two salts in the table a locked vault is never unlocked again, by  *)
(* any password, whatever is called, killed or started again: the overlap  *)
(* of two first unlocks is not made good by anything the app can do.       *)
(***************************************************************************)
THEOREM NoWayBack == Spec => SecondSaltLocksOut
<1>1. ASSUME TypeOK, [Next]_vars, LockedOut
      PROVE  LockedOut'
  <2>1. metadata \in Seq(Salts) /\ Len(metadata) > 1
    BY <1>1 DEF TypeOK, LockedOut
  <2>2. metadata' = metadata \/ \E salt \in Salts : metadata' = Append(metadata, salt)
    BY <1>1 DEF Next, vars, Step, LockNow, Fire, Poke, Tick, Crash, Unlock, Read, Initialize,
           Reread, Keep, Fail, BeginSave, Seal, Derive, Throw
  <2>3. Len(metadata') > 1
    BY <2>1, <2>2
  <2>4. ASSUME NEW c \in Calls, At(c, "derive")'
        PROVE  FALSE
    <3>1. ~At(c, "derive")
      BY <1>1 DEF LockedOut
    <3>2. Len(metadata) # 1
      <4>1. Len(metadata) \in Nat
        BY <2>1
      <4>2. Len(metadata) > 1
        BY <2>1
      <4>3. \A n \in Nat : n > 1 => n # 1
        OBVIOUS
      <4> QED
        BY ONLY <4>1, <4>2, <4>3, Zenon
    <3>3. ~Found(calls'[c].salt)
      BY <3>2 DEF Found
    <3> QED
      BY <1>1, <2>4, <3>1, <3>3, DerivingOnlyFound
  <2>5. key' = NoKey
    <3>1. \A c \in Calls : ~Keep(c)
      BY <1>1 DEF LockedOut, Keep
    <3> QED
      BY <1>1, <3>1 DEF LockedOut, Next, vars, Step, LockNow, Lock, Fire, Poke, Tick, Crash,
         Unlock, Read, Initialize, Reread, Fail, BeginSave, Seal, Derive, Throw
  <2> QED
    BY <2>3, <2>4, <2>5 DEF LockedOut
<1>2. TypeOK /\ [Next]_vars => [LockedOut => LockedOut']_vars
  BY <1>1
<1> QED
  BY <1>2, TypeCorrect, PTL DEF Spec, SecondSaltLocksOut
==============================================================================
