-------------------------- MODULE NotesClient_proofs --------------------------
(***************************************************************************)
(* Theorems about NotesClient, for any number of notes, texts, saves and   *)
(* syncs.                                                                  *)
(***************************************************************************)
EXTENDS NotesClient, TLAPS

USE IntRange, NoNoteIsNoNote, ChecksIsBoolean, LocalIdsAreInts, NoteIdsAreTimes, IAmAUser,
    ASwitch, BoundsAreNats, ClockIsASwitch, VersionOne, MarkersAreNoRows, NoIdIsNoId

-----------------------------------------------------------------------------
(***************************************************************************)
(* The hub's rule.                                                         *)
(***************************************************************************)
LEMMA ReconcileType ==
  ASSUME NEW client \in Note, NEW server \in Note \cup {NoNote},
         ReconcileNote(client, server).tag # "Panic"
  PROVE  ReconcileNote(client, server) \in SyncResult
<1>1. NextVersion(client.version) \in Versions
  BY DEF Note, Versions, NextVersion
<1>2. [client EXCEPT !.version = NextVersion(client.version)] \in Note
  BY <1>1 DEF Note
<1> QED
  BY <1>2 DEF ReconcileNote, SyncResult, Success, Conflict, Panic

\* A note the hub does not have is stored as it is.
LEMMA ReconcileNew ==
  ASSUME NEW client
  PROVE  ReconcileNote(client, NoNote) = [tag |-> "Success", note |-> client]
BY DEF ReconcileNote, Success

-----------------------------------------------------------------------------
(***************************************************************************)
(* Types.                                                                  *)
(***************************************************************************)
SyncStates == {NoSync, Chosen} \cup InFlight

\* A step of a sync keeps the types of all that is on the device besides its rows.
LEMMA MoveType ==
  ASSUME TypeOK, NEW y \in Syncs, NEW sync \in SyncStates, Move(y, sync)
  PROVE  /\ cache' \in [LocalIds -> Versions \cup {NoNote}]
         /\ reload' \in [state : {"fresh", "due"}]
                          \cup [state : {"loading"}, shown : [LocalIds -> Versions \cup {NoNote}]]
         /\ saves' \in [Saves -> Jobs \cup {NoSave}]
         /\ started' \in 0 .. MaxSaves
         /\ syncs' \in [Syncs -> SyncStates]
BY DEF TypeOK, Move, SyncStates

\* A sync that waits for the hub or applies its answer carries a batch.
LEMMA Flying ==
  ASSUME TypeOK, NEW y \in Syncs, syncs[y].pc \in {"post", "apply"}
  PROVE  /\ syncs[y] \in InFlight
         /\ DOMAIN syncs[y].batch \subseteq LocalIds
         /\ \A n \in DOMAIN syncs[y].batch : syncs[y].batch[n] \in Note
         /\ \A n \in DOMAIN syncs[y].results : syncs[y].results[n] \in SyncResult
<1>1. syncs[y] \in InFlight
  BY DEF TypeOK, NoSync, Chosen
<1>2. PICK S \in SUBSET LocalIds : syncs[y].batch \in [S -> Note]
  BY <1>1 DEF InFlight, Payloads
<1>3. PICK R \in SUBSET LocalIds : syncs[y].results \in [R -> SyncResult]
  BY <1>1 DEF InFlight, Replies
<1> QED
  BY <1>1, <1>2, <1>3

\* A verdict joins those that a sync has got.
LEMMA AnsweredType ==
  ASSUME TypeOK, NEW y \in Syncs, syncs[y].pc \in {"post", "apply"}, NEW n \in LocalIds,
         NEW verdict \in SyncResult, Answered(y, n, verdict)
  PROVE  \E sync \in InFlight :
           /\ Move(y, sync) /\ sync.pc = syncs[y].pc /\ sync.batch = syncs[y].batch
           /\ DOMAIN sync.results = DOMAIN syncs[y].results \cup {n}
           /\ sync.results[n] = verdict
           /\ \A m \in DOMAIN syncs[y].results \ {n} : sync.results[m] = syncs[y].results[m]
<1> DEFINE res  == syncs[y].results
           res2 == [m \in DOMAIN res \cup {n} |-> IF m = n THEN verdict ELSE res[m]]
           sync == [syncs[y] EXCEPT !.results = res2]
<1>1. syncs[y] \in InFlight
  BY Flying
<1>2. PICK R \in SUBSET LocalIds : res \in [R -> SyncResult]
  BY <1>1 DEF InFlight, Replies
<1>3. res2 \in [R \cup {n} -> SyncResult]
  BY <1>2
<1>4. res2 \in Replies
  BY <1>3 DEF Replies
<1>5. sync \in InFlight /\ sync.pc = syncs[y].pc /\ sync.batch = syncs[y].batch
      /\ sync.results = res2
  BY <1>1, <1>4 DEF InFlight
<1>6. Move(y, sync)
  BY DEF Answered
<1>7. /\ DOMAIN res2 = DOMAIN res \cup {n} /\ res2[n] = verdict
      /\ \A m \in DOMAIN res \ {n} : res2[m] = res[m]
  OBVIOUS
<1> HIDE DEF sync, res2
<1> QED
  BY <1>5, <1>6, <1>7 DEF res

\* What the hub is pushed, compares, answers and stores have their types.
LEMMA HubType ==
  ASSUME TypeOK, NEW y \in Syncs, NEW n \in LocalIds, IsUpNext(y, n)
  PROVE  /\ Pushed(y, n) \in Note
         /\ hub[Pushed(y, n).id] \in Note \cup {NoNote}
         /\ Verdict(y, n).tag # "Panic" => Verdict(y, n) \in SyncResult
         /\ Stored(y, n) => hub' \in [NoteIds -> Note \cup {NoNote}]
<1>1. Pushed(y, n) \in Note
  BY Flying DEF IsUpNext, IsFirst, At, Unanswered, Pushed
<1>2. hub[Pushed(y, n).id] \in Note \cup {NoNote}
  BY <1>1 DEF TypeOK, Note
<1>3. Verdict(y, n).tag # "Panic" => Verdict(y, n) \in SyncResult
  BY <1>1, <1>2, ReconcileType DEF Verdict, SyncResult, Error
<1>4. Stored(y, n) => Verdict(y, n).note \in Note
  BY <1>3 DEF Stored, SyncResult, Error
<1> QED
  BY <1>1, <1>2, <1>3, <1>4 DEF Stored, TypeOK

\* A row that a verdict was applied to is a row.
LEMMA SettledType ==
  ASSUME NEW row \in Row, NEW verdict \in SyncResult
  PROVE  Settled(row, verdict) \in Row
BY DEF Settled, SyncResult, Error, Row, Note, Versions

\* An applied verdict leaves those that a sync has still to apply.
LEMMA AppliedType ==
  ASSUME TypeOK, NEW y \in Syncs, NEW n \in LocalIds, At(y, "apply"),
         n \in DOMAIN syncs[y].results,
         Move(y, [syncs[y] EXCEPT !.results = [m \in DOMAIN @ \ {n} |-> @[m]]])
  PROVE  \E sync \in InFlight :
           /\ Move(y, sync) /\ sync.pc = "apply" /\ sync.batch = syncs[y].batch
           /\ DOMAIN sync.results = DOMAIN syncs[y].results \ {n}
           /\ \A m \in DOMAIN syncs[y].results \ {n} : sync.results[m] = syncs[y].results[m]
<1> DEFINE res  == syncs[y].results
           res2 == [m \in DOMAIN res \ {n} |-> res[m]]
           sync == [syncs[y] EXCEPT !.results = res2]
<1>1. syncs[y] \in InFlight /\ syncs[y].pc = "apply"
  BY Flying DEF At
<1>2. PICK R \in SUBSET LocalIds : res \in [R -> SyncResult]
  BY <1>1 DEF InFlight, Replies
<1>3. res2 \in [R \ {n} -> SyncResult]
  BY <1>2
<1>4. res2 \in Replies
  BY <1>3 DEF Replies
<1>5. sync \in InFlight /\ sync.pc = "apply" /\ sync.batch = syncs[y].batch
      /\ sync.results = res2
  BY <1>1, <1>4 DEF InFlight
<1>6. Move(y, sync)
  OBVIOUS
<1>7. DOMAIN res2 = DOMAIN res \ {n} /\ \A m \in DOMAIN res \ {n} : res2[m] = res[m]
  OBVIOUS
<1> HIDE DEF sync, res2
<1> QED
  BY <1>5, <1>6, <1>7 DEF res

\* What is pushed for a row is a note.
LEMMA PayloadType ==
  ASSUME TypeOK, NEW S \in SUBSET LocalIds, NEW temp \in [S -> NoteIds], NEW n \in S, Stands(n)
  PROVE  Payload(n, temp) \in Note
BY DEF Payload, TypeOK, Stands, Row, Note

\* A sync that has chosen its notes carries them.
LEMMA SelectedType ==
  ASSUME TypeOK, NEW temp \in TempIds(PendingNotes)
  PROVE  [pc |-> "post", batch |-> [n \in PendingNotes |-> Payload(n, temp)], results |-> NoReplies]
           \in InFlight
<1>1. PendingNotes \in SUBSET LocalIds /\ \A n \in PendingNotes : Stands(n)
  BY DEF PendingNotes, IsPending
<1>2. temp \in [PendingNotes -> NoteIds]
  BY DEF TempIds
<1>3. [n \in PendingNotes |-> Payload(n, temp)] \in [PendingNotes -> Note]
  BY <1>1, <1>2, PayloadType
<1>4. NoReplies \in [{} -> SyncResult]
  BY DEF NoReplies
<1> QED
  BY <1>1, <1>3, <1>4 DEF InFlight, Payloads, Replies

\* The steps of a save keep the types.
LEMMA SaveType ==
  ASSUME TypeOK, NEW s \in Saves, Save(s)
  PROVE  TypeOK'
<1>1. ASSUME Saved(s)
      PROVE  /\ saves' \in [Saves -> Jobs \cup {NoSave}]
             /\ reload' \in [state : {"fresh", "due"}]
             /\ syncs' \in [Syncs -> {NoSync, Chosen} \cup InFlight]
             /\ UNCHANGED <<cache, hub, clock, started, losses>>
  BY <1>1 DEF Saved, StartSync, TypeOK
<1>2. rows' \in [LocalIds -> Row \cup {NoNote, Gone}]
  <2>1. CASE Insert(s)
    <3>1. saves[s].cipher \in Ciphers
      BY <2>1 DEF Insert, TypeOK, Jobs, NoSave
    <3>2. Fresh(saves[s].cipher, 1) \in Row
      BY <3>1 DEF Fresh, Row
    <3> QED
      BY <2>1, <3>2 DEF Insert, TypeOK
  <2>2. CASE Replace(s)
    <3>1. saves[s] \in Jobs /\ saves[s].op = "edit"
      BY <2>2 DEF Replace, TypeOK, NoSave
    <3>2. saves[s].cipher \in Ciphers /\ saves[s].version \in Versions
      BY <3>1 DEF Jobs
    <3>3. saves[s].version + 1 \in Versions
      BY <3>1 DEF Jobs, Versions
    <3>4. Fresh(saves[s].cipher, saves[s].version + 1) \in Row
      BY <3>2, <3>3 DEF Fresh, Row
    <3> QED
      BY <2>2, <3>4 DEF Replace, TypeOK
  <2> QED
    BY <2>1, <2>2 DEF Save
<1> QED
  BY <1>1, <1>2 DEF Save, Insert, Replace, TypeOK

\* The steps of a sync keep the types.
LEMMA SyncType ==
  ASSUME TypeOK, NEW y \in Syncs, Sync(y) \/ Refuse(y) \/ Lose(y)
  PROVE  TypeOK'
<1>1. ASSUME NEW sync \in SyncStates, Move(y, sync), rows' = rows, hub' = hub,
             clock' \in NoteIds \cup {0}, losses' \in 0 .. MaxLosses
      PROVE  TypeOK'
  BY <1>1, MoveType DEF TypeOK, SyncStates
<1>l. Lossy => losses' \in 0 .. MaxLosses
  BY DEF Lossy, TypeOK
<1>2. CASE Select(y)
  <2>1. CASE Move(y, NoSync) /\ UNCHANGED clock
    BY <1>1, <1>2, <2>1 DEF Select, SyncStates, TypeOK
  <2>2. ASSUME NEW temp \in TempIds(PendingNotes),
               Move(y, [pc |-> "post", batch |-> [n \in PendingNotes |-> Payload(n, temp)],
                        results |-> NoReplies]),
               \E n \in PendingNotes : clock' = temp[n]
        PROVE  TypeOK'
    <3>1. clock' \in NoteIds
      BY <2>2 DEF TempIds
    <3> QED
      BY <1>1, <1>2, <2>2, <3>1, SelectedType DEF Select, SyncStates, TypeOK
  <2> QED
    BY <1>2, <2>1, <2>2 DEF Select
<1>3. ASSUME NEW n \in LocalIds, IsUpNext(y, n), NEW verdict \in SyncResult,
             Answered(y, n, verdict), Stored(y, n) \/ UNCHANGED hub,
             UNCHANGED <<rows, clock>>, losses' \in 0 .. MaxLosses
      PROVE  TypeOK'
  <2>2. hub' \in [NoteIds -> Note \cup {NoNote}]
    BY <1>3, HubType DEF TypeOK
  <2>3. \E sync \in InFlight : Move(y, sync)
    BY <1>3, AnsweredType DEF IsUpNext, At
  <2> QED
    BY <1>3, <2>2, <2>3, MoveType DEF TypeOK, SyncStates
<1>4. CASE Push(y)
  <2>1. PICK n \in LocalIds :
          /\ IsUpNext(y, n)
          /\ Stored(y, n) \/ (Verdict(y, n).tag \in {"Conflict", "Error"} /\ UNCHANGED hub)
          /\ Answered(y, n, Verdict(y, n))
          /\ UNCHANGED <<rows, clock, losses>>
    BY <1>4 DEF Push
  <2>2. Verdict(y, n) \in SyncResult
    BY <2>1, HubType DEF Stored
  <2> QED
    BY <1>3, <2>1, <2>2 DEF TypeOK
<1>5. CASE Refuse(y)
  <2>1. Error \in SyncResult
    BY DEF SyncResult
  <2> QED
    BY <1>3, <1>5, <1>l, <2>1 DEF Refuse
<1>6. CASE Receive(y)
  <2>1. syncs[y] \in InFlight
    BY <1>6, Flying DEF Receive, At
  <2>2. [pc |-> "apply", batch |-> syncs[y].batch, results |-> syncs[y].results] \in InFlight
    BY <2>1 DEF InFlight
  <2> QED
    BY <1>1, <1>6, <2>2 DEF Receive, SyncStates, TypeOK
<1>7. CASE Apply(y)
  <2>1. PICK n \in LocalIds :
          /\ At(y, "apply") /\ n \in DOMAIN syncs[y].results
          /\ rows' = IF Stands(n)
                     THEN [rows EXCEPT ![n] = Settled(rows[n], syncs[y].results[n])] ELSE rows
          /\ Move(y, [syncs[y] EXCEPT !.results = [m \in DOMAIN @ \ {n} |-> @[m]]])
          /\ UNCHANGED <<hub, clock, losses>>
    BY <1>7 DEF Apply, IsFirst
  <2>2. Stands(n) => Settled(rows[n], syncs[y].results[n]) \in Row
    BY <2>1, Flying, SettledType DEF At, Stands, TypeOK
  <2>3. rows' \in [LocalIds -> Row \cup {NoNote, Gone}]
    BY <2>1, <2>2 DEF TypeOK
  <2>4. \E sync \in InFlight : Move(y, sync)
    BY <2>1, AppliedType
  <2> QED
    BY <2>1, <2>3, <2>4, MoveType DEF TypeOK, SyncStates
<1>8. CASE Finish(y)
  BY <1>1, <1>8 DEF Finish, SyncStates, TypeOK
<1>9. CASE Lose(y)
  <2>1. losses' \in 0 .. MaxLosses
    BY <1>9 DEF Lose, TypeOK
  <2> QED
    BY <1>1, <1>9, <2>1 DEF Lose, SyncStates, TypeOK
<1> QED
  BY <1>2, <1>4, <1>5, <1>6, <1>7, <1>8, <1>9 DEF Sync

\* Every step keeps the types.
LEMMA TypeStep == TypeOK /\ [Next]_vars => TypeOK'
<1> SUFFICES ASSUME TypeOK, [Next]_vars PROVE TypeOK'
  OBVIOUS
<1>1. CASE UNCHANGED vars
  BY <1>1 DEF TypeOK, vars
<1>2. ASSUME NEW s \in Saves, NEW job \in Jobs, Begin(s, job)
      PROVE  TypeOK'
  BY <1>2 DEF Begin, TypeOK
<1>3. ASSUME NEW s \in Saves, NEW c \in Ciphers, BeginAdd(s, c)
      PROVE  TypeOK'
  BY <1>2, <1>3 DEF BeginAdd, Jobs
<1>4. ASSUME NEW s \in Saves, NEW n \in LocalIds, NEW c \in Ciphers, BeginEdit(s, n, c)
      PROVE  TypeOK'
  <2>1. cache[n] \in Versions \ {MaxInt}
    BY <1>4 DEF BeginEdit, TypeOK, Versions
  <2>2. [op |-> "edit", note |-> n, cipher |-> c, version |-> cache[n]] \in Jobs
    BY <2>1 DEF Jobs
  <2> QED
    BY <1>2, <1>4, <2>2 DEF BeginEdit
<1>5. ASSUME NEW n \in LocalIds, Delete(n)
      PROVE  TypeOK'
  BY <1>5 DEF Delete, TypeOK
<1>6. CASE Load
  <2>1. [n \in LocalIds |-> IF Stands(n) THEN rows[n].version ELSE NoNote]
          \in [LocalIds -> Versions \cup {NoNote}]
    BY DEF TypeOK, Stands, Row
  <2> QED
    BY <1>6, <2>1 DEF Load, TypeOK
<1>7. CASE Show
  BY <1>7 DEF Show, TypeOK
<1>8. CASE Crash
  BY <1>8 DEF Crash, Lossy, TypeOK
<1>9. CASE AddVaultEntry
  BY <1>9 DEF AddVaultEntry, StartSync, TypeOK
<1> QED
  BY <1>1, <1>3, <1>4, <1>5, <1>6, <1>7, <1>8, <1>9, SaveType, SyncType DEF Next

\* The types hold initially.
LEMMA TypeInit == Init => TypeOK
BY DEF Init, TypeOK

(***************************************************************************)
(* Rows, provider, saves, syncs and hub always have their types.           *)
(***************************************************************************)
THEOREM TypeCorrect == Spec => []TypeOK
BY TypeInit, TypeStep, PTL DEF Spec

-----------------------------------------------------------------------------
(***************************************************************************)
(* Pending rows.  A save writes a row without a server id, and a sync that *)
(* gives a row a server id also marks it as synced.                        *)
(***************************************************************************)
LEMMA AnonymousStep == TypeOK /\ PendingIsAnonymous /\ [Next]_vars => PendingIsAnonymous'
<1> SUFFICES ASSUME TypeOK, PendingIsAnonymous, [Next]_vars PROVE PendingIsAnonymous'
  OBVIOUS
<1>1. CASE UNCHANGED rows
  BY <1>1 DEF PendingIsAnonymous, IsPending, Stands
<1>2. ASSUME NEW n \in LocalIds, NEW row,
             rows' = [rows EXCEPT ![n] = row], row = Gone \/ row.serverId = NoId \/ row.isSynced
      PROVE  PendingIsAnonymous'
  BY <1>2 DEF PendingIsAnonymous, IsPending, Stands, TypeOK
<1>3. ASSUME NEW s \in Saves, Insert(s)
      PROVE  PendingIsAnonymous'
  <2>1. PICK n \in LocalIds : rows' = [rows EXCEPT ![n] = Fresh(saves[s].cipher, 1)]
    BY <1>3 DEF Insert
  <2> QED
    BY <1>2, <2>1 DEF Fresh
<1>4. ASSUME NEW s \in Saves, Replace(s)
      PROVE  PendingIsAnonymous'
  <2>1. saves[s].note \in LocalIds
    BY <1>4 DEF Replace, TypeOK, Jobs, NoSave
  <2>2. UNCHANGED rows \/
        rows' = [rows EXCEPT ![saves[s].note] = Fresh(saves[s].cipher, saves[s].version + 1)]
    BY <1>4 DEF Replace
  <2> QED
    BY <1>1, <1>2, <2>1, <2>2 DEF Fresh
<1>5. ASSUME NEW y \in Syncs, Apply(y)
      PROVE  PendingIsAnonymous'
  <2>1. PICK n \in LocalIds :
          rows' = IF Stands(n)
                  THEN [rows EXCEPT ![n] = Settled(rows[n], syncs[y].results[n])] ELSE rows
    BY <1>5 DEF Apply
  <2>2. CASE syncs[y].results[n].tag = "Error"
    BY <1>1, <2>1, <2>2 DEF Settled, TypeOK
  <2>3. CASE syncs[y].results[n].tag # "Error"
    BY <1>1, <1>2, <2>1, <2>3 DEF Settled
  <2> QED
    BY <2>2, <2>3
<1>6. ASSUME NEW n \in LocalIds, Delete(n)
      PROVE  PendingIsAnonymous'
  BY <1>2, <1>6 DEF Delete
<1>7. ASSUME NEW y \in Syncs, (Sync(y) /\ ~Apply(y)) \/ Refuse(y) \/ Lose(y)
      PROVE  UNCHANGED rows
  BY <1>7 DEF Sync, Select, Push, Receive, Finish, Refuse, Lose
<1> QED
  BY <1>1, <1>3, <1>4, <1>5, <1>6, <1>7
     DEF Next, vars, BeginAdd, BeginEdit, Begin, Save, Sync, Load, Show, Crash, AddVaultEntry

\* No row has a server id initially.
LEMMA AnonymousInit == Init => PendingIsAnonymous
BY DEF Init, PendingIsAnonymous, IsPending, Stands

(***************************************************************************)
(* A row that waits for a sync never has a server id.                      *)
(***************************************************************************)
THEOREM PendingRowsAreAnonymous == Spec => []PendingIsAnonymous
BY TypeInit, TypeStep, AnonymousInit, AnonymousStep, PTL DEF Spec

-----------------------------------------------------------------------------
(***************************************************************************)
(* Ids, while the clock ticks.                                             *)
(***************************************************************************)
LEMMA CarriedId ==
  ASSUME TypeOK, NEW y \in Syncs, NEW n, Carries(y, n)
  PROVE  /\ n \in LocalIds /\ syncs[y].batch[n] \in Note
         /\ IdOf(y, n) \in NoteIds /\ IdOf(y, n) \in Nat
BY Flying DEF Carries, IdOf, Note

\* Steps that neither give a note to a sync nor an id to a row.
LEMMA SameFlights ==
  ASSUME TypeOK, IdsAreNew, hub' = hub, clock' = clock,
         \A y \in Syncs : syncs'[y] = syncs[y] \/ syncs'[y].pc \notin {"post", "apply"},
         \A n \in LocalIds : Stands(n)' /\ rows'[n].serverId # NoId =>
                               Stands(n) /\ rows'[n].serverId = rows[n].serverId
  PROVE  IdsAreNew'
<1>1. \A y \in Syncs, n \in LocalIds :
        Carries(y, n)' => Carries(y, n) /\ syncs'[y] = syncs[y]
  BY DEF Carries
<1>2. ASSUME NEW y \in Syncs, NEW n \in LocalIds, Carries(y, n)'
      PROVE  CarriedInv(y, n)'
  <2>1. Carries(y, n) /\ syncs'[y] = syncs[y] /\ CarriedInv(y, n) /\ IdOf(y, n)' = IdOf(y, n)
    BY <1>1, <1>2 DEF IdsAreNew, IdOf
  <2>2. IdOf(y, n) # NoId
    BY <2>1, CarriedId
  <2>3. \A z \in Syncs, m \in LocalIds :
          Carries(z, m)' /\ IdOf(z, m)' = IdOf(y, n)' => z = y /\ m = n
    BY <1>1, <2>1 DEF CarriedInv, IdOf
  <2>4. \A m \in LocalIds : Stands(m)' /\ rows'[m].serverId = IdOf(y, n)' => m = n
    BY <2>1, <2>2 DEF CarriedInv
  <2> QED
    BY <2>1, <2>3, <2>4 DEF CarriedInv, At, Unanswered
<1> QED
  BY <1>2 DEF IdsAreNew

\* An answer, and what is stored with it, keeps ids new.
LEMMA AnsweredKeepsIds ==
  ASSUME TypeOK, IdsAreNew, NEW y \in Syncs, NEW n \in LocalIds, IsUpNext(y, n),
         NEW verdict \in SyncResult, Answered(y, n, verdict),
         \/ verdict = Error
         \/ verdict.tag = "Success" /\ verdict.note.id = IdOf(y, n),
         hub' = hub \/ \E r \in Note : hub' = [hub EXCEPT ![IdOf(y, n)] = r],
         rows' = rows, clock' = clock
  PROVE  IdsAreNew'
<1>0. Carries(y, n) /\ At(y, "post") /\ n \in Unanswered(y) /\ CarriedInv(y, n)
      /\ IdOf(y, n) \in NoteIds
  BY CarriedId DEF IsUpNext, IsFirst, At, Carries, Unanswered, IdsAreNew
<1>1. PICK sync \in InFlight :
        /\ Move(y, sync) /\ sync.pc = syncs[y].pc /\ sync.batch = syncs[y].batch
        /\ DOMAIN sync.results = DOMAIN syncs[y].results \cup {n}
        /\ sync.results[n] = verdict
        /\ \A m \in DOMAIN syncs[y].results \ {n} : sync.results[m] = syncs[y].results[m]
  BY AnsweredType DEF IsUpNext, At
<1>2. syncs'[y] = sync /\ \A z \in Syncs \ {y} : syncs'[z] = syncs[z]
  BY <1>1 DEF Move, TypeOK
<1>3. \A z \in Syncs, m \in LocalIds :
        /\ Carries(z, m)' = Carries(z, m)
        /\ Carries(z, m) => IdOf(z, m)' = IdOf(z, m)
        /\ At(z, "post")' = At(z, "post")
  BY <1>1, <1>2 DEF Carries, IdOf, At
<1>4. \A i \in NoteIds : i # IdOf(y, n) => hub'[i] = hub[i]
  BY DEF TypeOK
<1>5. ASSUME NEW z \in Syncs, NEW m \in LocalIds, Carries(z, m)'
      PROVE  CarriedInv(z, m)'
  <2>1. Carries(z, m) /\ CarriedInv(z, m) /\ IdOf(z, m)' = IdOf(z, m) /\ IdOf(z, m) \in NoteIds
    BY <1>3, <1>5, CarriedId DEF IdsAreNew
  <2>2. At(z, "post")' /\ m \in Unanswered(z)' => hub'[IdOf(z, m)] = NoNote
    <3>1. CASE z = y /\ m = n
      BY <1>1, <1>2, <3>1 DEF Unanswered
    <3>2. CASE ~(z = y /\ m = n)
      <4>1. IdOf(z, m) # IdOf(y, n)
        BY <1>0, <2>1, <3>2 DEF CarriedInv
      <4>2. m \in Unanswered(z)' => m \in Unanswered(z)
        BY <1>1, <1>2 DEF Unanswered
      <4> QED
        BY <1>3, <1>4, <2>1, <4>1, <4>2 DEF CarriedInv
    <3> QED
      BY <3>1, <3>2
  <2>3. m \in DOMAIN syncs'[z].results =>
          \/ syncs'[z].results[m] = Error
          \/ syncs'[z].results[m].tag = "Success" /\ syncs'[z].results[m].note.id = IdOf(z, m)
    <3>1. CASE z = y /\ m = n
      BY <1>1, <1>2, <3>1
    <3>2. CASE z = y /\ m # n
      BY <1>1, <1>2, <2>1, <3>2 DEF CarriedInv
    <3>3. CASE z # y
      BY <1>2, <2>1, <3>3 DEF CarriedInv
    <3> QED
      BY <3>1, <3>2, <3>3
  <2>4. \A x \in Syncs, k \in LocalIds :
          Carries(x, k)' /\ IdOf(x, k)' = IdOf(z, m)' => x = z /\ k = m
    BY <1>3, <2>1 DEF CarriedInv
  <2> QED
    BY <2>1, <2>2, <2>3, <2>4 DEF CarriedInv, Stands
<1>6. \A i \in NoteIds : hub'[i] # NoNote => i <= clock'
  BY <1>0, <1>4 DEF IdsAreNew, CarriedInv
<1>7. \A z \in Syncs : syncs'[z].pc \in {"post", "apply"} =>
        DOMAIN syncs'[z].results \subseteq DOMAIN syncs'[z].batch
  BY <1>0, <1>1, <1>2 DEF IdsAreNew, Carries
<1> QED
  BY <1>5, <1>6, <1>7 DEF IdsAreNew, Stands

\* The ids of a new batch are later than any id before them, and all different.
LEMMA SelectKeepsIds ==
  ASSUME ClockTicks, TypeOK, IdsAreNew, PendingIsAnonymous, NEW y \in Syncs, Select(y)
  PROVE  IdsAreNew'
<1>1. CASE Move(y, NoSync) /\ UNCHANGED clock
  BY <1>1, SameFlights DEF Select, Move, NoSync, TypeOK, Stands
<1>2. ASSUME NEW temp \in TempIds(PendingNotes),
             Move(y, [pc |-> "post", batch |-> [n \in PendingNotes |-> Payload(n, temp)],
                      results |-> NoReplies]),
             \E n \in PendingNotes :
               (\A m \in PendingNotes : temp[m] <= temp[n]) /\ clock' = temp[n]
      PROVE  IdsAreNew'
  <2>1. /\ syncs'[y] = [pc |-> "post", batch |-> [n \in PendingNotes |-> Payload(n, temp)],
                        results |-> NoReplies]
        /\ \A z \in Syncs \ {y} : syncs'[z] = syncs[z]
    BY <1>2 DEF Move, TypeOK
  <2>2. /\ syncs'[y].pc = "post" /\ DOMAIN syncs'[y].batch = PendingNotes
        /\ DOMAIN syncs'[y].results = {}
        /\ \A n \in PendingNotes : syncs'[y].batch[n] = Payload(n, temp)
    BY <2>1 DEF NoReplies
  <2>3. \A n \in PendingNotes : Payload(n, temp).id = temp[n]
    BY DEF Payload, PendingIsAnonymous, PendingNotes
  <2>4. PendingNotes \subseteq LocalIds
    BY DEF PendingNotes
  <2>5. /\ clock \in Nat /\ clock' \in Nat /\ clock <= clock'
        /\ \A n \in PendingNotes : /\ temp[n] \in NoteIds /\ temp[n] \in Nat
                                    /\ ~(temp[n] <= clock) /\ temp[n] <= clock'
        /\ \A m, n \in PendingNotes : temp[m] = temp[n] => m = n
    <3>1. clock \in Nat
      BY DEF TypeOK
    <3>0. \A n \in PendingNotes : temp[n] \in NoteIds /\ temp[n] \in Nat
      BY <1>2 DEF TempIds
    <3>2. \A n \in PendingNotes : clock + 1 <= temp[n]
      BY <1>2 DEF TempIds, Tick
    <3>3. \A m, n \in PendingNotes : m < n => temp[m] + 1 <= temp[n]
      BY <1>2 DEF TempIds, Tick
    <3>4. \A m, n \in PendingNotes : m \in Int /\ n \in Int
      BY <2>4
    <3>5. \A m, n \in PendingNotes : temp[m] = temp[n] => m = n
      BY <3>0, <3>3, <3>4
    <3>6. clock' \in Nat /\ clock <= clock' /\ \A n \in PendingNotes : temp[n] <= clock'
      BY <1>2, <3>0, <3>1, <3>2
    <3> QED
      BY <3>0, <3>1, <3>2, <3>5, <3>6
  <2>6. hub' = hub /\ rows' = rows
    BY DEF Select
  <2>7. \A n \in LocalIds : Carries(y, n)' => n \in PendingNotes /\ IdOf(y, n)' = temp[n]
    BY <2>2, <2>3 DEF Carries, IdOf
  <2>8. \A z \in Syncs \ {y}, n \in LocalIds : Carries(z, n)' =>
          /\ Carries(z, n) /\ IdOf(z, n)' = IdOf(z, n)
          /\ IdOf(z, n) <= clock /\ IdOf(z, n) \in Nat
    BY <2>1, CarriedId DEF Carries, IdOf, IdsAreNew, CarriedInv
  <2>9. ASSUME NEW z \in Syncs, NEW n \in LocalIds, Carries(z, n)'
        PROVE  CarriedInv(z, n)'
    <3>1. CASE z = y
      <4>1. n \in PendingNotes /\ IdOf(y, n)' = temp[n]
        BY <2>7, <2>9, <3>1
      <4>2. hub'[temp[n]] = NoNote
        <5>1. temp[n] \in Nat /\ ~(temp[n] <= clock)
          BY <2>5, <4>1
        <5> QED
          BY <2>5, <2>6, <4>1, <5>1 DEF IdsAreNew
      <4>3. \A x \in Syncs, m \in LocalIds :
              Carries(x, m)' /\ IdOf(x, m)' = temp[n] => x = y /\ m = n
        <5>1. ASSUME NEW x \in Syncs, NEW m \in LocalIds, Carries(x, m)', IdOf(x, m)' = temp[n]
              PROVE  x = y /\ m = n
          <6>1. CASE x = y
            BY <2>5, <2>7, <4>1, <5>1, <6>1
          <6>2. CASE x # y
            BY <2>5, <2>8, <4>1, <5>1, <6>2
          <6> QED
            BY <6>1, <6>2
        <5> QED
          BY <5>1
      <4>4. \A m \in LocalIds : ~(Stands(m)' /\ rows'[m].serverId = temp[n])
        <5>1. temp[n] # NoId /\ temp[n] \in Nat /\ ~(temp[n] <= clock)
          BY <2>5, <4>1
        <5>2. \A m \in LocalIds : Stands(m) /\ rows[m].serverId # NoId => rows[m].serverId <= clock
          BY DEF IdsAreNew
        <5> QED
          BY <2>6, <5>1, <5>2 DEF Stands
      <4> QED
        BY <2>2, <2>5, <3>1, <4>1, <4>2, <4>3, <4>4 DEF CarriedInv
    <3>2. CASE z # y
      <4>1. Carries(z, n) /\ IdOf(z, n)' = IdOf(z, n) /\ IdOf(z, n) <= clock /\ CarriedInv(z, n)
            /\ IdOf(z, n) \in Nat
        BY <2>8, <2>9, <3>2 DEF IdsAreNew
      <4>2. \A x \in Syncs, m \in LocalIds :
              Carries(x, m)' /\ IdOf(x, m)' = IdOf(z, n) => x = z /\ m = n
        <5>1. ASSUME NEW x \in Syncs, NEW m \in LocalIds, Carries(x, m)', IdOf(x, m)' = IdOf(z, n)
              PROVE  x = z /\ m = n
          <6>1. x # y
            BY <2>5, <2>7, <4>1, <5>1
          <6>2. Carries(x, m) /\ IdOf(x, m) = IdOf(z, n)
            BY <2>8, <5>1, <6>1
          <6> QED
            BY <4>1, <6>2 DEF CarriedInv
        <5> QED
          BY <5>1
      <4>3. IdOf(z, n) <= clock'
        BY <2>5, <4>1
      <4> QED
        BY <2>1, <2>6, <3>2, <4>1, <4>2, <4>3 DEF CarriedInv, At, Unanswered, Stands
    <3> QED
      BY <3>1, <3>2
  <2>10. \A i \in NoteIds : hub'[i] # NoNote => i <= clock'
    BY <2>5, <2>6 DEF IdsAreNew
  <2>11. \A n \in LocalIds : Stands(n)' /\ rows'[n].serverId # NoId => rows'[n].serverId <= clock'
    BY <2>5, <2>6 DEF IdsAreNew, Stands, TypeOK, Row
  <2>12. \A z \in Syncs : syncs'[z].pc \in {"post", "apply"} =>
           DOMAIN syncs'[z].results \subseteq DOMAIN syncs'[z].batch
    BY <2>1, <2>2 DEF IdsAreNew
  <2> QED
    BY <2>9, <2>10, <2>11, <2>12 DEF IdsAreNew
<1> QED
  BY <1>1, <1>2 DEF Select

\* Receiving the answers keeps ids new.
LEMMA ReceiveKeepsIds ==
  ASSUME TypeOK, IdsAreNew, NEW y \in Syncs, Receive(y)
  PROVE  IdsAreNew'
<1>1. /\ syncs'[y] = [pc |-> "apply", batch |-> syncs[y].batch, results |-> syncs[y].results]
      /\ \A z \in Syncs \ {y} : syncs'[z] = syncs[z]
      /\ rows' = rows /\ hub' = hub /\ clock' = clock /\ syncs[y].pc = "post"
  BY DEF Receive, Move, TypeOK, At
<1>2. \A z \in Syncs, n \in LocalIds :
        /\ Carries(z, n)' = Carries(z, n)
        /\ Carries(z, n) => IdOf(z, n)' = IdOf(z, n)
        /\ Unanswered(z)' = Unanswered(z) /\ syncs'[z].results = syncs[z].results
        /\ At(z, "post")' => At(z, "post")
  BY <1>1 DEF Carries, IdOf, Unanswered, At
<1>3. ASSUME NEW z \in Syncs, NEW n \in LocalIds, Carries(z, n)'
      PROVE  CarriedInv(z, n)'
  <2>1. Carries(z, n) /\ CarriedInv(z, n) /\ IdOf(z, n)' = IdOf(z, n)
    BY <1>2, <1>3 DEF IdsAreNew
  <2>2. \A x \in Syncs, m \in LocalIds :
          Carries(x, m)' /\ IdOf(x, m)' = IdOf(z, n) => x = z /\ m = n
    BY <1>2, <2>1 DEF CarriedInv
  <2> QED
    BY <1>1, <1>2, <2>1, <2>2 DEF CarriedInv, Stands
<1>4. \A z \in Syncs : syncs'[z].pc \in {"post", "apply"} =>
        DOMAIN syncs'[z].results \subseteq DOMAIN syncs'[z].batch
  BY <1>1 DEF IdsAreNew
<1>5. /\ \A i \in NoteIds : hub'[i] # NoNote => i <= clock'
      /\ \A n \in LocalIds : Stands(n)' /\ rows'[n].serverId # NoId => rows'[n].serverId <= clock'
  BY <1>1 DEF IdsAreNew, Stands
<1> QED
  BY <1>3, <1>4, <1>5 DEF IdsAreNew

\* A verdict gives a row the id its note was pushed under, or nothing.
LEMMA SettledRow ==
  ASSUME TypeOK, IdsAreNew, NEW y \in Syncs, NEW n \in LocalIds, At(y, "apply"),
         n \in DOMAIN syncs[y].results, Stands(n)
  PROVE  /\ Carries(y, n)
         /\ Settled(rows[n], syncs[y].results[n]).cipher = rows[n].cipher
         /\ Settled(rows[n], syncs[y].results[n]).serverId \in {rows[n].serverId, IdOf(y, n)}
         /\ Settled(rows[n], syncs[y].results[n]) \in Row
<1>1. Carries(y, n)
  BY DEF At, IdsAreNew, Carries
<1>2. \/ syncs[y].results[n] = Error
      \/ syncs[y].results[n].tag = "Success" /\ syncs[y].results[n].note.id = IdOf(y, n)
  BY <1>1 DEF IdsAreNew, CarriedInv
<1>3. rows[n] \in Row /\ syncs[y].results[n] \in SyncResult
  BY Flying DEF TypeOK, Stands, At
<1> QED
  BY <1>1, <1>2, <1>3, SettledType DEF Settled, Error

\* Applying a verdict gives one row the id it was pushed under, and no other text.
LEMMA ApplyStep ==
  ASSUME TypeOK, IdsAreNew, NEW y \in Syncs, Apply(y)
  PROVE  \E n \in LocalIds :
           /\ Carries(y, n)
           /\ \A m \in LocalIds \ {n} : rows'[m] = rows[m]
           /\ Stands(n)' <=> Stands(n)
           /\ Stands(n) => /\ rows'[n].cipher = rows[n].cipher
                           /\ rows'[n].serverId \in {rows[n].serverId, IdOf(y, n)}
           /\ \E sync \in InFlight :
                /\ Move(y, sync) /\ sync.pc = "apply" /\ sync.batch = syncs[y].batch
                /\ DOMAIN sync.results = DOMAIN syncs[y].results \ {n}
                /\ \A m \in DOMAIN syncs[y].results \ {n} : sync.results[m] = syncs[y].results[m]
<1>1. PICK n \in LocalIds :
        /\ At(y, "apply") /\ n \in DOMAIN syncs[y].results
        /\ rows' = IF Stands(n)
                   THEN [rows EXCEPT ![n] = Settled(rows[n], syncs[y].results[n])] ELSE rows
        /\ Move(y, [syncs[y] EXCEPT !.results = [m \in DOMAIN @ \ {n} |-> @[m]]])
  BY DEF Apply, IsFirst
<1>2. Carries(y, n)
  BY <1>1 DEF At, IdsAreNew, Carries
<1>3. \A m \in LocalIds \ {n} : rows'[m] = rows[m]
  BY <1>1 DEF TypeOK
<1>4. \E sync \in InFlight :
        /\ Move(y, sync) /\ sync.pc = "apply" /\ sync.batch = syncs[y].batch
        /\ DOMAIN sync.results = DOMAIN syncs[y].results \ {n}
        /\ \A m \in DOMAIN syncs[y].results \ {n} : sync.results[m] = syncs[y].results[m]
  BY <1>1, AppliedType
<1>5. Stands(n)' <=> Stands(n)
  <2>1. CASE Stands(n)
    <3>1. rows'[n] \in Row
      BY <1>1, <2>1, SettledRow DEF TypeOK
    <3> QED
      BY <2>1, <3>1 DEF Stands
  <2>2. CASE ~Stands(n)
    BY <1>1, <2>2 DEF Stands
  <2> QED
    BY <2>1, <2>2
<1>6. Stands(n) => /\ rows'[n].cipher = rows[n].cipher
                   /\ rows'[n].serverId \in {rows[n].serverId, IdOf(y, n)}
  BY <1>1, SettledRow DEF TypeOK
<1> QED
  BY <1>2, <1>3, <1>4, <1>5, <1>6

\* Applying a verdict keeps ids new.
LEMMA ApplyKeepsIds ==
  ASSUME TypeOK, IdsAreNew, NEW y \in Syncs, Apply(y)
  PROVE  IdsAreNew'
<1>1. PICK n \in LocalIds :
        /\ Carries(y, n)
        /\ \A m \in LocalIds \ {n} : rows'[m] = rows[m]
        /\ Stands(n)' <=> Stands(n)
        /\ Stands(n) => rows'[n].serverId \in {rows[n].serverId, IdOf(y, n)}
        /\ \E sync \in InFlight :
             /\ Move(y, sync) /\ sync.pc = "apply" /\ sync.batch = syncs[y].batch
             /\ DOMAIN sync.results = DOMAIN syncs[y].results \ {n}
             /\ \A m \in DOMAIN syncs[y].results \ {n} : sync.results[m] = syncs[y].results[m]
  BY ApplyStep
<1>2. /\ syncs'[y].pc = "apply" /\ syncs'[y].batch = syncs[y].batch
      /\ DOMAIN syncs'[y].results = DOMAIN syncs[y].results \ {n}
      /\ \A m \in DOMAIN syncs'[y].results : syncs'[y].results[m] = syncs[y].results[m]
      /\ \A z \in Syncs \ {y} : syncs'[z] = syncs[z]
  BY <1>1 DEF Move, TypeOK
<1>3. hub' = hub /\ clock' = clock /\ syncs[y].pc = "apply"
  BY DEF Apply, At
<1>4. \A z \in Syncs, m \in LocalIds :
        /\ Carries(z, m)' = Carries(z, m)
        /\ IdOf(z, m)' = IdOf(z, m)
        /\ At(z, "post")' => At(z, "post") /\ Unanswered(z)' = Unanswered(z)
  BY <1>2, <1>3 DEF Carries, IdOf, At, Unanswered
<1>5. Carries(y, n) /\ CarriedInv(y, n) /\ IdOf(y, n) <= clock /\ IdOf(y, n) \in NoteIds
  BY <1>1, CarriedId DEF IdsAreNew, CarriedInv
<1>6. \A m \in LocalIds : Stands(m)' => Stands(m)
  BY <1>1 DEF Stands
<1>7. ASSUME NEW z \in Syncs, NEW m \in LocalIds, Carries(z, m)'
      PROVE  CarriedInv(z, m)'
  <2>1. Carries(z, m) /\ CarriedInv(z, m) /\ IdOf(z, m)' = IdOf(z, m)
    BY <1>4, <1>7 DEF IdsAreNew
  <2>2. \A x \in Syncs, k \in LocalIds :
          Carries(x, k)' /\ IdOf(x, k)' = IdOf(z, m) => x = z /\ k = m
    BY <1>4, <2>1 DEF CarriedInv
  <2>3. m \in DOMAIN syncs'[z].results =>
          \/ syncs'[z].results[m] = Error
          \/ syncs'[z].results[m].tag = "Success" /\ syncs'[z].results[m].note.id = IdOf(z, m)
    BY <1>2, <2>1 DEF CarriedInv
  <2>4. ASSUME NEW k \in LocalIds, Stands(k)', rows'[k].serverId = IdOf(z, m)
        PROVE  k = m
    <3>1. CASE rows'[k].serverId = rows[k].serverId
      BY <1>6, <2>1, <2>4, <3>1 DEF CarriedInv
    <3>2. CASE rows'[k].serverId # rows[k].serverId
      <4>1. k = n /\ IdOf(z, m) = IdOf(y, n)
        BY <1>1, <1>6, <2>4, <3>2
      <4> QED
        BY <1>5, <2>1, <4>1 DEF CarriedInv
    <3> QED
      BY <3>1, <3>2
  <2> QED
    BY <1>3, <1>4, <2>1, <2>2, <2>3, <2>4 DEF CarriedInv
<1>8. ASSUME NEW k \in LocalIds, Stands(k)', rows'[k].serverId # NoId
      PROVE  rows'[k].serverId <= clock'
  <2>1. CASE rows'[k].serverId = rows[k].serverId
    BY <1>3, <1>6, <1>8, <2>1 DEF IdsAreNew
  <2>2. CASE rows'[k].serverId # rows[k].serverId
    BY <1>1, <1>3, <1>5, <1>6, <1>8, <2>2
  <2> QED
    BY <2>1, <2>2
<1>9. \A z \in Syncs : syncs'[z].pc \in {"post", "apply"} =>
        DOMAIN syncs'[z].results \subseteq DOMAIN syncs'[z].batch
  BY <1>2, <1>3 DEF IdsAreNew
<1> QED
  BY <1>3, <1>7, <1>8, <1>9 DEF IdsAreNew

\* What the hub answers to a note it does not know: an Error, or that it stores it.
LEMMA PushIsNew ==
  ASSUME TypeOK, IdsAreNew, NEW y \in Syncs, NEW n \in LocalIds, IsUpNext(y, n)
  PROVE  /\ Verdict(y, n) \in {Error, [tag |-> "Success", note |-> Pushed(y, n)]}
         /\ Pushed(y, n) \in Note /\ Pushed(y, n).id = IdOf(y, n)
<1>1. Carries(y, n) /\ hub[IdOf(y, n)] = NoNote
  BY DEF IsUpNext, IsFirst, At, Carries, Unanswered, IdsAreNew, CarriedInv
<1>2. Pushed(y, n) \in Note
  BY <1>1, Flying DEF Carries, Pushed
<1> QED
  BY <1>1, <1>2, ReconcileNew DEF Verdict, Pushed, IdOf

\* Pushing a note keeps ids new, whether it is stored or refused.
LEMMA PushKeepsIds ==
  ASSUME TypeOK, IdsAreNew, NEW y \in Syncs, Push(y) \/ Refuse(y)
  PROVE  IdsAreNew'
<1>1. PICK n \in LocalIds :
        /\ IsUpNext(y, n)
        /\ Answered(y, n, Error) \/ Answered(y, n, Verdict(y, n))
        /\ Stored(y, n) \/ hub' = hub
        /\ rows' = rows /\ clock' = clock
  BY DEF Push, Refuse
<1>2. /\ Verdict(y, n) \in {Error, [tag |-> "Success", note |-> Pushed(y, n)]}
      /\ Pushed(y, n) \in Note /\ Pushed(y, n).id = IdOf(y, n)
  BY <1>1, PushIsNew
<1>3. {Verdict(y, n), Error} \subseteq SyncResult
  BY <1>2 DEF SyncResult, Error
<1>4. hub' = hub \/ \E r \in Note : hub' = [hub EXCEPT ![IdOf(y, n)] = r]
  BY <1>1, <1>2 DEF Stored, Error
<1>5. CASE Answered(y, n, Error)
  BY <1>1, <1>3, <1>4, <1>5, AnsweredKeepsIds
<1>6. CASE Answered(y, n, Verdict(y, n))
  BY <1>1, <1>2, <1>3, <1>4, <1>6, AnsweredKeepsIds
<1> QED
  BY <1>1, <1>5, <1>6

\* A save's row has no id.
LEMMA SaveKeepsIds ==
  ASSUME TypeOK, IdsAreNew, NEW s \in Saves, Save(s)
  PROVE  IdsAreNew'
<1>1. hub' = hub /\ clock' = clock
  BY DEF Save, Insert, Replace, Saved
<1>2. \A y \in Syncs : syncs'[y] = syncs[y] \/ syncs'[y].pc \notin {"post", "apply"}
  <2>1. StartSync
    BY DEF Save, Insert, Replace, Saved
  <2> QED
    BY <2>1 DEF StartSync, Chosen, TypeOK
<1>3. rows' = rows \/ \E n \in LocalIds : \E c, v : rows' = [rows EXCEPT ![n] = Fresh(c, v)]
  <2>1. CASE Insert(s)
    BY <2>1 DEF Insert
  <2>2. CASE Replace(s)
    <3>1. saves[s].note \in LocalIds
      BY <2>2 DEF Replace, TypeOK, Jobs, NoSave
    <3> QED
      BY <2>2, <3>1 DEF Replace
  <2> QED
    BY <2>1, <2>2 DEF Save
<1>4. \A n \in LocalIds : Stands(n)' /\ rows'[n].serverId # NoId =>
        Stands(n) /\ rows'[n].serverId = rows[n].serverId
  <2>1. \A n \in LocalIds : rows'[n] = rows[n] \/ rows'[n].serverId = NoId
    BY <1>3 DEF Fresh, TypeOK
  <2> QED
    BY <2>1 DEF Stands
<1> QED
  BY <1>1, <1>2, <1>4, SameFlights

\* Every step keeps ids new while the clock ticks.
LEMMA IdsStep ==
  ASSUME ClockTicks, TypeOK, PendingIsAnonymous, IdsAreNew, [Next]_vars
  PROVE  IdsAreNew'
<1>1. ASSUME hub' = hub, clock' = clock, rows' = rows,
             \A y \in Syncs : syncs'[y] = syncs[y] \/ syncs'[y].pc \notin {"post", "apply"}
      PROVE  IdsAreNew'
  BY <1>1, SameFlights DEF Stands
<1>2. ASSUME NEW y \in Syncs, Lose(y) \/ Finish(y)
      PROVE  IdsAreNew'
  <2>1. syncs' = [syncs EXCEPT ![y] = NoSync] /\ rows' = rows /\ hub' = hub /\ clock' = clock
    BY <1>2 DEF Lose, Finish, Move
  <2>2. \A z \in Syncs : syncs'[z] = syncs[z] \/ syncs'[z].pc \notin {"post", "apply"}
    BY <2>1 DEF TypeOK, NoSync
  <2> QED
    BY <1>1, <2>1, <2>2
<1>3. ASSUME NEW n \in LocalIds, Delete(n)
      PROVE  IdsAreNew'
  <2>1. \A m \in LocalIds : Stands(m)' => Stands(m) /\ rows'[m] = rows[m]
    BY <1>3 DEF Delete, Stands, TypeOK
  <2> QED
    BY <1>3, <2>1, SameFlights DEF Delete
<1>4. CASE Crash
  <2>1. \A y \in Syncs : syncs'[y].pc = "idle"
    BY <1>4 DEF Crash, NoSync
  <2> QED
    BY <1>1, <1>4, <2>1 DEF Crash
<1>5. CASE UNCHANGED <<rows, syncs, hub, clock>>
  BY <1>1, <1>5
<1>6. ASSUME NEW s \in Saves, (\E c \in Ciphers : BeginAdd(s, c))
                              \/ (\E c \in Ciphers, n \in LocalIds : BeginEdit(s, n, c))
      PROVE  IdsAreNew'
  BY <1>5, <1>6 DEF BeginAdd, BeginEdit, Begin
<1>7. CASE Load \/ Show
  BY <1>5, <1>7 DEF Load, Show
<1>8. ASSUME NEW y \in Syncs, Sync(y) \/ Refuse(y)
      PROVE  IdsAreNew'
  BY <1>2, <1>8, SelectKeepsIds, PushKeepsIds, ReceiveKeepsIds, ApplyKeepsIds DEF Sync
<1>9. CASE AddVaultEntry
  <2>1. \A y \in Syncs : syncs'[y] = syncs[y] \/ syncs'[y].pc \notin {"post", "apply"}
    BY <1>9 DEF AddVaultEntry, StartSync, Chosen, TypeOK
  <2> QED
    BY <1>1, <1>9, <2>1 DEF AddVaultEntry
<1> QED
  BY <1>2, <1>3, <1>4, <1>5, <1>6, <1>7, <1>8, <1>9, SaveKeepsIds DEF Next, vars

\* Ids are new initially.
LEMMA IdsInit == Init => IdsAreNew
BY DEF Init, IdsAreNew, Stands, Carries, NoSync

\* The text of a row that stays is changed by an edit of its note only.
LEMMA TextStep ==
  ASSUME TypeOK, IdsAreNew, [Next]_vars, NEW n \in LocalIds,
         Stands(n), Stands(n)', rows'[n].cipher # rows[n].cipher
  PROVE  \E s \in Saves : /\ saves[s].op = "edit" /\ saves[s].note = n
                          /\ saves[s].cipher = rows'[n].cipher
<1>1. ASSUME NEW y \in Syncs, Apply(y)
      PROVE  FALSE
  BY <1>1, ApplyStep
<1>2. ASSUME NEW s \in Saves, Insert(s)
      PROVE  FALSE
  BY <1>2 DEF Insert, Stands, TypeOK
<1>3. ASSUME NEW s \in Saves, Replace(s)
      PROVE  saves[s].op = "edit" /\ saves[s].note = n /\ saves[s].cipher = rows'[n].cipher
  <2>1. rows' = [rows EXCEPT ![saves[s].note] = Fresh(saves[s].cipher, saves[s].version + 1)]
    BY <1>3 DEF Replace
  <2> QED
    BY <1>3, <2>1 DEF Replace, Fresh, TypeOK
<1>4. ASSUME NEW m \in LocalIds, Delete(m)
      PROVE  FALSE
  BY <1>4 DEF Delete, Stands, TypeOK
<1>5. rows' # rows
  OBVIOUS
<1> QED
  BY <1>1, <1>2, <1>3, <1>4, <1>5
     DEF Next, vars, BeginAdd, BeginEdit, Begin, Save, Load, Show, Crash, Sync, Select, Push,
         Receive, Finish, Refuse, Lose, AddVaultEntry

(***************************************************************************)
(* While no two ids are generated within a millisecond, no sync changes    *)
(* the text of a note on the device that wrote it.                         *)
(***************************************************************************)
THEOREM DeviceIsSourceOfTruth == ASSUME ClockTicks PROVE Spec => SourceOfTruth
<1>1. Init => TypeOK /\ PendingIsAnonymous /\ IdsAreNew
  BY TypeInit, AnonymousInit, IdsInit
<1>2. TypeOK /\ PendingIsAnonymous /\ IdsAreNew /\ [Next]_vars
        => (TypeOK /\ PendingIsAnonymous /\ IdsAreNew)'
  BY TypeStep, AnonymousStep, IdsStep
<1>3. TypeOK /\ IdsAreNew /\ [Next]_vars =>
        [\A n \in LocalIds :
           Stands(n) /\ Stands(n)' /\ rows'[n].cipher # rows[n].cipher =>
             \E s \in Saves : /\ saves[s].op = "edit" /\ saves[s].note = n
                              /\ saves[s].cipher = rows'[n].cipher]_vars
  BY TextStep
<1> QED
  BY <1>1, <1>2, <1>3, PTL DEF Spec, SourceOfTruth

-----------------------------------------------------------------------------
(***************************************************************************)
(* What an answer stands for: a verdict that is not an Error says that the *)
(* hub holds the note as it was pushed.  No other push gets to that id.    *)
(***************************************************************************)
TrueVerdict(y, n) ==
  /\ syncs[y].results[n] = [tag |-> "Success", note |-> syncs[y].batch[n]]
  /\ hub[IdOf(y, n)] = syncs[y].batch[n]

VerdictsAreTrue ==
  \A y \in Syncs, n \in LocalIds :
    Carries(y, n) /\ n \in DOMAIN syncs[y].results /\ syncs[y].results[n] # Error => TrueVerdict(y, n)

\* A sync that goes on with what it had leaves its verdicts true.
LEMMA KeptVerdicts ==
  ASSUME VerdictsAreTrue, NEW z \in Syncs, NEW m \in LocalIds,
         Carries(z, m)', m \in DOMAIN syncs'[z].results, syncs'[z].results[m] # Error,
         syncs[z].pc \in {"post", "apply"}, syncs'[z].batch = syncs[z].batch,
         m \in DOMAIN syncs[z].results, syncs'[z].results[m] = syncs[z].results[m],
         hub'[IdOf(z, m)] = hub[IdOf(z, m)]
  PROVE  TrueVerdict(z, m)'
BY DEF VerdictsAreTrue, TrueVerdict, Carries, IdOf

\* Steps that bring no verdict.
LEMMA QuietVerdicts ==
  ASSUME VerdictsAreTrue, hub' = hub,
         \A z \in Syncs : \/ syncs'[z] = syncs[z]
                          \/ syncs'[z].pc \notin {"post", "apply"}
                          \/ DOMAIN syncs'[z].results = {}
  PROVE  VerdictsAreTrue'
BY KeptVerdicts DEF VerdictsAreTrue, Carries

\* A verdict is true when it comes.
LEMMA PushIsTrue ==
  ASSUME TypeOK, IdsAreNew, VerdictsAreTrue, NEW y \in Syncs, Push(y) \/ Refuse(y)
  PROVE  VerdictsAreTrue'
<1>1. PICK n \in LocalIds :
        /\ IsUpNext(y, n)
        /\ \/ Answered(y, n, Error) /\ (Stored(y, n) \/ hub' = hub)
           \/ /\ Answered(y, n, Verdict(y, n))
              /\ Stored(y, n) \/ (Verdict(y, n).tag \in {"Conflict", "Error"} /\ hub' = hub)
  BY DEF Push, Refuse
<1>2. /\ Verdict(y, n) \in {Error, [tag |-> "Success", note |-> Pushed(y, n)]}
      /\ Pushed(y, n) \in Note /\ Pushed(y, n).id = IdOf(y, n)
  BY <1>1, PushIsNew
<1>3. /\ hub' = hub \/ hub' = [hub EXCEPT ![IdOf(y, n)] = Pushed(y, n)]
      /\ \/ Answered(y, n, Error)
         \/ /\ Answered(y, n, Verdict(y, n))
            /\ hub' = [hub EXCEPT ![IdOf(y, n)] = Pushed(y, n)]
  BY <1>1, <1>2 DEF Stored, Error
<1>4. {Verdict(y, n), Error} \subseteq SyncResult
  BY <1>2 DEF SyncResult, Error
<1>5. PICK verdict \in {Verdict(y, n), Error} : Answered(y, n, verdict)
  BY <1>3
<1>6. syncs[y].pc = "post" /\ Carries(y, n) /\ IdOf(y, n) \in NoteIds
  BY <1>1, CarriedId DEF IsUpNext, IsFirst, At, Carries, Unanswered
<1>7. PICK sync \in InFlight :
        /\ Move(y, sync) /\ sync.pc = "post" /\ sync.batch = syncs[y].batch
        /\ DOMAIN sync.results = DOMAIN syncs[y].results \cup {n}
        /\ sync.results[n] = verdict
        /\ \A m \in DOMAIN syncs[y].results \ {n} : sync.results[m] = syncs[y].results[m]
  BY <1>4, <1>5, <1>6, AnsweredType
<1>8. syncs'[y] = sync /\ \A z \in Syncs \ {y} : syncs'[z] = syncs[z]
  BY <1>7 DEF Move, TypeOK
<1>9. ASSUME NEW z \in Syncs, NEW m \in LocalIds, Carries(z, m)',
             m \in DOMAIN syncs'[z].results, syncs'[z].results[m] # Error
      PROVE  TrueVerdict(z, m)'
  <2>1. Carries(z, m)
    BY <1>7, <1>8, <1>9, <1>6 DEF Carries
  <2>2. IdOf(z, m)' = IdOf(z, m)
    BY <1>7, <1>8 DEF IdOf
  <2>3. CASE z = y /\ m = n
    <3>1. verdict = Verdict(y, n) /\ verdict # Error
      BY <1>5, <1>7, <1>8, <1>9, <2>3
    <3>2. hub' = [hub EXCEPT ![IdOf(y, n)] = Pushed(y, n)]
      <4>1. ~Answered(y, n, Error)
        <5>1. SUFFICES ASSUME Answered(y, n, Error) PROVE FALSE
          OBVIOUS
        <5>2. \E other \in InFlight : Move(y, other) /\ other.results[n] = Error
          BY <1>4, <1>6, <5>1, AnsweredType
        <5>3. syncs'[y].results[n] = Error
          BY <5>2 DEF Move, TypeOK
        <5> QED
          BY <1>9, <2>3, <5>3
      <4> QED
        BY <1>3, <4>1
    <3>3. hub'[IdOf(y, n)] = Pushed(y, n)
      BY <1>6, <3>2 DEF TypeOK
    <3> QED
      BY <1>2, <1>7, <1>8, <2>2, <2>3, <3>1, <3>3 DEF TrueVerdict, Pushed
  <2>4. CASE ~(z = y /\ m = n)
    <3>1. IdOf(z, m) # IdOf(y, n)
      BY <1>6, <2>1, <2>4 DEF IdsAreNew, CarriedInv
    <3>2. hub'[IdOf(z, m)] = hub[IdOf(z, m)]
      BY <1>3, <3>1, <2>1, CarriedId DEF TypeOK
    <3>3. m \in DOMAIN syncs[z].results /\ syncs'[z].results[m] = syncs[z].results[m]
      BY <1>7, <1>8, <1>9, <2>4
    <3> QED
      BY <1>7, <1>8, <1>9, <2>1, <3>2, <3>3, KeptVerdicts DEF Carries
  <2> QED
    BY <2>3, <2>4
<1> QED
  BY <1>9 DEF VerdictsAreTrue

\* Every step keeps the verdicts true while the clock ticks.
LEMMA VerdictStep ==
  ASSUME TypeOK, IdsAreNew, VerdictsAreTrue, [Next]_vars
  PROVE  VerdictsAreTrue'
<1>1. ASSUME hub' = hub, syncs' = syncs
      PROVE  VerdictsAreTrue'
  BY <1>1, QuietVerdicts
<1>2. ASSUME hub' = hub, NEW y \in Syncs, NEW sync, syncs' = [syncs EXCEPT ![y] = sync],
             sync.pc \notin {"post", "apply"} \/ DOMAIN sync.results = {}
      PROVE  VerdictsAreTrue'
  <2>1. \A z \in Syncs : \/ syncs'[z] = syncs[z]
                         \/ syncs'[z].pc \notin {"post", "apply"}
                         \/ DOMAIN syncs'[z].results = {}
    BY <1>2 DEF TypeOK
  <2> QED
    BY <1>2, <2>1, QuietVerdicts
<1>3. ASSUME StartSync, hub' = hub
      PROVE  VerdictsAreTrue'
  BY <1>2, <1>3 DEF StartSync, Chosen
<1>4. ASSUME NEW y \in Syncs, Select(y)
      PROVE  VerdictsAreTrue'
  BY <1>2, <1>4 DEF Select, Move, NoSync, NoReplies
<1>5. ASSUME NEW y \in Syncs, Finish(y) \/ Lose(y)
      PROVE  VerdictsAreTrue'
  BY <1>2, <1>5 DEF Finish, Lose, Move, NoSync
<1>6. ASSUME NEW y \in Syncs, Receive(y)
      PROVE  VerdictsAreTrue'
  <2>1. /\ syncs[y].pc = "post" /\ hub' = hub
        /\ syncs'[y].batch = syncs[y].batch /\ syncs'[y].results = syncs[y].results
        /\ \A z \in Syncs \ {y} : syncs'[z] = syncs[z]
    BY <1>6 DEF Receive, At, Move, TypeOK
  <2> QED
    BY <2>1, KeptVerdicts DEF VerdictsAreTrue, Carries
<1>7. ASSUME NEW y \in Syncs, Apply(y)
      PROVE  VerdictsAreTrue'
  <2>1. PICK n \in LocalIds :
          \E sync \in InFlight :
            /\ Move(y, sync) /\ sync.pc = "apply" /\ sync.batch = syncs[y].batch
            /\ DOMAIN sync.results = DOMAIN syncs[y].results \ {n}
            /\ \A m \in DOMAIN syncs[y].results \ {n} : sync.results[m] = syncs[y].results[m]
    BY <1>7, ApplyStep
  <2>2. /\ syncs'[y].batch = syncs[y].batch
        /\ DOMAIN syncs'[y].results = DOMAIN syncs[y].results \ {n}
        /\ \A m \in DOMAIN syncs'[y].results : syncs'[y].results[m] = syncs[y].results[m]
        /\ \A z \in Syncs \ {y} : syncs'[z] = syncs[z]
    BY <2>1 DEF Move, TypeOK
  <2>3. syncs[y].pc = "apply" /\ hub' = hub
    BY <1>7 DEF Apply, At
  <2> QED
    BY <2>2, <2>3, KeptVerdicts DEF VerdictsAreTrue, Carries
<1>8. CASE Crash
  <2>1. hub' = hub /\ \A z \in Syncs : syncs'[z].pc = "idle"
    BY <1>8 DEF Crash, NoSync
  <2> QED
    BY <2>1, QuietVerdicts
<1>9. ASSUME NEW s \in Saves, Save(s)
      PROVE  VerdictsAreTrue'
  BY <1>3, <1>9 DEF Save, Insert, Replace, Saved
<1>a. CASE AddVaultEntry
  BY <1>3, <1>a DEF AddVaultEntry
<1> QED
  BY <1>1, <1>4, <1>5, <1>6, <1>7, <1>8, <1>9, <1>a, PushIsTrue
     DEF Next, vars, Sync, BeginAdd, BeginEdit, Begin, Delete, Load, Show

\* There is no verdict initially.
LEMMA VerdictInit == Init => VerdictsAreTrue
BY DEF Init, VerdictsAreTrue, Carries, NoSync

\* A step that marks a row as synced applies a verdict that is true.
LEMMA StoredStep ==
  ASSUME TypeOK, IdsAreNew, VerdictsAreTrue, [Next]_vars, NEW n \in LocalIds,
         IsPending(n), Stands(n)', rows'[n].isSynced
  PROVE  /\ rows'[n].serverId # NoId /\ hub[rows'[n].serverId] # NoNote
         /\ hub[rows'[n].serverId].version = rows'[n].version
         /\ \E y \in Syncs :
              /\ At(y, "apply") /\ n \in DOMAIN syncs[y].results
              /\ hub[rows'[n].serverId].cipher = Pushed(y, n).cipher
<1>1. rows'[n] # rows[n] /\ rows[n] \in Row
  BY DEF IsPending, Stands, TypeOK
<1>2. ASSUME NEW s \in Saves, Insert(s)
      PROVE  FALSE
  <2>1. PICK m \in LocalIds : rows' = [rows EXCEPT ![m] = Fresh(saves[s].cipher, 1)]
    BY <1>2 DEF Insert
  <2> QED
    BY <1>1, <2>1 DEF Fresh, TypeOK
<1>3. ASSUME NEW s \in Saves, Replace(s)
      PROVE  FALSE
  <2>1. rows' = [rows EXCEPT ![saves[s].note] = Fresh(saves[s].cipher, saves[s].version + 1)]
    BY <1>1, <1>3 DEF Replace
  <2> QED
    BY <1>1, <2>1 DEF Fresh, TypeOK
<1>4. ASSUME NEW m \in LocalIds, Delete(m)
      PROVE  FALSE
  BY <1>1, <1>4 DEF Delete, Stands, TypeOK
<1>5. PICK y \in Syncs : Apply(y)
  BY <1>1, <1>2, <1>3, <1>4
     DEF Next, vars, BeginAdd, BeginEdit, Begin, Save, Load, Show, Crash, Sync, Select, Push,
         Receive, Finish, Refuse, Lose, AddVaultEntry
<1>6. PICK m \in LocalIds :
        /\ At(y, "apply") /\ m \in DOMAIN syncs[y].results
        /\ rows' = IF Stands(m)
                   THEN [rows EXCEPT ![m] = Settled(rows[m], syncs[y].results[m])] ELSE rows
  BY <1>5 DEF Apply, IsFirst
<1>7. m = n /\ rows'[n] = Settled(rows[n], syncs[y].results[n])
  BY <1>1, <1>6 DEF TypeOK
<1>8. syncs[y].results[n].tag # "Error"
  BY <1>1, <1>7 DEF Settled
<1>9. Carries(y, n)
  BY <1>6, <1>7 DEF At, IdsAreNew, Carries
<1>10. TrueVerdict(y, n)
  BY <1>6, <1>7, <1>8, <1>9 DEF VerdictsAreTrue, Error
<1>11. syncs[y].batch[n] \in Note /\ IdOf(y, n) = syncs[y].batch[n].id /\ IdOf(y, n) # NoId
  BY <1>9, CarriedId DEF IdOf
<1>12. rows'[n].serverId = IdOf(y, n) /\ rows'[n].version = syncs[y].batch[n].version
  BY <1>7, <1>10, <1>11 DEF Settled, TrueVerdict
<1>13. hub[IdOf(y, n)] = syncs[y].batch[n] /\ syncs[y].batch[n] # NoNote
  BY <1>10, <1>11 DEF TrueVerdict
<1> QED
  BY <1>6, <1>7, <1>11, <1>12, <1>13 DEF Pushed

\* What holds throughout while the clock ticks.
ClientInv == TypeOK /\ PendingIsAnonymous /\ IdsAreNew /\ VerdictsAreTrue

LEMMA ClientInvariance == ASSUME ClockTicks PROVE Spec => []ClientInv
<1>1. Init => ClientInv
  BY TypeInit, AnonymousInit, IdsInit, VerdictInit DEF ClientInv
<1>2. ClientInv /\ [Next]_vars => ClientInv'
  BY TypeStep, AnonymousStep, IdsStep, VerdictStep DEF ClientInv
<1> QED
  BY <1>1, <1>2, PTL DEF Spec

(***************************************************************************)
(* While no two ids are generated within a millisecond, a row is marked as *)
(* synced only when the hub has the note as it was pushed.                 *)
(***************************************************************************)
THEOREM SyncedRowsAreStored == ASSUME ClockTicks PROVE Spec => SyncedIsStored
<1>1. ClientInv /\ [Next]_vars =>
        [\A n \in LocalIds :
           IsPending(n) /\ Stands(n)' /\ rows'[n].isSynced =>
             /\ rows'[n].serverId # NoId /\ hub[rows'[n].serverId] # NoNote
             /\ hub[rows'[n].serverId].version = rows'[n].version
             /\ \E y \in Syncs :
                  /\ At(y, "apply") /\ n \in DOMAIN syncs[y].results
                  /\ hub[rows'[n].serverId].cipher = Pushed(y, n).cipher]_vars
  BY StoredStep DEF ClientInv
<1> QED
  BY <1>1, ClientInvariance, PTL DEF Spec, SyncedIsStored

(***************************************************************************)
(* While no two ids are generated within a millisecond, the hub never      *)
(* compares a version nor counts one up for this device.                   *)
(***************************************************************************)
THEOREM VersionsAreNeverCompared == ASSUME ClockTicks PROVE Spec => []SentAsIs
<1>1. ClientInv => SentAsIs
  BY DEF ClientInv, VerdictsAreTrue, TrueVerdict, SentAsIs, Success
<1> QED
  BY <1>1, ClientInvariance, PTL

-----------------------------------------------------------------------------
(***************************************************************************)
(* Synced rows and the hub.  What the hub has under an id stays: every     *)
(* push is a creation.                                                     *)
(***************************************************************************)
LEMMA HubOnlyGrows ==
  ASSUME ClientInv, [Next]_vars, NEW i \in NoteIds, hub[i] # NoNote
  PROVE  hub'[i] = hub[i]
<1>0. TypeOK /\ IdsAreNew
  BY DEF ClientInv
<1>1. CASE hub' = hub
  BY <1>1
<1>2. ASSUME NEW y \in Syncs, Push(y) \/ Refuse(y), hub' # hub
      PROVE  hub'[i] = hub[i]
  <2>1. PICK n \in LocalIds : IsUpNext(y, n) /\ Stored(y, n)
    BY <1>2 DEF Push, Refuse
  <2>2. Carries(y, n) /\ hub[IdOf(y, n)] = NoNote
    BY <1>0, <2>1 DEF IsUpNext, IsFirst, At, Carries, Unanswered, IdsAreNew, CarriedInv
  <2>3. hub' = [hub EXCEPT ![IdOf(y, n)] = Verdict(y, n).note]
    BY <2>1 DEF Stored, Pushed, IdOf
  <2> QED
    BY <1>0, <2>2, <2>3 DEF TypeOK
<1> QED
  BY <1>1, <1>2
     DEF Next, vars, BeginAdd, BeginEdit, Begin, Save, Insert, Replace, Saved, Delete, Load, Show,
         Crash, Sync, Select, Receive, Apply, Finish, Lose, AddVaultEntry

\* How a row comes to be synced, or stays so.
LEMMA SyncedStep ==
  ASSUME ClientInv, [Next]_vars, NEW n \in LocalIds, Stands(n)', rows'[n].isSynced
  PROVE  \/ Stands(n) /\ rows'[n] = rows[n]
         \/ /\ Stands(n) /\ rows'[n].cipher = rows[n].cipher /\ hub' = hub
            /\ \E y \in Syncs :
                 /\ IsUnsettled(y, n)
                 /\ TrueVerdict(y, n)
                 /\ rows'[n].serverId = IdOf(y, n) /\ IdOf(y, n) # NoId
                 /\ rows'[n].version = syncs[y].batch[n].version
                 /\ syncs[y].batch[n] # NoNote
<1>0. TypeOK /\ IdsAreNew /\ VerdictsAreTrue
  BY DEF ClientInv
<1>1. CASE rows'[n] = rows[n]
  BY <1>1 DEF Stands
<1>2. CASE rows'[n] # rows[n]
  <2>1. ASSUME NEW s \in Saves, Insert(s)
        PROVE  FALSE
    <3>1. PICK m \in LocalIds : rows' = [rows EXCEPT ![m] = Fresh(saves[s].cipher, 1)]
      BY <2>1 DEF Insert
    <3> QED
      BY <1>0, <1>2, <3>1 DEF Fresh, TypeOK
  <2>2. ASSUME NEW s \in Saves, Replace(s)
        PROVE  FALSE
    <3>1. rows' = [rows EXCEPT ![saves[s].note] = Fresh(saves[s].cipher, saves[s].version + 1)]
      BY <1>2, <2>2 DEF Replace
    <3> QED
      BY <1>0, <1>2, <3>1 DEF Fresh, TypeOK
  <2>3. ASSUME NEW m \in LocalIds, Delete(m)
        PROVE  FALSE
    BY <1>0, <1>2, <2>3 DEF Delete, Stands, TypeOK
  <2>4. PICK y \in Syncs : Apply(y)
    BY <1>2, <2>1, <2>2, <2>3
       DEF Next, vars, BeginAdd, BeginEdit, Begin, Save, Load, Show, Crash, Sync, Select, Push,
           Receive, Finish, Refuse, Lose, AddVaultEntry
  <2>5. PICK m \in LocalIds :
          /\ At(y, "apply") /\ m \in DOMAIN syncs[y].results
          /\ rows' = IF Stands(m)
                     THEN [rows EXCEPT ![m] = Settled(rows[m], syncs[y].results[m])] ELSE rows
          /\ hub' = hub
    BY <2>4 DEF Apply, IsFirst
  <2>6. m = n /\ Stands(n) /\ rows'[n] = Settled(rows[n], syncs[y].results[n])
    BY <1>0, <1>2, <2>5 DEF TypeOK
  <2>7. syncs[y].results[n].tag # "Error"
    BY <1>2, <2>6 DEF Settled
  <2>8. Carries(y, n) /\ IsUnsettled(y, n)
    BY <1>0, <2>5, <2>6 DEF At, IdsAreNew, Carries, IsUnsettled
  <2>9. TrueVerdict(y, n)
    BY <1>0, <2>5, <2>6, <2>7, <2>8 DEF VerdictsAreTrue, Error
  <2>10. /\ syncs[y].batch[n] \in Note /\ IdOf(y, n) = syncs[y].batch[n].id
         /\ IdOf(y, n) # NoId /\ syncs[y].batch[n] # NoNote
    BY <1>0, <2>8, CarriedId DEF IdOf
  <2>11. /\ rows'[n].serverId = IdOf(y, n) /\ rows'[n].version = syncs[y].batch[n].version
         /\ rows'[n].cipher = rows[n].cipher
    BY <2>6, <2>9, <2>10 DEF Settled, TrueVerdict
  <2> QED
    BY <2>5, <2>6, <2>8, <2>9, <2>10, <2>11
<1> QED
  BY <1>1, <1>2

\* A synced row stays known to the hub.
LEMMA KnownStep ==
  ASSUME ClientInv, SyncedRowsAreKnown, [Next]_vars
  PROVE  SyncedRowsAreKnown'
<1> SUFFICES ASSUME NEW n \in LocalIds, Stands(n)', rows'[n].isSynced
             PROVE  /\ rows'[n].serverId # NoId /\ hub'[rows'[n].serverId] # NoNote
                    /\ hub'[rows'[n].serverId].version = rows'[n].version
  BY DEF SyncedRowsAreKnown
<1>0. TypeOK
  BY DEF ClientInv
<1>1. CASE Stands(n) /\ rows'[n] = rows[n]
  <2>1. /\ rows[n].serverId # NoId /\ hub[rows[n].serverId] # NoNote
        /\ hub[rows[n].serverId].version = rows[n].version
    BY <1>1 DEF SyncedRowsAreKnown
  <2>2. rows[n].serverId \in NoteIds
    BY <1>0, <1>1, <2>1 DEF TypeOK, Stands, Row
  <2>3. hub'[rows[n].serverId] = hub[rows[n].serverId]
    BY <2>1, <2>2, HubOnlyGrows
  <2> QED
    BY <1>1, <2>1, <2>3
<1>2. CASE ~(Stands(n) /\ rows'[n] = rows[n])
  <2>1. PICK y \in Syncs :
          /\ IsUnsettled(y, n) /\ TrueVerdict(y, n)
          /\ rows'[n].serverId = IdOf(y, n) /\ IdOf(y, n) # NoId
          /\ rows'[n].version = syncs[y].batch[n].version
          /\ syncs[y].batch[n] # NoNote
    BY <1>2, SyncedStep
  <2>2. Stands(n) /\ hub' = hub /\ rows'[n].cipher = rows[n].cipher
    BY <1>2, SyncedStep
  <2>3. hub'[rows'[n].serverId] = syncs[y].batch[n]
    BY <2>1, <2>2 DEF TrueVerdict
  <2> QED
    BY <2>1, <2>3
<1> QED
  BY <1>1, <1>2

(***************************************************************************)
(* While no two ids are generated within a millisecond, the hub has the    *)
(* id and the version of every synced row: for good, and whatever overlaps.*)
(***************************************************************************)
THEOREM SyncedRowsStayKnown == ASSUME ClockTicks PROVE Spec => []SyncedRowsAreKnown
<1>1. Init => SyncedRowsAreKnown
  BY DEF Init, SyncedRowsAreKnown, Stands
<1>2. ClientInv /\ SyncedRowsAreKnown /\ [Next]_vars => SyncedRowsAreKnown'
  BY KnownStep
<1> QED
  BY <1>1, <1>2, ClientInvariance, PTL DEF Spec

-----------------------------------------------------------------------------
(***************************************************************************)
(* And the text?  A sync carries the text of the row, as long as nobody    *)
(* edits the note meanwhile; and a note that is carried has been inserted. *)
(***************************************************************************)
CarriedTexts ==
  \A y \in Syncs, n \in LocalIds : IsUnsettled(y, n) =>
    /\ rows[n] # NoNote
    /\ Stands(n) => rows[n].cipher = syncs[y].batch[n].cipher

SyncedTexts ==
  \A n \in LocalIds : Stands(n) /\ rows[n].isSynced =>
    hub[rows[n].serverId].cipher = rows[n].cipher

\* An action of EditsWaitForSyncs.
EditsWait == \A s \in Saves, y \in Syncs : Replace(s) => ~IsUnsettled(y, saves[s].note)

\* A note that a sync goes on carrying was carried with the same text.
LEMMA StillUnsettled ==
  ASSUME TypeOK, IdsAreNew, [Next]_vars, NEW y \in Syncs, NEW n \in LocalIds, IsUnsettled(y, n)'
  PROVE  \/ IsUnsettled(y, n) /\ syncs'[y].batch[n] = syncs[y].batch[n]
         \/ /\ Select(y) /\ n \in PendingNotes
            /\ syncs'[y].batch[n].cipher = rows[n].cipher
<1> DEFINE Kept == IsUnsettled(y, n) /\ syncs'[y].batch[n] = syncs[y].batch[n]
<1>1. ASSUME syncs'[y] = syncs[y] PROVE Kept
  BY <1>1 DEF IsUnsettled, Carries, At
<1>2. ASSUME NEW z \in Syncs, Select(z), syncs'[y] # syncs[y]
      PROVE  y = z /\ n \in PendingNotes /\ syncs'[y].batch[n].cipher = rows[n].cipher
  <2>1. PICK sync :
          /\ Move(z, sync)
          /\ \/ sync = NoSync
             \/ \E temp \in TempIds(PendingNotes) :
                  sync = [pc |-> "post", batch |-> [m \in PendingNotes |-> Payload(m, temp)],
                          results |-> NoReplies]
    BY <1>2 DEF Select
  <2>2. y = z /\ syncs'[y] = sync
    BY <1>2, <2>1 DEF Move, TypeOK
  <2>3. sync.pc \in {"post", "apply"} /\ n \in DOMAIN sync.batch
    BY <2>2 DEF IsUnsettled, Carries
  <2>4. PICK temp \in TempIds(PendingNotes) :
          sync = [pc |-> "post", batch |-> [m \in PendingNotes |-> Payload(m, temp)],
                  results |-> NoReplies]
    BY <2>1, <2>3 DEF NoSync
  <2>5. n \in PendingNotes /\ sync.batch[n] = Payload(n, temp)
    BY <2>3, <2>4
  <2> QED
    BY <2>2, <2>5 DEF Payload
<1>3. ASSUME NEW z \in Syncs, Push(z) \/ Refuse(z), syncs'[y] # syncs[y]
      PROVE  Kept
  <2>1. PICK m, verdict : m \in LocalIds /\ IsUpNext(z, m) /\ Answered(z, m, verdict)
    BY <1>3 DEF Push, Refuse
  <2>2. y = z /\ syncs[y].pc = "post" /\ syncs[y] \in InFlight
    BY <1>3, <2>1, Flying DEF Answered, Move, IsUpNext, At, TypeOK
  <2>3. syncs'[y].batch = syncs[y].batch
    BY <2>1, <2>2 DEF Answered, Move, TypeOK, InFlight
  <2> QED
    BY <2>2, <2>3 DEF IsUnsettled, Carries, At
<1>4. ASSUME NEW z \in Syncs, Receive(z), syncs'[y] # syncs[y]
      PROVE  Kept
  <2>1. y = z /\ syncs[y].pc = "post" /\ syncs'[y].batch = syncs[y].batch
    BY <1>4 DEF Receive, Move, At, TypeOK
  <2> QED
    BY <2>1 DEF IsUnsettled, Carries, At
<1>5. ASSUME NEW z \in Syncs, Apply(z), syncs'[y] # syncs[y]
      PROVE  Kept
  <2>1. PICK m \in LocalIds, sync \in InFlight :
          /\ Move(z, sync) /\ sync.pc = "apply" /\ sync.batch = syncs[z].batch
          /\ DOMAIN sync.results = DOMAIN syncs[z].results \ {m}
    BY <1>5, ApplyStep
  <2>2. y = z /\ syncs'[y] = sync /\ syncs[y].pc = "apply"
    BY <1>5, <2>1 DEF Move, Apply, At, TypeOK
  <2> QED
    BY <2>1, <2>2 DEF IsUnsettled, Carries, At
<1>6. ASSUME NEW z \in Syncs, Finish(z) \/ Lose(z), syncs'[y] # syncs[y]
      PROVE  FALSE
  BY <1>6 DEF Finish, Lose, Move, NoSync, TypeOK, IsUnsettled, Carries
<1>7. ASSUME StartSync, syncs'[y] # syncs[y]
      PROVE  FALSE
  BY <1>7 DEF StartSync, Chosen, TypeOK, IsUnsettled, Carries
<1>8. ASSUME Crash PROVE FALSE
  BY <1>8 DEF Crash, NoSync, IsUnsettled, Carries
<1>9. CASE syncs'[y] # syncs[y]
  BY <1>2, <1>3, <1>4, <1>5, <1>6, <1>7, <1>8, <1>9
     DEF Next, vars, BeginAdd, BeginEdit, Begin, Save, Insert, Replace, Saved, Delete, Load, Show,
         Sync, AddVaultEntry
<1> QED
  BY <1>1, <1>9

\* What is done to the text of a note, and how it comes to be a row.
LEMMA NoteStays ==
  ASSUME TypeOK, IdsAreNew, [Next]_vars, EditsWait, NEW n \in LocalIds, rows[n] # NoNote,
         NEW y \in Syncs, IsUnsettled(y, n)
  PROVE  rows'[n] # NoNote /\ (Stands(n)' => Stands(n) /\ rows'[n].cipher = rows[n].cipher)
<1>1. CASE rows'[n] = rows[n]
  BY <1>1 DEF Stands
<1>2. ASSUME NEW s \in Saves, Insert(s)
      PROVE  rows'[n] = rows[n]
  BY <1>2 DEF Insert, TypeOK
<1>3. ASSUME NEW s \in Saves, Replace(s)
      PROVE  rows'[n] = rows[n]
  <2>1. saves[s].note # n
    BY <1>3 DEF EditsWait
  <2> QED
    BY <1>3, <2>1 DEF Replace, TypeOK
<1>4. ASSUME NEW m \in LocalIds, Delete(m)
      PROVE  rows'[n] = rows[n] \/ rows'[n] = Gone
  BY <1>4 DEF Delete, TypeOK
<1>5. ASSUME NEW z \in Syncs, Apply(z)
      PROVE  /\ rows'[n] # NoNote
             /\ Stands(n)' => Stands(n) /\ rows'[n].cipher = rows[n].cipher
  <2>1. PICK m \in LocalIds :
          /\ \A k \in LocalIds \ {m} : rows'[k] = rows[k]
          /\ Stands(m)' <=> Stands(m)
          /\ Stands(m) => rows'[m].cipher = rows[m].cipher
    BY <1>5, ApplyStep
  <2>2. ~Stands(n) => rows'[n] = rows[n]
    <3>1. PICK k \in LocalIds :
            rows' = IF Stands(k)
                    THEN [rows EXCEPT ![k] = Settled(rows[k], syncs[z].results[k])] ELSE rows
      BY <1>5 DEF Apply
    <3> QED
      BY <3>1 DEF TypeOK
  <2> QED
    BY <2>1, <2>2 DEF Stands
<1>6. CASE rows'[n] # rows[n]
  BY <1>2, <1>3, <1>4, <1>5, <1>6, MarkersAreNoRows
     DEF Next, vars, BeginAdd, BeginEdit, Begin, Save, Load, Show, Crash, Sync, Select, Push,
         Receive, Finish, Refuse, Lose, AddVaultEntry, Stands
<1> QED
  BY <1>1, <1>6

\* While edits wait, the syncs carry the texts of the rows.
LEMMA CarriedTextsStep ==
  ASSUME ClientInv, CarriedTexts, [Next]_vars, EditsWait
  PROVE  CarriedTexts'
<1> SUFFICES ASSUME NEW y \in Syncs, NEW n \in LocalIds, IsUnsettled(y, n)'
             PROVE  /\ rows'[n] # NoNote
                    /\ Stands(n)' => rows'[n].cipher = syncs'[y].batch[n].cipher
  BY DEF CarriedTexts
<1>0. TypeOK /\ IdsAreNew
  BY DEF ClientInv
<1>1. CASE IsUnsettled(y, n) /\ syncs'[y].batch[n] = syncs[y].batch[n]
  BY <1>0, <1>1, NoteStays DEF CarriedTexts
<1>2. CASE Select(y) /\ n \in PendingNotes /\ syncs'[y].batch[n].cipher = rows[n].cipher
  BY <1>2 DEF Select, PendingNotes, IsPending, Stands
<1> QED
  BY <1>0, <1>1, <1>2, StillUnsettled

\* And a row that is marked as synced has the text of the hub.
LEMMA SyncedTextsStep ==
  ASSUME ClientInv, SyncedRowsAreKnown, CarriedTexts, SyncedTexts, [Next]_vars
  PROVE  SyncedTexts'
<1> SUFFICES ASSUME NEW n \in LocalIds, Stands(n)', rows'[n].isSynced
             PROVE  hub'[rows'[n].serverId].cipher = rows'[n].cipher
  BY DEF SyncedTexts
<1>1. CASE Stands(n) /\ rows'[n] = rows[n]
  <2>1. rows[n].serverId \in NoteIds /\ hub[rows[n].serverId] # NoNote
    BY <1>1 DEF SyncedRowsAreKnown, ClientInv, TypeOK, Stands, Row
  <2> QED
    BY <1>1, <2>1, HubOnlyGrows DEF SyncedTexts
<1>2. CASE ~(Stands(n) /\ rows'[n] = rows[n])
  <2>1. PICK y \in Syncs :
          /\ IsUnsettled(y, n) /\ TrueVerdict(y, n)
          /\ rows'[n].serverId = IdOf(y, n) /\ IdOf(y, n) # NoId
          /\ rows'[n].version = syncs[y].batch[n].version
          /\ syncs[y].batch[n] # NoNote
    BY <1>2, SyncedStep
  <2>2. Stands(n) /\ hub' = hub /\ rows'[n].cipher = rows[n].cipher
    BY <1>2, SyncedStep
  <2>3. hub'[rows'[n].serverId] = syncs[y].batch[n]
    BY <2>1, <2>2 DEF TrueVerdict
  <2>4. rows[n].cipher = syncs[y].batch[n].cipher
    BY <2>1, <2>2 DEF CarriedTexts
  <2> QED
    BY <2>2, <2>3, <2>4
<1> QED
  BY <1>1, <1>2

(***************************************************************************)
(* "Synced" would mean "matches backend", as models.dart says, if no note  *)
(* were edited while a sync carries it: that race, which the code does not *)
(* exclude, is all that can tell a synced row from the hub.                *)
(***************************************************************************)
THEOREM OnlyAnEditInFlightStales ==
  ASSUME ClockTicks
  PROVE  Spec /\ EditsWaitForSyncs => []SyncedMatchesHub
<1>1. Init => SyncedRowsAreKnown /\ CarriedTexts /\ SyncedTexts
  BY DEF Init, SyncedRowsAreKnown, CarriedTexts, SyncedTexts, Stands, IsUnsettled, Carries, NoSync
<1>2. ClientInv /\ SyncedRowsAreKnown /\ CarriedTexts /\ SyncedTexts
        /\ [Next]_vars /\ [EditsWait]_vars
        => (SyncedRowsAreKnown /\ CarriedTexts /\ SyncedTexts)'
  <2> SUFFICES ASSUME ClientInv, SyncedRowsAreKnown, CarriedTexts, SyncedTexts, [Next]_vars,
                      [EditsWait]_vars
               PROVE  (SyncedRowsAreKnown /\ CarriedTexts /\ SyncedTexts)'
    OBVIOUS
  <2>1. CASE UNCHANGED vars
    BY <2>1 DEF vars, SyncedRowsAreKnown, CarriedTexts, SyncedTexts, Stands, IsUnsettled, Carries,
       At
  <2>2. CASE EditsWait
    BY <2>2, KnownStep, CarriedTextsStep, SyncedTextsStep
  <2> QED
    BY <2>1, <2>2
<1>3. SyncedRowsAreKnown /\ SyncedTexts => SyncedMatchesHub
  BY DEF SyncedRowsAreKnown, SyncedTexts, SyncedMatchesHub
<1>4. EditsWaitForSyncs => [][EditsWait]_vars
  BY PTL DEF EditsWaitForSyncs, EditsWait
<1> QED
  BY <1>1, <1>2, <1>3, <1>4, ClientInvariance, PTL DEF Spec

-----------------------------------------------------------------------------
(***************************************************************************)
(* What holds of every device and hub: whether the clock ticks or not,     *)
(* whoever sends, and whether the hub understands.                         *)
(***************************************************************************)
\* How a sync comes to carry notes, and how verdicts come to it.
LEMMA FlightStep ==
  ASSUME TypeOK, [Next]_vars, NEW y \in Syncs, syncs'[y].pc \in {"post", "apply"}
  PROVE  \/ /\ syncs[y].pc \in {"post", "apply"} /\ syncs'[y].batch = syncs[y].batch
            /\ \A n \in DOMAIN syncs'[y].results :
                 \/ /\ n \in DOMAIN syncs[y].results
                    /\ syncs'[y].results[n] = syncs[y].results[n]
                 \/ /\ n \in LocalIds /\ IsUpNext(y, n)
                    /\ syncs'[y].results[n] \in {Error, Verdict(y, n)} \cap SyncResult
         \/ /\ DOMAIN syncs'[y].results = {}
            /\ \E temp \in TempIds(PendingNotes) :
                 syncs'[y].batch = [n \in PendingNotes |-> Payload(n, temp)]
<1>1. CASE syncs'[y] = syncs[y]
  BY <1>1
<1>2. ASSUME NEW z \in Syncs, NEW sync, Move(z, sync), syncs'[y] # syncs[y]
      PROVE  z = y /\ syncs'[y] = sync
  BY <1>2 DEF Move, TypeOK
<1>3. ASSUME NEW z \in Syncs, Select(z), syncs'[y] # syncs[y]
      PROVE  /\ DOMAIN syncs'[y].results = {}
             /\ \E temp \in TempIds(PendingNotes) :
                  syncs'[y].batch = [n \in PendingNotes |-> Payload(n, temp)]
  <2>1. CASE Move(z, NoSync)
    BY <1>2, <1>3, <2>1 DEF NoSync
  <2>2. ASSUME NEW temp \in TempIds(PendingNotes),
               Move(z, [pc |-> "post", batch |-> [n \in PendingNotes |-> Payload(n, temp)],
                        results |-> NoReplies])
        PROVE  /\ DOMAIN syncs'[y].results = {}
               /\ syncs'[y].batch = [n \in PendingNotes |-> Payload(n, temp)]
    BY <1>2, <1>3, <2>2 DEF NoReplies
  <2> QED
    BY <1>3, <2>1, <2>2 DEF Select
<1>4. ASSUME NEW z \in Syncs, Push(z) \/ Refuse(z), syncs'[y] # syncs[y]
      PROVE  /\ syncs[y].pc \in {"post", "apply"} /\ syncs'[y].batch = syncs[y].batch
             /\ \A n \in DOMAIN syncs'[y].results :
                  \/ /\ n \in DOMAIN syncs[y].results
                     /\ syncs'[y].results[n] = syncs[y].results[n]
                  \/ /\ n \in LocalIds /\ IsUpNext(y, n)
                     /\ syncs'[y].results[n] \in {Error, Verdict(y, n)} \cap SyncResult
  <2>0. PICK m \in LocalIds :
          /\ IsUpNext(z, m)
          /\ \E verdict \in {Error, Verdict(z, m)} :
               Answered(z, m, verdict) /\ verdict.tag # "Panic"
    BY <1>4 DEF Push, Refuse, Stored, Error
  <2>1. PICK verdict \in {Error, Verdict(z, m)} :
          IsUpNext(z, m) /\ Answered(z, m, verdict) /\ verdict.tag # "Panic"
    BY <2>0
  <2>2. verdict \in SyncResult
    BY <2>1, HubType DEF SyncResult, Error
  <2>3. syncs[z].pc = "post"
    BY <2>1 DEF IsUpNext, At
  <2>4. PICK sync \in InFlight :
          /\ Move(z, sync) /\ sync.pc = syncs[z].pc /\ sync.batch = syncs[z].batch
          /\ DOMAIN sync.results = DOMAIN syncs[z].results \cup {m}
          /\ sync.results[m] = verdict
          /\ \A k \in DOMAIN syncs[z].results \ {m} : sync.results[k] = syncs[z].results[k]
    BY <2>1, <2>2, <2>3, AnsweredType
  <2>5. z = y /\ syncs'[y] = sync
    BY <1>2, <1>4, <2>4
  <2> QED
    BY <2>1, <2>2, <2>3, <2>4, <2>5
<1>5. ASSUME NEW z \in Syncs, Receive(z), syncs'[y] # syncs[y]
      PROVE  /\ syncs[y].pc = "post" /\ syncs'[y].batch = syncs[y].batch
             /\ syncs'[y].results = syncs[y].results
  BY <1>2, <1>5 DEF Receive, At
<1>6. ASSUME NEW z \in Syncs, Apply(z), syncs'[y] # syncs[y]
      PROVE  /\ syncs[y].pc = "apply" /\ syncs'[y].batch = syncs[y].batch
             /\ \A n \in DOMAIN syncs'[y].results :
                  n \in DOMAIN syncs[y].results /\ syncs'[y].results[n] = syncs[y].results[n]
  <2>1. PICK m \in LocalIds :
          /\ At(z, "apply") /\ m \in DOMAIN syncs[z].results
          /\ Move(z, [syncs[z] EXCEPT !.results = [k \in DOMAIN @ \ {m} |-> @[k]]])
    BY <1>6 DEF Apply, IsFirst
  <2>2. PICK sync \in InFlight :
          /\ Move(z, sync) /\ sync.pc = "apply" /\ sync.batch = syncs[z].batch
          /\ DOMAIN sync.results = DOMAIN syncs[z].results \ {m}
          /\ \A k \in DOMAIN syncs[z].results \ {m} : sync.results[k] = syncs[z].results[k]
    BY <2>1, AppliedType
  <2>3. z = y /\ syncs'[y] = sync
    BY <1>2, <1>6, <2>2
  <2> QED
    BY <2>1, <2>2, <2>3 DEF At
<1>7. ASSUME NEW z \in Syncs, Finish(z) \/ Lose(z), syncs'[y] # syncs[y]
      PROVE  FALSE
  BY <1>2, <1>7 DEF Finish, Lose, NoSync
<1>8. ASSUME StartSync, syncs'[y] # syncs[y]
      PROVE  FALSE
  BY <1>8 DEF StartSync, Chosen, TypeOK
<1>9. ASSUME Crash PROVE FALSE
  BY <1>9 DEF Crash, NoSync
<1>10. CASE syncs'[y] # syncs[y]
  BY <1>3, <1>4, <1>5, <1>6, <1>7, <1>8, <1>9, <1>10
     DEF Next, vars, BeginAdd, BeginEdit, Begin, Save, Insert, Replace, Saved, Delete, Load, Show,
         Sync, AddVaultEntry
<1> QED
  BY <1>1, <1>10

\* The hub changes only by storing the note that is up next.
LEMMA HubStep ==
  ASSUME [Next]_vars
  PROVE  hub' = hub \/ \E y \in Syncs, n \in LocalIds : IsUpNext(y, n) /\ Stored(y, n)
<1>1. ASSUME NEW y \in Syncs, Push(y) \/ Refuse(y), hub' # hub
      PROVE  \E n \in LocalIds : IsUpNext(y, n) /\ Stored(y, n)
  BY <1>1 DEF Push, Refuse
<1> QED
  BY <1>1 DEF Next, vars, BeginAdd, BeginEdit, Begin, Save, Insert, Replace, Saved, Delete, Load,
              Show, Crash, Sync, Select, Receive, Apply, Finish, Lose, AddVaultEntry

\* How a row that stays comes to be another one.
LEMMA RowStep ==
  ASSUME TypeOK, [Next]_vars, NEW n \in LocalIds, rows'[n] # rows[n]
  PROVE  \/ rows[n] # Gone /\ \E c, v : rows'[n] = Fresh(c, v)
         \/ rows[n] # Gone /\ rows'[n] = Gone
         \/ /\ Stands(n)
            /\ \E y \in Syncs : /\ At(y, "apply") /\ n \in DOMAIN syncs[y].results
                                /\ rows'[n] = Settled(rows[n], syncs[y].results[n])
<1>1. ASSUME NEW s \in Saves, Insert(s)
      PROVE  rows[n] # Gone /\ rows'[n] = Fresh(saves[s].cipher, 1)
  BY <1>1 DEF Insert, TypeOK
<1>2. ASSUME NEW s \in Saves, Replace(s)
      PROVE  rows[n] # Gone /\ rows'[n] = Fresh(saves[s].cipher, saves[s].version + 1)
  BY <1>2 DEF Replace, TypeOK, Stands
<1>3. ASSUME NEW m \in LocalIds, Delete(m)
      PROVE  rows[n] # Gone /\ rows'[n] = Gone
  BY <1>3 DEF Delete, TypeOK, Stands
<1>4. ASSUME NEW y \in Syncs, Apply(y)
      PROVE  /\ Stands(n) /\ At(y, "apply") /\ n \in DOMAIN syncs[y].results
             /\ rows'[n] = Settled(rows[n], syncs[y].results[n])
  <2>1. PICK m \in LocalIds :
          /\ At(y, "apply") /\ m \in DOMAIN syncs[y].results
          /\ rows' = IF Stands(m)
                     THEN [rows EXCEPT ![m] = Settled(rows[m], syncs[y].results[m])] ELSE rows
    BY <1>4 DEF Apply, IsFirst
  <2> QED
    BY <2>1 DEF TypeOK
<1> QED
  BY <1>1, <1>2, <1>3, <1>4
     DEF Next, vars, BeginAdd, BeginEdit, Begin, Save, Load, Show, Crash, Sync, Select, Push,
         Receive, Finish, Refuse, Lose, AddVaultEntry

(***************************************************************************)
(* A note that has been deleted does not come back.                        *)
(***************************************************************************)
THEOREM DeletedForGood == Spec => DeletedStaysDeleted
<1>1. TypeOK /\ [Next]_vars => [\A n \in LocalIds : rows[n] = Gone => rows'[n] = Gone]_vars
  BY RowStep DEF Stands
<1> QED
  BY <1>1, TypeCorrect, PTL DEF Spec, DeletedStaysDeleted

\* The id of a verdict's note is the one that was pushed.
LEMMA ReconcileId ==
  ASSUME NEW client \in Note, NEW server \in Note \cup {NoNote},
         server # NoNote => server.id = client.id,
         ReconcileNote(client, server).tag # "Panic"
  PROVE  ReconcileNote(client, server).note.id = client.id
BY DEF ReconcileNote, Success, Conflict, Panic, Note

\* The hub has every note under its own id, and every answer names the id it is about.
AnswersNameIds ==
  /\ \A i \in NoteIds : hub[i] # NoNote => hub[i].id = i
  /\ \A y \in Syncs : syncs[y].pc \in {"post", "apply"} =>
       \A n \in DOMAIN syncs[y].results : syncs[y].results[n] # Error =>
         syncs[y].results[n].note.id = syncs[y].batch[n].id

LEMMA NamesStep ==
  ASSUME TypeOK, AnswersNameIds, [Next]_vars
  PROVE  AnswersNameIds'
<1>1. ASSUME NEW y \in Syncs, NEW n \in LocalIds, IsUpNext(y, n), Verdict(y, n) # Error,
             Verdict(y, n).tag # "Panic"
      PROVE  Verdict(y, n).note.id = syncs[y].batch[n].id
  <2>1. Pushed(y, n) \in Note /\ hub[Pushed(y, n).id] \in Note \cup {NoNote}
    BY <1>1, HubType
  <2>2. Pushed(y, n).id \in NoteIds
    BY <2>1 DEF Note
  <2> QED
    BY <1>1, <2>1, <2>2, ReconcileId DEF Verdict, Pushed, AnswersNameIds
<1>2. ASSUME NEW i \in NoteIds, hub'[i] # NoNote
      PROVE  hub'[i].id = i
  <2>1. CASE hub' = hub
    BY <1>2, <2>1 DEF AnswersNameIds
  <2>2. ASSUME NEW y \in Syncs, NEW n \in LocalIds, IsUpNext(y, n), Stored(y, n)
        PROVE  hub'[i].id = i
    <3>1. Verdict(y, n).note.id = Pushed(y, n).id
      BY <1>1, <2>2 DEF Stored, Error, Pushed
    <3> QED
      BY <1>2, <2>2, <3>1 DEF Stored, AnswersNameIds, TypeOK
  <2> QED
    BY <2>1, <2>2, HubStep
<1>3. ASSUME NEW y \in Syncs, syncs'[y].pc \in {"post", "apply"},
             NEW n \in DOMAIN syncs'[y].results, syncs'[y].results[n] # Error
      PROVE  syncs'[y].results[n].note.id = syncs'[y].batch[n].id
  <2>1. syncs[y].pc \in {"post", "apply"} /\ syncs'[y].batch = syncs[y].batch
    BY <1>3, FlightStep
  <2>2. CASE n \in DOMAIN syncs[y].results /\ syncs'[y].results[n] = syncs[y].results[n]
    BY <1>3, <2>1, <2>2 DEF AnswersNameIds
  <2>3. CASE /\ n \in LocalIds /\ IsUpNext(y, n)
             /\ syncs'[y].results[n] \in {Error, Verdict(y, n)} \cap SyncResult
    <3>1. Verdict(y, n) # Error /\ Verdict(y, n).tag # "Panic"
      BY <1>3, <2>3 DEF SyncResult, Error
    <3> QED
      BY <1>1, <1>3, <2>1, <2>3, <3>1
  <2> QED
    BY <1>3, <2>2, <2>3, FlightStep
<1> QED
  BY <1>2, <1>3 DEF AnswersNameIds

LEMMA NamesInit == Init => AnswersNameIds
BY DEF Init, AnswersNameIds, NoSync

(***************************************************************************)
(* A row takes a server id only with an answer about itself, and only the  *)
(* id it was pushed under: also when ids collide.                          *)
(***************************************************************************)
THEOREM OwnIdsOnly == Spec => RowsTakeTheirOwnIds
<1>1. TypeOK /\ AnswersNameIds /\ [Next]_vars =>
        [\A n \in LocalIds :
           Stands(n) /\ Stands(n)' /\ rows'[n].serverId \notin {rows[n].serverId, NoId} =>
             \E y \in Syncs : /\ At(y, "apply") /\ n \in DOMAIN syncs[y].results
                              /\ rows'[n].serverId = Pushed(y, n).id]_vars
  <2> SUFFICES ASSUME TypeOK, AnswersNameIds, [Next]_vars, NEW n \in LocalIds,
                      Stands(n), Stands(n)', rows'[n].serverId \notin {rows[n].serverId, NoId}
               PROVE  \E y \in Syncs : /\ At(y, "apply") /\ n \in DOMAIN syncs[y].results
                                       /\ rows'[n].serverId = Pushed(y, n).id
    OBVIOUS
  <2>0. /\ rows'[n] # rows[n] /\ rows'[n] # Gone
        /\ \A c, v : rows'[n] # Fresh(c, v)
    BY DEF Fresh, Stands
  <2>1. PICK y \in Syncs : /\ At(y, "apply") /\ n \in DOMAIN syncs[y].results
                           /\ rows'[n] = Settled(rows[n], syncs[y].results[n])
    BY <2>0, RowStep
  <2>2. syncs[y].results[n] # Error /\ rows'[n].serverId = syncs[y].results[n].note.id
    BY <2>1 DEF Settled, Error
  <2>3. syncs[y].results[n].note.id = syncs[y].batch[n].id
    BY <2>1, <2>2 DEF AnswersNameIds, At
  <2> QED
    BY <2>1, <2>2, <2>3 DEF Pushed
<1> QED
  BY <1>1, NamesInit, NamesStep, TypeCorrect, PTL DEF Spec, RowsTakeTheirOwnIds

\* Why nothing is synced: every note a sync carries names Sender, every answer is an Error.
OnlyErrors ==
  \A y \in Syncs : syncs[y].pc \in {"post", "apply"} =>
    /\ \A n \in DOMAIN syncs[y].batch : syncs[y].batch[n].user_id = Sender
    /\ \A n \in DOMAIN syncs[y].results : syncs[y].results[n] = Error

LEMMA NothingStep ==
  ASSUME ~Understood \/ Sender # Me, TypeOK, OnlyErrors, NothingIsSynced, [Next]_vars
  PROVE  OnlyErrors' /\ NothingIsSynced'
<1>1. ASSUME NEW y \in Syncs, NEW n \in LocalIds, IsUpNext(y, n)
      PROVE  Verdict(y, n) = Error
  BY <1>1 DEF IsUpNext, At, IsFirst, Unanswered, OnlyErrors, Verdict, Pushed
<1>2. hub' = hub
  BY <1>1, HubStep DEF Stored, Error
<1>3. ASSUME NEW y \in Syncs, syncs'[y].pc \in {"post", "apply"}
      PROVE  /\ \A n \in DOMAIN syncs'[y].batch : syncs'[y].batch[n].user_id = Sender
             /\ \A n \in DOMAIN syncs'[y].results : syncs'[y].results[n] = Error
  <2>1. ASSUME DOMAIN syncs'[y].results = {}, NEW temp \in TempIds(PendingNotes),
               syncs'[y].batch = [n \in PendingNotes |-> Payload(n, temp)]
        PROVE  /\ \A n \in DOMAIN syncs'[y].batch : syncs'[y].batch[n].user_id = Sender
               /\ \A n \in DOMAIN syncs'[y].results : syncs'[y].results[n] = Error
    BY <2>1 DEF Payload
  <2>2. ASSUME syncs[y].pc \in {"post", "apply"}, syncs'[y].batch = syncs[y].batch,
               \A n \in DOMAIN syncs'[y].results :
                 \/ /\ n \in DOMAIN syncs[y].results
                    /\ syncs'[y].results[n] = syncs[y].results[n]
                 \/ /\ n \in LocalIds /\ IsUpNext(y, n)
                    /\ syncs'[y].results[n] \in {Error, Verdict(y, n)}
        PROVE  /\ \A n \in DOMAIN syncs'[y].batch : syncs'[y].batch[n].user_id = Sender
               /\ \A n \in DOMAIN syncs'[y].results : syncs'[y].results[n] = Error
    BY <1>1, <2>2 DEF OnlyErrors
  <2>3. \/ /\ syncs[y].pc \in {"post", "apply"} /\ syncs'[y].batch = syncs[y].batch
           /\ \A n \in DOMAIN syncs'[y].results :
                \/ /\ n \in DOMAIN syncs[y].results
                   /\ syncs'[y].results[n] = syncs[y].results[n]
                \/ /\ n \in LocalIds /\ IsUpNext(y, n)
                   /\ syncs'[y].results[n] \in {Error, Verdict(y, n)}
        \/ /\ DOMAIN syncs'[y].results = {}
           /\ \E temp \in TempIds(PendingNotes) :
                syncs'[y].batch = [n \in PendingNotes |-> Payload(n, temp)]
    BY <1>3, FlightStep
  <2> QED
    BY <2>1, <2>2, <2>3
<1>4. ASSUME NEW n \in LocalIds, Stands(n)'
      PROVE  ~rows'[n].isSynced /\ rows'[n].serverId = NoId
  <2>1. CASE rows'[n] = rows[n]
    BY <1>4, <2>1 DEF NothingIsSynced, Stands
  <2>2. CASE \E c, v : rows'[n] = Fresh(c, v)
    BY <2>2 DEF Fresh
  <2>3. ASSUME NEW y \in Syncs, At(y, "apply"), n \in DOMAIN syncs[y].results,
               rows'[n] = Settled(rows[n], syncs[y].results[n])
        PROVE  rows'[n] = rows[n]
    BY <2>3 DEF OnlyErrors, At, Settled, Error
  <2> QED
    BY <1>4, <2>1, <2>2, <2>3, RowStep DEF Stands
<1> QED
  BY <1>2, <1>3, <1>4 DEF OnlyErrors, NothingIsSynced

(***************************************************************************)
(* The code as it stands: a hub that does not understand the device, or a  *)
(* device that does not name its account, as with the nil UUID of          *)
(* SyncService, and no note is ever stored or marked as synced.            *)
(***************************************************************************)
THEOREM NothingGetsSynced ==
  ASSUME ~Understood \/ Sender # Me
  PROVE  Spec => []NothingIsSynced
<1>1. Init => OnlyErrors /\ NothingIsSynced
  BY DEF Init, OnlyErrors, NothingIsSynced, NoSync, Stands
<1>2. TypeOK /\ OnlyErrors /\ NothingIsSynced /\ [Next]_vars => (OnlyErrors /\ NothingIsSynced)'
  BY NothingStep
<1> QED
  BY <1>1, <1>2, TypeCorrect, PTL DEF Spec

-----------------------------------------------------------------------------
(***************************************************************************)
(* How long a sync takes.                                                  *)
(***************************************************************************)
LEMMA AnsweredRunsDown ==
  ASSUME TypeOK, NEW y \in Syncs, NEW n, NEW verdict, IsUpNext(y, n), Answered(y, n, verdict)
  PROVE  Stage(y)' = Stage(y) /\ n \in WaitsFor(y) /\ WaitsFor(y)' = WaitsFor(y) \ {n}
<1>1. syncs[y].pc = "post" /\ n \in Unanswered(y)
  BY DEF IsUpNext, At, IsFirst
<1>2. syncs[y] \in InFlight
  BY <1>1, Flying
<1>3. /\ syncs'[y].pc = "post" /\ syncs'[y].batch = syncs[y].batch
      /\ DOMAIN syncs'[y].results = DOMAIN syncs[y].results \cup {n}
  BY <1>1, <1>2 DEF Answered, Move, TypeOK, InFlight
<1>4. Unanswered(y)' = Unanswered(y) \ {n}
  BY <1>3 DEF Unanswered
<1> QED
  BY <1>1, <1>3, <1>4 DEF Stage, WaitsFor, At

LEMMA AppliedRunsDown ==
  ASSUME TypeOK, NEW y \in Syncs, Apply(y)
  PROVE  Stage(y)' = Stage(y) /\ \E n \in WaitsFor(y) : WaitsFor(y)' = WaitsFor(y) \ {n}
<1>1. PICK n \in LocalIds :
        /\ At(y, "apply") /\ IsFirst(n, DOMAIN syncs[y].results)
        /\ Move(y, [syncs[y] EXCEPT !.results = [m \in DOMAIN @ \ {n} |-> @[m]]])
  BY DEF Apply
<1>2. syncs[y].pc = "apply" /\ n \in DOMAIN syncs[y].results
  BY <1>1 DEF At, IsFirst
<1>3. syncs[y] \in InFlight
  BY <1>2, Flying
<1>4. syncs'[y].pc = "apply" /\ DOMAIN syncs'[y].results = DOMAIN syncs[y].results \ {n}
  BY <1>1, <1>2, <1>3 DEF Move, TypeOK, InFlight
<1> QED
  BY <1>2, <1>4 DEF Stage, WaitsFor, At

LEMMA RunDownStep ==
  ASSUME TypeOK, [Next]_vars, NEW y \in Syncs, syncs[y] # NoSync
  PROVE  \/ UNCHANGED syncs[y]
         \/ Stage(y)' < Stage(y)
         \/ Stage(y)' = Stage(y) /\ \E n \in WaitsFor(y) : WaitsFor(y)' = WaitsFor(y) \ {n}
<1>1. ASSUME NEW z \in Syncs, NEW sync, Move(z, sync), z # y
      PROVE  UNCHANGED syncs[y]
  BY <1>1 DEF Move, TypeOK
<1>2. ASSUME syncs'[y] = NoSync PROVE Stage(y)' = 0 /\ Stage(y) > 0
  BY <1>2 DEF Stage, At, NoSync, Chosen, InFlight, TypeOK
<1>3. CASE Select(y)
  <2>1. At(y, "select")
    BY <1>3, Zenon DEF Select
  <2>2. syncs'[y] = NoSync \/ syncs'[y].pc = "post"
    BY <1>3 DEF Select, Move, TypeOK
  <2> QED
    BY <1>2, <2>1, <2>2 DEF Stage, At
<1>4. CASE Push(y) \/ Refuse(y)
  <2>1. PICK n, verdict : IsUpNext(y, n) /\ Answered(y, n, verdict)
    BY <1>4 DEF Push, Refuse
  <2> QED
    BY <2>1, AnsweredRunsDown
<1>5. CASE Receive(y)
  BY <1>5 DEF Receive, Move, Stage, At, TypeOK
<1>6. CASE Apply(y)
  BY <1>6, AppliedRunsDown
<1>7. CASE Finish(y) \/ Lose(y) \/ Crash
  BY <1>2, <1>7 DEF Finish, Lose, Crash, Move, TypeOK
<1>8. ASSUME NEW z \in Syncs \ {y}, Sync(z) \/ Refuse(z) \/ Lose(z)
      PROVE  UNCHANGED syncs[y]
  BY <1>1, <1>8 DEF Sync, Select, Push, Answered, Receive, Apply, Finish, Refuse, Lose
<1>9. CASE StartSync \/ UNCHANGED syncs
  BY <1>9 DEF StartSync, TypeOK
<1> QED
  BY <1>3, <1>4, <1>5, <1>6, <1>7, <1>8, <1>9
     DEF Next, vars, BeginAdd, BeginEdit, Begin, Save, Insert, Replace, Saved, Delete, Load, Show,
         Sync, AddVaultEntry

(***************************************************************************)
(* A sync of n notes ends after at most 2n + 3 steps of its own, whatever  *)
(* is saved, deleted, lost or synced meanwhile.                            *)
(***************************************************************************)
THEOREM SyncsGetShorter == Spec => SyncsRunDown
<1>1. TypeOK /\ [Next]_vars =>
        [\A y \in Syncs : syncs[y] # NoSync =>
           \/ UNCHANGED syncs[y]
           \/ Stage(y)' < Stage(y)
           \/ Stage(y)' = Stage(y) /\ \E n \in WaitsFor(y) : WaitsFor(y)' = WaitsFor(y) \ {n}]_vars
  BY RunDownStep
<1> QED
  BY <1>1, TypeCorrect, PTL DEF Spec, SyncsRunDown
================================================================================
