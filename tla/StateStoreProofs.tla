------------------------- MODULE StateStoreProofs -------------------------
(***************************************************************************)
(* Proofs about StateStore for every set of contents and every bound: the    *)
(* type of the state, that the three files are one durable cell, and what    *)
(* one unreadable file can cost.                                             *)
(***************************************************************************)
EXTENDS StateStore, TLAPS

Older(file, generation) == Valid(file) => file.generation < generation

(* What the files are to each other, and to the state a process saves, as    *)
(* long as no file was damaged: a leftover temporary file is newer than the  *)
(* primary, and there is no backup before there is a primary.                *)
FilesInv ==
    damages = 0 =>
        /\ Torn \notin {primary, temporary, backup}
        /\ Valid(primary) /\ Valid(temporary) =>
             primary.generation < temporary.generation
        /\ primary = Absent => backup = Absent
        /\ pc # "down" => Older(primary, state.generation + 1)
                          /\ Older(temporary, state.generation + 1)
        /\ pc \in Saving => Older(primary, state.generation)
        /\ pc \in {"backup", "temporary"} => Older(temporary, state.generation)
        /\ pc = "replace" =>
             temporary = [state EXCEPT !.content = Redacted[@]]

IInv == TypeOK /\ FilesInv

LEMMA SnapshotContent ==
    ASSUME NEW s \in Snapshot
    PROVE  /\ [s EXCEPT !.content = Redacted[@]] \in Snapshot
           /\ [s EXCEPT !.content = Redacted[@]].generation = s.generation
           /\ [s EXCEPT !.content = Redacted[@]].content = Redacted[s.content]
BY ContentAssumption DEF Snapshot

(* What start-up reads, if anything, is a snapshot.                          *)
LEMMA RecoverableType == Recoverable # Absent => Recoverable \in Snapshot
BY DEF Recoverable, Valid

-----------------------------------------------------------------------------
LEMMA TypeInit == Init => TypeOK
<1> SUFFICES ASSUME Init PROVE TypeOK
  OBVIOUS
<1>1. state \in Snapshot
  <2>1. PICK s \in [generation : {0}, content : Content] : s = state
    BY DEF Init
  <2>2. s.generation = 0 /\ s.content \in Content
           /\ s = [generation |-> s.generation, content |-> s.content]
    BY <2>1
  <2> QED BY <2>1, <2>2 DEF Snapshot
<1>2. kept \in [last : Nat, previous : Nat]
  BY DEF Init
<1> QED BY <1>1, <1>2 DEF Init, TypeOK, File, Saving

LEMMA TypeNext == TypeOK /\ [Next]_vars => TypeOK'
<1> SUFFICES ASSUME TypeOK, [Next]_vars PROVE TypeOK'
  OBVIOUS
<1> USE DEF TypeOK, File, Saving
<1>1. CASE Create
  <2>1. state' \in Snapshot
    <3>1. PICK s \in [generation : {1}, content : Content] : s = state'
      BY <1>1 DEF Create
    <3>2. s.generation = 1 /\ s.content \in Content
             /\ s = [generation |-> s.generation, content |-> s.content]
      BY <3>1
    <3> QED BY <3>1, <3>2 DEF Snapshot
  <2> QED BY <1>1, <2>1 DEF Create, files
<1>2. CASE Load
  <2>1. Recoverable \in Snapshot
    BY <1>2, RecoverableType DEF Load
  <2>2. Recoverable.generation + 1 \in Nat
    BY <2>1 DEF Snapshot
  <2>3. [Recoverable EXCEPT !.generation = @ + 1] \in Snapshot
    BY <2>1, <2>2 DEF Snapshot
  <2>4. state' \in Snapshot
    BY <1>2, <2>1, <2>3 DEF Load
  <2>5. pc' \in {"idle", "backup"} /\ opening' \in BOOLEAN
    BY <1>2 DEF Load
  <2> QED BY <1>2, <2>4, <2>5 DEF Load, files
<1>3. CASE Change
  BY <1>3 DEF Change, files, Snapshot
<1>4. CASE Save
  <2>1. state.generation + 1 \in Nat
    BY DEF Snapshot
  <2>2. [state EXCEPT !.generation = @ + 1] \in Snapshot
    BY <2>1 DEF Snapshot
  <2> QED BY <1>4, <2>2 DEF Save, files
<1>5. CASE WriteBackup
  BY <1>5 DEF WriteBackup
<1>6. CASE WriteTemporary
  BY <1>6, SnapshotContent DEF WriteTemporary
<1>7. CASE Replace
  <2>1. state.generation \in Nat /\ kept.last \in Nat
    BY DEF Snapshot
  <2>2. kept' \in [last : Nat, previous : Nat]
    BY <1>7, <2>1 DEF Replace
  <2> QED BY <1>7, <2>2 DEF Replace
<1>8. CASE WriteFails
  <2>1. pc' \in {"idle", "down"} /\ opening' \in BOOLEAN
    BY <1>8 DEF WriteFails
  <2> QED BY <1>8, <2>1 DEF WriteFails, files
<1>9. CASE Crash
  <2>1. crashes' \in Nat
    <3>1. crashes \in Nat /\ crashes' = crashes + 1
      BY <1>9 DEF Crash
    <3> QED BY <3>1
  <2>2. pc' = "down" /\ opening' \in BOOLEAN
    BY <1>9 DEF Crash
  <2> QED BY <1>9, <2>1, <2>2 DEF Crash, files
<1>10. CASE Tear
  BY <1>10 DEF Tear
<1>11. CASE UNCHANGED vars
  BY <1>11 DEF vars, files
<1> QED BY <1>1, <1>2, <1>3, <1>4, <1>5, <1>6, <1>7, <1>8, <1>9, <1>10, <1>11 DEF Next

(* The type of the state, in every run (the run state_store checks it on a   *)
(* small instance).                                                          *)
THEOREM StateStoreTypeCorrect == Spec => []TypeOK
BY TypeInit, TypeNext, PTL DEF Spec

-----------------------------------------------------------------------------
LEMMA FilesInit == Init => FilesInv
BY FilesAssumption DEF Init, FilesInv, Valid, Saving, Older

LEMMA FilesNext == IInv /\ [Next]_vars => FilesInv'
<1> SUFFICES ASSUME IInv, [Next]_vars, damages' = 0 PROVE FilesInv'
  BY DEF FilesInv
<1>0. damages = 0 /\ TypeOK /\ FilesInv
  BY DEF IInv, TypeOK, Next, vars, files, Create, Load, Change, Save, WriteBackup,
         WriteTemporary, Replace, WriteFails, Crash, Tear
<1> USE <1>0, FilesAssumption DEF FilesInv, TypeOK, File, Valid, Saving, Older
<1>1. CASE Create
  BY <1>1 DEF Create, files
<1>2. CASE Load
  BY <1>2 DEF Load, Recoverable, files, Snapshot
<1>3. CASE Change
  BY <1>3 DEF Change, files, Snapshot
<1>4. CASE Save
  BY <1>4 DEF Save, files, Snapshot
<1>5. CASE WriteBackup
  BY <1>5 DEF WriteBackup
<1>6. CASE WriteTemporary
  BY <1>6, SnapshotContent DEF WriteTemporary, Snapshot
<1>7. CASE Replace
  BY <1>7, SnapshotContent DEF Replace, Snapshot
<1>8. CASE WriteFails
  BY <1>8 DEF WriteFails, files, Snapshot
<1>9. CASE Crash
  BY <1>9 DEF Crash, files
<1>10. CASE Tear
  BY <1>10 DEF Tear
<1>11. CASE UNCHANGED vars
  BY <1>11 DEF vars, files
<1> QED BY <1>1, <1>2, <1>3, <1>4, <1>5, <1>6, <1>7, <1>8, <1>9, <1>10, <1>11 DEF Next

LEMMA FilesSafe == Spec => []IInv
<1>1. Init => IInv
  BY TypeInit, FilesInit DEF IInv
<1>2. IInv /\ [Next]_vars => IInv'
  BY TypeNext, FilesNext DEF IInv
<1> QED BY <1>1, <1>2, PTL DEF Spec

-----------------------------------------------------------------------------
(* What start-up would read, as the abstract cell sees it. *)
Durable == IF Valid(Recoverable) THEN Recoverable.content ELSE None
Held == IF pc = "down" THEN None ELSE state.content
PhaseOf == IF pc \in Saving THEN "saving" ELSE pc

LEMMA CellInit == Init => Cell!Init
BY FilesAssumption DEF Init, Cell!Init, Valid, Recoverable, Saving

LEMMA CellNext == IInv /\ IInv' /\ [Next]_vars => [Cell!Next]_(Cell!cell)
<1> SUFFICES ASSUME IInv, IInv', [Next]_vars PROVE [Cell!Next]_(Cell!cell)
  OBVIOUS
<1>a. CASE damages' # 0
  BY <1>a DEF Cell!Next, Cell!Damaged
<1>b. CASE damages' = 0
  <2>0. damages = 0 /\ TypeOK /\ FilesInv /\ TypeOK' /\ FilesInv'
    BY <1>b DEF IInv, TypeOK, Next, vars, files, Create, Load, Change, Save,
         WriteBackup, WriteTemporary, Replace, WriteFails, Crash, Tear
  <2> USE <1>b, <2>0, FilesAssumption
  <2>1. CASE Create
    BY <2>1 DEF Create, files, Cell!Next, Cell!Intact, Cell!Create, Valid,
                Recoverable, Saving, Snapshot
  <2>2. CASE Load
    <3>1. Recoverable \in Snapshot
      BY <2>2, RecoverableType DEF Load
    <3>2. Durable = Recoverable.content /\ Durable \in Content
      BY <3>1 DEF Durable, Valid, Snapshot
    <3>3. Held' = Recoverable.content /\ PhaseOf' \in {"idle", "saving"}
      BY <2>2, <3>1 DEF Load, Held, PhaseOf, Saving, Snapshot
    <3>4. UNCHANGED Durable
      BY <2>2 DEF Load, files, Durable, Recoverable, Valid
    <3> QED BY <2>2, <3>2, <3>3, <3>4, ContentAssumption
            DEF Load, Cell!Next, Cell!Intact, Cell!Load, Durable, Held, PhaseOf, Saving
  <2>3. CASE Change
    BY <2>3 DEF Change, files, Cell!Next, Cell!Intact, Cell!Change, Valid,
                Recoverable, Saving, Snapshot, TypeOK
  <2>4. CASE Save
    BY <2>4 DEF Save, files, Cell!Next, Cell!Intact, Cell!Save, Valid, Recoverable,
                Saving, Snapshot, TypeOK
  <2>5. CASE WriteBackup
    <3>1. UNCHANGED <<Durable, Held, PhaseOf>>
      BY <2>5 DEF WriteBackup, Durable, Held, PhaseOf, Valid, Recoverable, Saving,
                  TypeOK, File, FilesInv
    <3> QED BY <3>1 DEF Cell!cell, Durable, Held, PhaseOf
  <2>6. CASE WriteTemporary
    <3>1. Durable' = Redacted[state.content]
      BY <2>6, SnapshotContent DEF WriteTemporary, Durable, Valid, Recoverable, Saving,
         TypeOK, File, FilesInv, Older, Snapshot
    <3> QED BY <2>6, <3>1 DEF WriteTemporary, Cell!Next, Cell!Intact, Cell!Commit,
         Durable, Saving
  <2>7. CASE Replace
    <3>1. Durable = Redacted[state.content] /\ UNCHANGED <<Durable, Held>>
      BY <2>7, SnapshotContent DEF Replace, Durable, Held, Valid, Recoverable, Saving,
         TypeOK, File, FilesInv, Older, Snapshot
    <3> QED BY <2>7, <3>1 DEF Replace, Cell!Next, Cell!Intact, Cell!Return,
         Durable, Held, Saving
  <2>8. CASE WriteFails
    BY <2>8 DEF WriteFails, files, Cell!Next, Cell!Intact, Cell!Fail, Valid,
                Recoverable, Saving
  <2>9. CASE Crash
    BY <2>9 DEF Crash, files, Cell!Next, Cell!Intact, Cell!Crash, Valid, Recoverable,
                Saving, TypeOK
  <2>10. CASE Tear
    BY <2>10 DEF Tear, TypeOK
  <2>11. CASE UNCHANGED vars
    BY <2>11 DEF vars, files, Cell!cell, Valid, Recoverable, Saving
  <2> QED BY <2>1, <2>2, <2>3, <2>4, <2>5, <2>6, <2>7, <2>8, <2>9, <2>10, <2>11
          DEF Next
<1> QED BY <1>a, <1>b

(* The three files implement one durable cell: while none is damaged, a save *)
(* takes effect at the instant its temporary file is complete, whatever dies *)
(* or fails afterwards (save_state_atomic, load_state).                      *)
THEOREM StateStoreImplementsCell == Spec => ImplementsCell
<1>1. Spec => []IInv
  BY FilesSafe
<1> QED BY <1>1, CellInit, CellNext, PTL DEF Spec, ImplementsCell, Cell!Spec

-----------------------------------------------------------------------------
(* How the three files are ordered whatever was damaged: a leftover          *)
(* temporary file is newer than the primary, the backup is never the newest, *)
(* and no file is newer than what the process holds.                         *)
Ordered ==
    /\ Valid(primary) /\ Valid(temporary) => primary.generation < temporary.generation
    /\ Valid(backup) /\ Valid(primary) => backup.generation <= primary.generation
    /\ Valid(backup) /\ Valid(temporary) => backup.generation <= temporary.generation
    /\ pc # "down" => /\ Older(primary, state.generation + 1)
                      /\ Older(temporary, state.generation + 1)
                      /\ Older(backup, state.generation + 1)
    /\ pc \in Saving => Older(primary, state.generation)
    /\ pc \in {"backup", "temporary"} => Older(temporary, state.generation)
    /\ pc = "replace" =>
         /\ temporary # Absent
         /\ Valid(temporary) => temporary.generation = state.generation

(* Before any damage the primary is the last save, the backup the one before *)
(* it, and from the backup's writing to the rename both are the last save.   *)
Undamaged ==
    damages = 0 =>
        /\ Torn \notin {primary, temporary, backup}
        /\ kept.previous <= kept.last
        /\ kept.last > 0 => Valid(primary) /\ primary.generation = kept.last
        /\ kept.previous > 0 => Valid(backup) /\ backup.generation >= kept.previous
        /\ kept.last > 0 /\ pc \in {"temporary", "replace"} =>
             Valid(backup) /\ backup.generation = kept.last

(* After one damage the save before the last is still there; and where the   *)
(* damaged file is the one about to be renamed, the last one is the backup.  *)
DamagedOnce ==
    damages = 1 =>
        /\ kept.previous > 0 =>
             Valid(Recoverable) /\ Recoverable.generation >= kept.previous
        /\ pc = "replace" /\ temporary = Torn /\ kept.last > 0 =>
             Valid(backup) /\ backup.generation >= kept.last

TearInv == TypeOK /\ Ordered /\ Undamaged /\ DamagedOnce

LEMMA TearInit == Init => TearInv
BY TypeInit, FilesAssumption
   DEF Init, TearInv, Ordered, Undamaged, DamagedOnce, Valid, Older, Saving

LEMMA OrderedNext == TypeOK /\ Ordered /\ [Next]_vars => Ordered'
<1> SUFFICES ASSUME TypeOK, Ordered, [Next]_vars PROVE Ordered'
  OBVIOUS
<1> USE FilesAssumption DEF Ordered, TypeOK, File, Valid, Saving, Older
<1>1. CASE Create
  BY <1>1 DEF Create, files
<1>2. CASE Load
  BY <1>2 DEF Load, Recoverable, files, Snapshot
<1>3. CASE Change
  BY <1>3 DEF Change, files, Snapshot
<1>4. CASE Save
  BY <1>4 DEF Save, files, Snapshot
<1>5. CASE WriteBackup
  BY <1>5 DEF WriteBackup, Snapshot
<1>6. CASE WriteTemporary
  BY <1>6, SnapshotContent DEF WriteTemporary, Snapshot
<1>7. CASE Replace
  BY <1>7 DEF Replace, Snapshot
<1>8. CASE WriteFails
  BY <1>8 DEF WriteFails, files, Snapshot
<1>9. CASE Crash
  BY <1>9 DEF Crash, files
<1>10. CASE Tear
  BY <1>10 DEF Tear
<1>11. CASE UNCHANGED vars
  BY <1>11 DEF vars, files
<1> QED BY <1>1, <1>2, <1>3, <1>4, <1>5, <1>6, <1>7, <1>8, <1>9, <1>10, <1>11 DEF Next

LEMMA UndamagedNext == TearInv /\ [Next]_vars => Undamaged'
<1> SUFFICES ASSUME TearInv, [Next]_vars, damages' = 0 PROVE Undamaged'
  BY DEF Undamaged
<1>0. damages = 0 /\ TypeOK /\ Ordered /\ Undamaged
  BY DEF TearInv, TypeOK, Next, vars, files, Create, Load, Change, Save, WriteBackup,
         WriteTemporary, Replace, WriteFails, Crash, Tear
<1> USE <1>0, FilesAssumption DEF Ordered, Undamaged, TypeOK, File, Valid, Saving, Older
<1>1. CASE Create
  BY <1>1 DEF Create, files
<1>2. CASE Load
  BY <1>2 DEF Load, Recoverable, files, Snapshot
<1>3. CASE Change
  BY <1>3 DEF Change, files
<1>4. CASE Save
  BY <1>4 DEF Save, files
<1>5. CASE WriteBackup
  BY <1>5 DEF WriteBackup, Snapshot
<1>6. CASE WriteTemporary
  BY <1>6, SnapshotContent DEF WriteTemporary
<1>7. CASE Replace
  BY <1>7 DEF Replace, Snapshot
<1>8. CASE WriteFails
  BY <1>8 DEF WriteFails, files
<1>9. CASE Crash
  BY <1>9 DEF Crash, files
<1>10. CASE Tear
  BY <1>10 DEF Tear
<1>11. CASE UNCHANGED vars
  BY <1>11 DEF vars, files
<1> QED BY <1>1, <1>2, <1>3, <1>4, <1>5, <1>6, <1>7, <1>8, <1>9, <1>10, <1>11 DEF Next

LEMMA DamagedOnceNext == TearInv /\ [Next]_vars => DamagedOnce'
<1> SUFFICES ASSUME TearInv, [Next]_vars, damages' = 1 PROVE DamagedOnce'
  BY DEF DamagedOnce
<1>0. TypeOK /\ Ordered /\ Undamaged /\ DamagedOnce
  BY DEF TearInv
<1> USE <1>0, FilesAssumption
    DEF Ordered, TypeOK, File, Valid, Saving, Older, DamagedOnce
<1>1. CASE Create
  BY <1>1 DEF Create, files, Recoverable
<1>2. CASE Load
  BY <1>2 DEF Load, Recoverable, files
<1>3. CASE Change
  BY <1>3 DEF Change, files, Recoverable
<1>4. CASE Save
  BY <1>4 DEF Save, files, Recoverable
<1>5. CASE WriteBackup
  BY <1>5 DEF WriteBackup, Recoverable
<1>6. CASE WriteTemporary
  BY <1>6, SnapshotContent DEF WriteTemporary, Recoverable, Snapshot
<1>7. CASE Replace
  BY <1>7 DEF Replace, Recoverable, Snapshot
<1>8. CASE WriteFails
  BY <1>8 DEF WriteFails, files, Recoverable
<1>9. CASE Crash
  BY <1>9 DEF Crash, files, Recoverable
<1>10. CASE Tear
  <2>1. damages = 0
    BY <1>10 DEF Tear
  <2> QED BY <1>10, <2>1 DEF Tear, Undamaged, Recoverable, Snapshot
<1>11. CASE UNCHANGED vars
  BY <1>11 DEF vars, files, Recoverable
<1> QED BY <1>1, <1>2, <1>3, <1>4, <1>5, <1>6, <1>7, <1>8, <1>9, <1>10, <1>11 DEF Next

(* One unreadable file costs at most the last save that returned, at         *)
(* whatever step of a save it, a crash or a failed write falls               *)
(* (save_state_atomic, load_state).                                          *)
THEOREM StateStoreOneTear == Spec => []OneTearLosesOneSave
<1>1. Init => TearInv
  BY TearInit
<1>2. TearInv /\ [Next]_vars => TearInv'
  BY TypeNext, OrderedNext, UndamagedNext, DamagedOnceNext DEF TearInv
<1>3. TearInv => OneTearLosesOneSave
  <2> SUFFICES ASSUME TearInv, damages <= 1, kept.previous > 0
               PROVE  Valid(Recoverable) /\ Recoverable.generation >= kept.previous
    BY DEF OneTearLosesOneSave
  <2>1. CASE damages = 1
    BY <2>1 DEF TearInv, DamagedOnce
  <2>2. CASE damages = 0
    BY <2>2, FilesAssumption
       DEF TearInv, TypeOK, File, Ordered, Undamaged, Valid, Recoverable, Snapshot
  <2> QED BY <2>1, <2>2 DEF TearInv, TypeOK
<1> QED BY <1>1, <1>2, <1>3, PTL DEF Spec
=============================================================================
