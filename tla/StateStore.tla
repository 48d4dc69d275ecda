---------------------------- MODULE StateStore ----------------------------
(***************************************************************************)
(* The run-state file (state.py): save_state_atomic and load_state over     *)
(* state.json, state.json.tmp and state.json.bak.  One action is one write  *)
(* or rename; each is atomic (workspace.py, atomic_write_bytes), the process *)
(* can die or the write can raise between any two of them, and the medium   *)
(* can leave a file unreadable.  The run lock keeps a second process out.   *)
(***************************************************************************)
EXTENDS Naturals

CONSTANTS
    Content,        \* what a RunState says
    Redacted,       \* redact_data on it
    None, Absent,   \* no state; no file
    Torn,           \* a file _parse_state_bytes rejects
    MaxGeneration,  \* bound: checkpoint_generation
    MaxCrashes,     \* bound: process deaths
    MaxDamage       \* bound: files torn

ASSUME ContentAssumption ==
    /\ Redacted \in [Content -> Content]
    /\ \A c \in Content : Redacted[Redacted[c]] = Redacted[c]
    /\ None \notin Content
    /\ {MaxGeneration, MaxCrashes, MaxDamage} \subseteq Nat

Snapshot == [generation : Nat, content : Content]

ASSUME FilesAssumption ==
    Absent \notin Snapshot /\ Torn \notin Snapshot /\ Absent # Torn

VARIABLES
    primary, temporary, backup,  \* state.json, state.json.tmp, state.json.bak
    state,    \* the RunState object of the running process
    pc,       \* what the process does next
    opening,  \* the save under way is the one intake or load_state makes
    kept,     \* history: generations of the last two saves that returned
              \* (it starts again when recovery fell back to a lower one)
    crashes, damages

files == <<primary, temporary, backup>>
vars == <<files, state, pc, opening, kept, crashes, damages>>

Saving == {"backup", "temporary", "replace"}

Init ==
    /\ primary = Absent /\ temporary = Absent /\ backup = Absent
    /\ state \in [generation : {0}, content : Content]
    /\ pc = "down" /\ opening = FALSE
    /\ kept = [last |-> 0, previous |-> 0]
    /\ crashes = 0 /\ damages = 0

Valid(file) == file \in Snapshot

(* load_state: the readable file of the greatest generation among the       *)
(* primary, which wins a tie, and the temporary; else the backup.           *)
Recoverable ==
    IF Valid(primary)
       /\ (Valid(temporary) => temporary.generation <= primary.generation) THEN primary
    ELSE IF Valid(temporary) THEN temporary
    ELSE IF Valid(backup) THEN backup
    ELSE Absent

-----------------------------------------------------------------------------
(* intake.py saves the first state of a run.                                *)
Create ==
    /\ pc = "down" /\ files = <<Absent, Absent, Absent>>
    /\ state' \in [generation : {1}, content : Content]
    /\ pc' = "backup" /\ opening' = TRUE
    /\ UNCHANGED <<files, kept, crashes, damages>>

(* load_state: anything but the primary is saved again as the primary.      *)
Load ==
    /\ pc = "down" /\ Recoverable # Absent
    /\ IF Recoverable = primary
       THEN state' = primary /\ pc' = "idle" /\ opening' = FALSE
       ELSE /\ Recoverable.generation < MaxGeneration
            /\ state' = [Recoverable EXCEPT !.generation = @ + 1]
            /\ pc' = "backup" /\ opening' = TRUE
    /\ UNCHANGED <<files, kept, crashes, damages>>

(* The application changes the state it holds, and saves it.                *)
Change ==
    /\ pc = "idle"
    /\ \E c \in Content : state' = [state EXCEPT !.content = c]
    /\ UNCHANGED <<files, pc, opening, kept, crashes, damages>>

Save ==
    /\ pc = "idle" /\ state.generation < MaxGeneration
    /\ state' = [state EXCEPT !.generation = @ + 1]
    /\ pc' = "backup" /\ opening' = FALSE
    /\ UNCHANGED <<files, kept, crashes, damages>>

(* Mutant of WriteBackup: whatever the primary is becomes the backup.       *)
WriteBackupUnchecked ==
    /\ pc = "backup"
    /\ backup' = IF primary # Absent THEN primary ELSE backup
    /\ pc' = "temporary"
    /\ UNCHANGED <<primary, temporary, state, opening, kept, crashes, damages>>

(* save_state_atomic: a primary that can be read becomes the backup,        *)
WriteBackup ==
    /\ pc = "backup"
    /\ backup' = IF Valid(primary) THEN primary ELSE backup
    /\ pc' = "temporary"
    /\ UNCHANGED <<primary, temporary, state, opening, kept, crashes, damages>>

(* Mutant of WriteTemporary: what is written is not redacted.               *)
WriteTemporaryPlain ==
    /\ pc = "temporary"
    /\ temporary' = state
    /\ pc' = "replace"
    /\ UNCHANGED <<primary, backup, state, opening, kept, crashes, damages>>

(* the redacted state is written beside it,                                 *)
WriteTemporary ==
    /\ pc = "temporary"
    /\ temporary' = [state EXCEPT !.content = Redacted[@]]
    /\ pc' = "replace"
    /\ UNCHANGED <<primary, backup, state, opening, kept, crashes, damages>>

(* and renamed over it.                                                     *)
Replace ==
    /\ pc = "replace"
    /\ primary' = temporary /\ temporary' = Absent
    /\ pc' = "idle" /\ opening' = FALSE
    /\ kept' = [last |-> state.generation,
                previous |-> IF kept.last < state.generation THEN kept.last ELSE 0]
    /\ UNCHANGED <<backup, state, crashes, damages>>

(* A write raises: a process that is just opening the run ends, another one *)
(* goes on with the state it holds.                                         *)
WriteFails ==
    /\ pc \in Saving
    /\ pc' = IF opening THEN "down" ELSE "idle"
    /\ opening' = FALSE
    /\ UNCHANGED <<files, state, kept, crashes, damages>>

Crash ==
    /\ pc # "down" /\ crashes < MaxCrashes
    /\ crashes' = crashes + 1
    /\ pc' = "down" /\ opening' = FALSE
    /\ UNCHANGED <<files, state, kept, damages>>

(* The medium loses the content of one file.                                *)
Tear ==
    /\ damages < MaxDamage
    /\ damages' = damages + 1
    /\ \/ Valid(primary) /\ primary' = Torn /\ UNCHANGED <<temporary, backup>>
       \/ Valid(temporary) /\ temporary' = Torn /\ UNCHANGED <<primary, backup>>
       \/ Valid(backup) /\ backup' = Torn /\ UNCHANGED <<primary, temporary>>
    /\ UNCHANGED <<state, pc, opening, kept, crashes>>

Next == \/ Create \/ Load \/ Change \/ Save
        \/ WriteBackup \/ WriteTemporary \/ Replace
        \/ WriteFails \/ Crash \/ Tear

Spec == Init /\ [][Next]_vars

-----------------------------------------------------------------------------
File == Snapshot \cup {Absent, Torn}

(* The type of the state.                                                   *)
TypeOK ==
    /\ primary \in File /\ temporary \in File /\ backup \in File
    /\ state \in Snapshot
    /\ pc \in {"down", "idle"} \cup Saving
    /\ opening \in BOOLEAN
    /\ kept \in [last : Nat, previous : Nat]
    /\ crashes \in Nat /\ damages \in Nat

(* A single unreadable file costs at most the last save that returned, at   *)
(* whatever step of whatever save it, a crash or a failed write falls       *)
(* (test_load_recovers_last_good_backup).                                   *)
OneTearLosesOneSave ==
    damages <= 1 /\ kept.previous > 0 =>
        Valid(Recoverable) /\ Recoverable.generation >= kept.previous

(* The three files are one durable cell as long as none is damaged.         *)
Cell == INSTANCE AtomicCell WITH
            durable <- IF Valid(Recoverable) THEN Recoverable.content ELSE None,
            held <- IF pc = "down" THEN None ELSE state.content,
            phase <- IF pc \in Saving THEN "saving" ELSE pc,
            intact <- damages = 0

ImplementsCell == Cell!Spec
=============================================================================
