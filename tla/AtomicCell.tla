---------------------------- MODULE AtomicCell ----------------------------
(***************************************************************************)
(* What the run-state file promises to the application (state.py): one      *)
(* durable cell.  A save takes effect at one instant, a save that returned  *)
(* has taken effect, and start-up reads the cell.  The promise is off once  *)
(* the medium has damaged a file.                                           *)
(***************************************************************************)
CONSTANTS Content,   \* what a RunState says
          Redacted,  \* redact_data on it
          None

VARIABLES durable,  \* what start-up would read
          held,     \* the RunState of the running process
          phase,    \* down, idle or saving
          intact    \* no file has been damaged

cell == <<durable, held, phase, intact>>

Init == durable = None /\ held = None /\ phase = "down" /\ intact = TRUE

Create == /\ phase = "down" /\ durable = None
          /\ held' \in Content /\ phase' = "saving"
          /\ UNCHANGED durable

Load == /\ phase = "down" /\ durable # None
        /\ held' = durable /\ phase' \in {"idle", "saving"}
        /\ UNCHANGED durable

Change == phase = "idle" /\ held' \in Content /\ UNCHANGED <<durable, phase>>

Save == phase = "idle" /\ phase' = "saving" /\ UNCHANGED <<durable, held>>

Commit == phase = "saving" /\ durable' = Redacted[held] /\ UNCHANGED <<held, phase>>

Return == /\ phase = "saving" /\ durable = Redacted[held]
          /\ phase' = "idle" /\ UNCHANGED <<durable, held>>

Fail == /\ phase = "saving"
        /\ \/ phase' = "idle" /\ UNCHANGED held
           \/ phase' = "down" /\ held' = None
        /\ UNCHANGED durable

Crash == phase # "down" /\ phase' = "down" /\ held' = None /\ UNCHANGED durable

Intact == /\ intact /\ intact' = TRUE
          /\ \/ Create \/ Load \/ Change \/ Save \/ Commit \/ Return \/ Fail \/ Crash

Damaged == intact' = FALSE

Next == Intact \/ Damaged

Spec == Init /\ [][Next]_cell
=============================================================================
