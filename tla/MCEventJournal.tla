--------------------------- MODULE MCEventJournal ---------------------------
(* Instance of EventJournal for TLC.  No symmetry: the run checks liveness.  *)
EXTENDS EventJournal
=============================================================================
