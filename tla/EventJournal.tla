---------------------------- MODULE EventJournal ----------------------------
(***************************************************************************)
(* The durable event journal of the research scheduler                      *)
(* (stages/research.py): the canonical snapshot coordinator/state.json, the *)
(* immutable files events/<n>.json and issues/issue-<n>.json, the           *)
(* append_event transaction that ties them together, the write-ahead        *)
(* coordinator request, and the recovery and validation at start-up.        *)
(*                                                                          *)
(* One action is the code between two writes to disk, so a crash can fall   *)
(* between any two of them.  atomic_write_json is one step (a temporary     *)
(* file renamed over the target).  A write may also raise, and a handler    *)
(* then goes on with the object in memory.                                  *)
(*                                                                          *)
(* Left out: the assignment files and mailbox.json that persist_scheduler   *)
(* refreshes after the snapshot (views nobody reads back), and the parts of *)
(* the snapshot that no event reports.                                      *)
(***************************************************************************)
EXTENDS Naturals, Sequences, FiniteSets

CONSTANTS
    Report,      \* worker reports that can be accepted
    Fault,       \* distinct contents of an execution issue
    Decision,    \* the change a coordinator decision is
    Absent,      \* no file, no pending event, no pending request
    MaxEvents,   \* bound: event numbers in use
    MaxIssues,   \* bound: issue numbers in use
    MaxCrashes,  \* bound: process deaths
    MaxFaults    \* bound: writes that raise

Change == Report \cup Fault \cup {Decision}

ASSUME ChangeAssumption ==
    /\ Absent \notin Change
    /\ Decision \notin Report \cup Fault
    /\ Report \cap Fault = {}
    /\ {MaxEvents, MaxIssues, MaxCrashes, MaxFaults} \subseteq Nat

VARIABLES
    mem,        \* the ResearchSchedulerState object of the running process
    disk,       \* coordinator/state.json
    eventFile,  \* events/<n>.json
    issueFile,  \* issues/issue-<n>.json
    pc,         \* what the running process does next
    crashes, faults

vars == <<mem, disk, eventFile, issueFile, pc, crashes, faults>>

Numbers == 1..MaxEvents
IssueNumbers == 1..MaxIssues

(* A frozen request: the cursor it covers and the events it shows.          *)
Request == [after : 0..MaxEvents, shown : SUBSET Numbers]

Snapshot ==
    [next    : 1..(MaxEvents + 1),             \* next_event_sequence
     ack     : 0..MaxEvents,                   \* coordinator_ack_event_sequence
     pending : Change \cup {Absent},           \* pending_event
     log     : [Numbers -> Change \cup {Absent}], \* the changes it records
     issues  : Seq(Fault),                     \* execution_issues
     request : Request \cup {Absent}]          \* pending_coordinator_request

FreshSnapshot ==
    [next |-> 1, ack |-> 0, pending |-> Absent,
     log |-> [n \in Numbers |-> Absent], issues |-> <<>>, request |-> Absent]

Init ==
    /\ mem = FreshSnapshot
    /\ disk = FreshSnapshot
    /\ eventFile = [n \in Numbers |-> Absent]
    /\ issueFile = [n \in IssueNumbers |-> Absent]
    /\ pc = "down"
    /\ crashes = 0
    /\ faults = 0

-----------------------------------------------------------------------------
(* _atomic_write_immutable_json: a file that is already there is accepted   *)
(* only with the same content.                                              *)
Writable(file, content) == file \in {Absent, content}

(* The head of append_event, on the snapshot in memory s: the event gets    *)
(* the next number and becomes pending.                                     *)
WithEvent(s, c) ==
    [s EXCEPT !.log[s.next] = c, !.pending = c, !.next = s.next + 1]

(* recent_events: the event files after the acknowledgement.                *)
Unacknowledged == {n \in Numbers : n > mem.ack /\ eventFile[n] # Absent}

(* Mutant of Load: a pending event is not finished at start-up.             *)
LoadWithoutRecovery ==
    /\ pc = "down"
    /\ mem' = disk
    /\ pc' = "validate"
    /\ UNCHANGED <<disk, eventFile, issueFile, crashes, faults>>

-----------------------------------------------------------------------------
(* Start-up: load the snapshot, finish a pending event, validate.           *)
Load ==
    /\ pc = "down"
    /\ mem' = disk
    /\ pc' = IF disk.pending = Absent THEN "validate" ELSE "finish"
    /\ UNCHANGED <<disk, eventFile, issueFile, crashes, faults>>

FinishPending ==
    /\ pc = "finish"
    /\ LET n == mem.next - 1 IN
       IF Writable(eventFile[n], mem.pending)
       THEN /\ eventFile' = [eventFile EXCEPT ![n] = mem.pending]
            /\ pc' = "clear"
       ELSE /\ pc' = "corrupt"
            /\ UNCHANGED eventFile
    /\ UNCHANGED <<mem, disk, issueFile, crashes, faults>>

ClearPending ==
    /\ pc = "clear"
    /\ mem' = [mem EXCEPT !.pending = Absent]
    /\ disk' = mem'
    /\ pc' = "validate"
    /\ UNCHANGED <<eventFile, issueFile, crashes, faults>>

(* The checks of the event stream against the snapshot.  The event number   *)
(* and the hashes inside a file are its content here.                       *)
StreamAccepted ==
    /\ {n \in Numbers : eventFile[n] # Absent} = 1..(mem.next - 1)
    /\ mem.ack < mem.next

Validate ==
    /\ pc = "validate"
    /\ pc' = IF StreamAccepted THEN "idle" ELSE "corrupt"
    /\ UNCHANGED <<mem, disk, eventFile, issueFile, crashes, faults>>

-----------------------------------------------------------------------------
(* The tail of append_event and of persist_scheduler.                       *)
WriteSnapshot ==
    /\ pc = "snapshot"
    /\ disk' = mem
    /\ pc' = IF mem.pending = Absent THEN "idle" ELSE "event"
    /\ UNCHANGED <<mem, eventFile, issueFile, crashes, faults>>

(* Mutant of WriteEvent: the pending event is never cleared.                *)
WriteEventKeepsPending ==
    /\ pc = "event"
    /\ Writable(eventFile[mem.next - 1], mem.pending)
    /\ eventFile' = [eventFile EXCEPT ![mem.next - 1] = mem.pending]
    /\ pc' = "snapshot"
    /\ UNCHANGED <<mem, disk, issueFile, crashes, faults>>

WriteEvent ==
    /\ pc = "event"
    /\ LET n == mem.next - 1 IN
       IF Writable(eventFile[n], mem.pending)
       THEN /\ eventFile' = [eventFile EXCEPT ![n] = mem.pending]
            /\ mem' = [mem EXCEPT !.pending = Absent]
            /\ pc' = "snapshot"
       ELSE /\ pc' = "refused"
            /\ UNCHANGED <<eventFile, mem>>
    /\ UNCHANGED <<disk, issueFile, crashes, faults>>

(* A write of append_event raises (no space, I/O error).  The snapshot in   *)
(* memory stays as it is, and a handler above the call records an issue     *)
(* (collect_tasks) or collects the other workers and persists before the    *)
(* error leaves the stage (the last handler of the main loop).              *)
WriteFails ==
    /\ pc \in {"snapshot", "event"}
    /\ faults < MaxFaults
    /\ faults' = faults + 1
    /\ pc' = "handling"
    /\ UNCHANGED <<mem, disk, eventFile, issueFile, crashes>>

PersistInHandler ==
    /\ pc = "handling"
    /\ disk' = mem
    /\ UNCHANGED <<mem, eventFile, issueFile, pc, crashes, faults>>

-----------------------------------------------------------------------------
(* Operations of the scheduler.                                             *)

(* Mutants of AcceptReport: a report already accepted is accepted again;    *)
(* the event file is written before the snapshot.                           *)
AcceptReportAgain(r) ==
    /\ pc \in {"idle", "handling"}
    /\ mem.next \in Numbers
    /\ mem' = WithEvent(mem, r)
    /\ pc' = "snapshot"
    /\ UNCHANGED <<disk, eventFile, issueFile, crashes, faults>>

AcceptReportEventFirst(r) ==
    /\ pc \in {"idle", "handling"}
    /\ mem.next \in Numbers
    /\ \A n \in Numbers : mem.log[n] # r
    /\ mem' = WithEvent(mem, r)
    /\ pc' = "event"
    /\ UNCHANGED <<disk, eventFile, issueFile, crashes, faults>>

(* accept_worker_result: a report not yet in the snapshot.                  *)
AcceptReport(r) ==
    /\ pc \in {"idle", "handling"}
    /\ mem.next \in Numbers
    /\ \A n \in Numbers : mem.log[n] # r
    /\ mem' = WithEvent(mem, r)
    /\ pc' = "snapshot"
    /\ UNCHANGED <<disk, eventFile, issueFile, crashes, faults>>

(* record_execution_issue: the issue file, named by the length of the list  *)
(* in memory, is written before anything else.                              *)
RecordIssue(f) ==
    /\ pc \in {"idle", "handling"}
    /\ mem.next \in Numbers
    /\ Len(mem.issues) < MaxIssues
    /\ LET n == Len(mem.issues) + 1 IN
       IF Writable(issueFile[n], f)
       THEN /\ issueFile' = [issueFile EXCEPT ![n] = f]
            /\ mem' = WithEvent([mem EXCEPT !.issues = Append(@, f)], f)
            /\ pc' = "snapshot"
       ELSE /\ pc' = "refused"
            /\ UNCHANGED <<issueFile, mem>>
    /\ UNCHANGED <<disk, eventFile, crashes, faults>>

(* request_coordinator_decision: the request is frozen in the snapshot      *)
(* before it is sent.                                                       *)
FreezeRequest ==
    /\ pc = "idle"
    /\ mem.request = Absent
    /\ mem' = [mem EXCEPT !.request =
                 [after |-> mem.next - 1, shown |-> Unacknowledged]]
    /\ pc' = "snapshot"
    /\ UNCHANGED <<disk, eventFile, issueFile, crashes, faults>>

(* Mutants of Decide: the acknowledgement moves to the present cursor; it   *)
(* covers the decision's own event.                                         *)
DecideAtPresentCursor ==
    /\ pc = "idle"
    /\ mem.request # Absent
    /\ mem.next \in Numbers
    /\ mem' = WithEvent([mem EXCEPT !.ack = mem.next - 1,
                                    !.request = Absent], Decision)
    /\ pc' = "snapshot"
    /\ UNCHANGED <<disk, eventFile, issueFile, crashes, faults>>

DecideOverItself ==
    /\ pc = "idle"
    /\ mem.request # Absent
    /\ mem.next \in Numbers
    /\ mem' = WithEvent([mem EXCEPT !.ack = mem.next,
                                    !.request = Absent], Decision)
    /\ pc' = "snapshot"
    /\ UNCHANGED <<disk, eventFile, issueFile, crashes, faults>>

(* The answer: the acknowledgement moves to the frozen cursor, not to the   *)
(* present one, in the same transaction as the decision's event.            *)
Decide ==
    /\ pc = "idle"
    /\ mem.request # Absent
    /\ mem.next \in Numbers
    /\ mem' = WithEvent([mem EXCEPT !.ack = mem.request.after,
                                    !.request = Absent], Decision)
    /\ pc' = "snapshot"
    /\ UNCHANGED <<disk, eventFile, issueFile, crashes, faults>>

(* The process dies, or the stage fails and a later `matek resume` starts   *)
(* it again: only the files are left.                                       *)
Crash ==
    /\ pc # "down"
    /\ crashes < MaxCrashes
    /\ crashes' = crashes + 1
    /\ pc' = "down"
    /\ mem' = FreshSnapshot
    /\ UNCHANGED <<disk, eventFile, issueFile, faults>>

Startup == Load \/ FinishPending \/ ClearPending \/ Validate

Writing == WriteSnapshot \/ WriteEvent

Operation ==
    \/ \E r \in Report : AcceptReport(r)
    \/ \E f \in Fault : RecordIssue(f)
    \/ FreezeRequest
    \/ Decide

Failure == WriteFails \/ PersistInHandler \/ Crash

Next == Startup \/ Writing \/ Operation \/ Failure

Spec == Init /\ [][Next]_vars

(* The running process executes its own straight-line code; nothing is      *)
(* assumed of workers, of the provider or of the user who resumes a run.    *)
Fairness == WF_vars(FinishPending \/ ClearPending \/ Validate) /\ WF_vars(Writing)

FairSpec == Spec /\ Fairness

-----------------------------------------------------------------------------
(* Every variable keeps its type. *)
TypeOK ==
    /\ mem \in Snapshot
    /\ disk \in Snapshot
    /\ eventFile \in [Numbers -> Change \cup {Absent}]
    /\ issueFile \in [IssueNumbers -> Fault \cup {Absent}]
    /\ pc \in {"down", "finish", "clear", "validate", "idle", "snapshot",
               "event", "handling", "corrupt", "refused"}
    /\ crashes \in 0..MaxCrashes
    /\ faults \in 0..MaxFaults

(* "A crash may leave the canonical scheduler snapshot one event ahead, but *)
(* never vice versa" (research.py, start-up): as long as no write has       *)
(* raised, at every instant the event files are exactly the events of the   *)
(* snapshot on disk, in its order and with its content, except that the     *)
(* last one may be missing while the snapshot still carries it as pending.  *)
SnapshotOneAhead ==
    faults = 0 => \A n \in Numbers :
        \/ eventFile[n] = IF n < disk.next THEN disk.log[n] ELSE Absent
        \/ /\ n = disk.next - 1
           /\ disk.pending = disk.log[n]
           /\ eventFile[n] = Absent

(* Replay after an interruption is idempotent: no report is published under *)
(* two event numbers, however often the process died, or a write raised,    *)
(* while it was accepted.                                                   *)
ReportPublishedOnce ==
    \A r \in Report :
        Cardinality({n \in Numbers : eventFile[n] = r}) <= 1

(* As long as no write has raised, the start-up validation never finds the  *)
(* stream it wrote itself corrupt.                                          *)
ResumeAccepted == faults = 0 => pc # "corrupt"

(* An issue the durable snapshot lists has its evidence file, unchanged,    *)
(* whatever dies or fails.                                                  *)
IssueHasEvidence ==
    \A n \in 1..Len(disk.issues) : issueFile[n] = disk.issues[n]

(* The stage as it stops when a recoverable failure cannot be recorded:     *)
(* ARCHITECTURE.md says such failures "are assignment or audit events, not  *)
(* scheduler-wide exceptions".                                              *)
FailureIsRecordable == pc # "refused"

(* A decision acknowledges exactly the events its frozen request showed, so *)
(* none is acknowledged unseen, also when events were published or the      *)
(* process died between the request and the answer (no write having raised).*)
AckOnlyShown ==
    [][faults' = 0 /\ disk'.ack # disk.ack =>
         /\ disk.request # Absent
         /\ disk'.ack = disk.request.after
         /\ (disk.ack + 1)..disk'.ack = disk.request.shown]_vars

(* A pending event becomes visible and is cleared, as long as somebody      *)
(* keeps resuming the run and no write raises.                              *)
PendingIsPublished ==
    [](faults = 0) /\ []<>(pc # "down")
        => (disk.pending # Absent ~> disk.pending = Absent)

(* The journal implements the promised event stream, until a write raises.  *)
Stream == INSTANCE EventStream
    WITH log <- disk.log, next <- disk.next, stream <- eventFile,
         acked <- disk.ack, broken <- faults > 0

ImplementsStream == Stream!Spec
=============================================================================
