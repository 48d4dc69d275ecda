------------------------- MODULE ResearchScheduler -------------------------
(***************************************************************************)
(* The actor loop of adaptive research (stages/research.py,                 *)
(* run_adaptive_research): a single asyncio task that buys coordinator      *)
(* decisions, launches worker tasks, collects their results, arbitrates     *)
(* claimed refutations of the target, puts candidate proofs through the     *)
(* independent gate, and ends, pauses or is interrupted and resumed.        *)
(*                                                                          *)
(* An action is the code between two awaits: while the loop awaits one      *)
(* thing the workers finish others.  Every action ends at a persist, so a   *)
(* crash loses the tasks and the place in the code and nothing else; the    *)
(* module EventJournal has the windows inside one persist.                  *)
(*                                                                          *)
(* Left out: lemma audits, scientific phases, graph and call accounting     *)
(* (running out of calls is a possible answer of an awaited call), and      *)
(* raced_candidate_report_ids (accept_worker_result has deferred the same   *)
(* reports already).                                                        *)
(***************************************************************************)
EXTENDS Naturals, Sequences, FiniteSets, SequencesExt

CONSTANTS
    MaxAssignments,   \* bound: assignments ever admitted
    MinInitial,       \* minimum_initial_assignments
    MaxConcurrent,    \* maximum_concurrent_agents
    MaxOpen,          \* maximum_pending_assignments
    MaxDecisions,     \* maximum_coordinator_decisions
    Limited,          \* whether maximum_calls is finite
    MaxStarts,        \* bound: start-ups of the process
    MaxRaises         \* bound: awaited calls that raise

ASSUME BoundsAssumption ==
    /\ {MaxAssignments, MinInitial, MaxStarts, MaxRaises} \subseteq Nat
    /\ {MaxConcurrent, MaxOpen, MaxDecisions} \subseteq Nat \ {0}
    /\ MinInitial \in 1..MaxOpen
    /\ Limited \in BOOLEAN

VARIABLES
    pool,       \* scheduler.assignments, with report and refutation verdict
    decisions,  \* scheduler.decisions: the outcome each one stops with
    request,    \* whether a pending_coordinator_request is frozen
    due,        \* an event after the last cursor asks for a decision
    pending,    \* pending_candidate_report_ids
    deferred,   \* deferred_candidate_report_ids
    attempt,    \* active_candidate_attempt
    attempted,  \* attempted_candidate_report_sets
    stop,       \* stop_reason and stop_category, as the outcome they give
    final,      \* final_outcome
    task,       \* active: the asyncio task of each assignment
    pc, aim,    \* the await the loop is at, and what follows a collection
    goal,       \* the outcome finish was called with
    batch,      \* tasks left to collect, or refutations left to arbitrate
    current,    \* the assignment whose refutation is being audited, or 0
    issues,     \* categories of the execution issues of this collection
    starts, raises

work == <<pool, decisions, request, due>>
candidates == <<pending, deferred, attempt, attempted>>
outcome == <<stop, final>>
volatile == <<task, pc, aim, goal, batch, current, issues>>
vars == <<work, candidates, outcome, volatile, starts, raises>>

Ids == 1..MaxAssignments
Assignments == DOMAIN pool
Outcome == {"accepted", "rejected", "partial", "budget_exhausted"}
Stopped == {"down", "paused", "ended"}
NoAttempt == [reports |-> {}, result |-> "none"]

Fresh == [status |-> "queued", launched |-> FALSE, repaired |-> FALSE,
          report |-> "none", audit |-> "none"]

WithStatus(s) == {a \in Assignments : pool[a].status = s}
Open == WithStatus("queued") \cup WithStatus("running")
Active == {a \in Ids : task[a] # "none"}
Done == {a \in Ids : task[a] \notin {"none", "working"}}
Smallest(S) == CHOOSE a \in S : \A b \in S : a <= b

(* unresolved_exact_counterexample_obligations: a claimed refutation of the *)
(* target that no complete audit has answered.                              *)
Unresolved == {a \in Assignments : /\ pool[a].report = "refutation"
                                   /\ pool[a].audit \in {"none", "blocked"}}

Init ==
    /\ pool = <<>> /\ decisions = <<>> /\ request = FALSE /\ due = FALSE
    /\ pending = {} /\ deferred = <<>> /\ attempt = NoAttempt /\ attempted = {}
    /\ stop = "none" /\ final = "none"
    /\ task = [a \in Ids |-> "none"]
    /\ pc = "down" /\ aim = "none" /\ goal = "none"
    /\ batch = {} /\ current = 0 /\ issues = {}
    /\ starts = 0 /\ raises = 0

-----------------------------------------------------------------------------
(* Moving records of one status to another.                                 *)
Moved(records, from, to) ==
    [a \in DOMAIN records |->
        IF records[a].status = from THEN [records[a] EXCEPT !.status = to]
                                    ELSE records[a]]

(* release_unlaunched_worker_request: queued work that never ran is retired. *)
UnlaunchedRetired ==
    [a \in Assignments |->
        IF pool[a].status = "queued" /\ ~pool[a].launched
        THEN [pool[a] EXCEPT !.status = "retired"] ELSE pool[a]]

(* Task.cancel on the tasks of S: a task that is done keeps its result.     *)
Cancelled(S) ==
    [a \in Ids |-> IF a \in S /\ task[a] = "working" THEN "cancelled" ELSE task[a]]

(* Collect the tasks of S, and go on with a.                                *)
Collect(S, a) ==
    /\ batch' = S /\ aim' = a /\ pc' = "collect"
    /\ current' = 0 /\ issues' = {}

(* finish and pause_retriable first cancel and collect every active task.   *)
EnterFinish(o) == Collect(Active, "finish") /\ task' = Cancelled(Ids) /\ goal' = o
EnterPause == Collect(Active, "pause") /\ task' = Cancelled(Ids) /\ goal' = "none"

Goto(label) == pc' = label /\ UNCHANGED <<task, aim, goal, batch, current, issues>>

(* The head of request_coordinator_decision: the frozen request is durable. *)
AskCoordinator ==
    /\ request' = TRUE
    /\ due' = FALSE
    /\ Goto("coordinator")

-----------------------------------------------------------------------------
(* Mutant of Start: running work is not queued again.                       *)
StartStillRunning ==
    /\ pc \in Stopped /\ starts < MaxStarts
    /\ starts' = starts + 1
    /\ task' = [a \in Ids |-> "none"]
    /\ goal' = "none" /\ issues' = {} /\ current' = 0 /\ batch' = {} /\ aim' = "none"
    /\ pc' = IF final # "none" THEN "conclude"
             ELSE IF decisions = <<>> THEN "initial"
             ELSE "reconcile"
    /\ UNCHANGED <<work, candidates, outcome, raises>>

(* Start-up on the durable state.  A worker that was running is queued      *)
(* again, and its identical request is reissued.                            *)
Start ==
    /\ pc \in Stopped /\ starts < MaxStarts
    /\ starts' = starts + 1
    /\ pool' = Moved(pool, "running", "queued")
    /\ task' = [a \in Ids |-> "none"]
    /\ goal' = "none" /\ issues' = {} /\ current' = 0 /\ batch' = {} /\ aim' = "none"
    /\ pc' = IF final # "none" THEN "conclude"
             ELSE IF decisions = <<>> THEN "initial"
             ELSE "reconcile"
    /\ UNCHANGED <<decisions, request, due, candidates, outcome, raises>>

(* A terminal outcome is already durable: finish again.                     *)
Conclude ==
    /\ pc = "conclude"
    /\ EnterFinish(final)
    /\ UNCHANGED <<work, candidates, outcome, starts, raises>>

(* The first decision; a call budget that cannot fund it ends the run.      *)
RequestInitial ==
    /\ pc = "initial"
    /\ IF ~request
       THEN AskCoordinator /\ UNCHANGED <<pool, decisions>>
       ELSE Goto("coordinator") /\ UNCHANGED work
    /\ UNCHANGED <<candidates, outcome, starts, raises>>

Underfunded ==
    /\ pc = "initial" /\ ~request /\ Limited
    /\ EnterFinish("budget_exhausted")
    /\ UNCHANGED <<work, candidates, outcome, starts, raises>>

(* A verified refutation that a crash left unpromoted is promoted first.    *)
Reconcile ==
    /\ pc = "reconcile"
    /\ LET verified == {a \in Assignments : pool[a].audit = "verified"} IN
       /\ IF verified # {} THEN current' = Smallest(verified) /\ batch' = {}
                           ELSE current' = 0 /\ batch' = Unresolved
       /\ pc' = "arbitrate"
    /\ UNCHANGED <<work, candidates, outcome, task, aim, goal, issues, starts, raises>>

-----------------------------------------------------------------------------
(* What the loop can be awaiting.  A promotion awaits nothing.              *)
Awaiting == \/ pc \in {"wait", "coordinator", "evaluate"}
            \/ current # 0 /\ pool[current].audit # "verified"

(* collect_tasks also yields to the other tasks when it gathers its batch.  *)
Yields == Awaiting \/ (pc = "collect" /\ batch # {})

(* A worker task returns a report or raises, while the loop awaits          *)
(* something.                                                               *)
Answer == {"partial", "candidate", "refutation", "failed", "exhausted"}

WorkerReturns ==
    /\ Yields
    /\ \E a \in Ids, r \in Answer :
        /\ task[a] = "working"
        /\ task' = [task EXCEPT ![a] = r]
    /\ UNCHANGED <<work, candidates, outcome, pc, aim, goal, batch, current, issues,
                   starts, raises>>

(* Mutant of AcceptReport: a candidate that finishes while another is under *)
(* way is not deferred.                                                     *)
AcceptReportForgotten(a, r) ==
    /\ pool' = [pool EXCEPT ![a].status = "completed", ![a].report = r]
    /\ due' = TRUE
    /\ pending' = IF r = "candidate" /\ final = "none" /\ {a} \notin attempted
                      /\ pending = {} /\ attempt = NoAttempt
                  THEN {a} ELSE pending
    /\ current' = IF r = "refutation" THEN a ELSE 0
    /\ UNCHANGED <<issues, deferred, attempt, attempted>>

(* accept_worker_result: a candidate proof becomes pending when none is     *)
(* under way, and is deferred otherwise.                                    *)
AcceptReport(a, r) ==
    /\ pool' = [pool EXCEPT ![a].status = "completed", ![a].report = r]
    /\ due' = TRUE
    /\ LET next == r = "candidate" /\ final = "none" /\ {a} \notin attempted
                       /\ a \notin attempt.reports
           idle == pending = {} /\ attempt = NoAttempt IN
       /\ pending' = IF next /\ idle THEN {a} ELSE pending
       /\ deferred' = IF next /\ ~idle /\ ~Contains(deferred, a)
                      THEN Append(deferred, a) ELSE deferred
    /\ current' = IF r = "refutation" THEN a ELSE 0
    /\ UNCHANGED <<issues, attempt, attempted>>

(* A cancelled worker keeps its retirement, and is otherwise queued again   *)
(* only by a pause or a failure.                                            *)
DropCancelled(a) ==
    /\ pool' = IF pool[a].status = "retired" THEN pool
               ELSE [pool EXCEPT ![a].status =
                        IF aim \in {"pause", "raise"} THEN "queued" ELSE "cancelled"]
    /\ current' = 0
    /\ UNCHANGED <<due, issues, candidates>>

(* Mutant of FailWorker: the repair generation is not bounded.              *)
FailWorkerUnbounded(a, r) ==
    /\ pool' = IF pool[a].status = "retired" THEN pool
               ELSE IF r = "failed"
               THEN [pool EXCEPT ![a].status = "queued", ![a].repaired = TRUE]
               ELSE [pool EXCEPT ![a].status = "retired"]
    /\ due' = TRUE
    /\ issues' = issues \cup {r}
    /\ current' = 0
    /\ UNCHANGED candidates

(* A failed worker gets one repair generation; running out of resources     *)
(* gets none.                                                               *)
FailWorker(a, r) ==
    /\ pool' = IF pool[a].status = "retired" THEN pool
               ELSE IF r = "failed" /\ ~pool[a].repaired
               THEN [pool EXCEPT ![a].status = "queued", ![a].repaired = TRUE]
               ELSE [pool EXCEPT ![a].status = "retired"]
    /\ due' = TRUE
    /\ issues' = issues \cup {r}
    /\ current' = 0
    /\ UNCHANGED candidates

CollectOne ==
    /\ pc = "collect" /\ batch # {} /\ current = 0
    /\ LET a == Smallest(batch)
           r == task[a] IN
       /\ batch' = batch \ {a}
       /\ task' = [task EXCEPT ![a] = "none"]
       /\ IF r \in {"partial", "candidate", "refutation"} THEN AcceptReport(a, r)
          ELSE IF r = "cancelled" THEN DropCancelled(a)
          ELSE FailWorker(a, r)
    /\ UNCHANGED <<decisions, request, outcome, pc, aim, goal, starts, raises>>

-----------------------------------------------------------------------------
(* run_counterexample_audit answers; the verdict is durable before it is    *)
(* promoted.                                                                *)
AuditReturns ==
    /\ current # 0 /\ pool[current].audit # "verified"
    /\ \E v \in {"verified", "failed", "blocked"} :
        /\ pool' = [pool EXCEPT ![current].audit = v]
        /\ current' = IF v = "verified" THEN current ELSE 0
    /\ UNCHANGED <<decisions, request, due, candidates, outcome, task, pc, aim, goal,
                   batch, issues, starts, raises>>

(* A failed audit after a collected report is only an issue.                *)
AuditFails ==
    /\ pc = "collect" /\ current # 0 /\ pool[current].audit # "verified"
    /\ current' = 0
    /\ issues' = issues \cup {"evidence"}
    /\ UNCHANGED <<work, candidates, outcome, task, pc, aim, goal, batch, starts, raises>>

(* promote_exact_counterexample: nothing checks the outcome so far.         *)
Promote ==
    /\ current # 0 /\ pool[current].audit = "verified"
    /\ final' = "rejected" /\ stop' = "none"
    /\ current' = 0
    /\ batch' = IF pc = "arbitrate" THEN {} ELSE batch
    /\ UNCHANGED <<work, candidates, task, pc, aim, goal, issues, starts, raises>>

(* audit_all_admitted_exact_counterexamples, and what follows it.           *)
ArbitrateNext ==
    /\ pc = "arbitrate" /\ current = 0 /\ batch # {}
    /\ current' = Smallest(batch)
    /\ batch' = batch \ {Smallest(batch)}
    /\ UNCHANGED <<work, candidates, outcome, task, pc, aim, goal, issues, starts, raises>>

ArbitrateEnd ==
    /\ pc = "arbitrate" /\ current = 0 /\ batch = {}
    /\ IF final = "rejected" THEN EnterFinish("rejected")
       ELSE IF Unresolved # {} THEN EnterPause
       ELSE Goto("loop")
    /\ UNCHANGED <<work, candidates, outcome, starts, raises>>

-----------------------------------------------------------------------------
(* The deferred candidates not attempted yet, by their place in the list,   *)
(* and the first of them (next over deferred_candidate_report_ids).         *)
Waiting == {i \in DOMAIN deferred : {deferred[i]} \notin attempted}
NextWaiting == IF Waiting = {} THEN {} ELSE {deferred[Smallest(Waiting)]}

(* The list without its one entry of p; dict.fromkeys keeps it free of      *)
(* repetitions.                                                             *)
Undeferred(p) ==
    LET places == {i \in DOMAIN deferred : deferred[i] \in p} IN
    IF places = {} THEN deferred ELSE RemoveAt(deferred, Smallest(places))

(* audit_pending_candidate on the reports p: a new attempt, unless one is   *)
(* under way.  With a finite call budget unlaunched work is given up.       *)
BeginAudit(p) ==
    IF attempt # NoAttempt
    THEN /\ Goto(IF attempt.result = "open" THEN "evaluate" ELSE "settle")
         /\ pending' = p
         /\ UNCHANGED <<pool, deferred, attempt, attempted>>
    ELSE /\ pool' = IF Limited THEN UnlaunchedRetired ELSE pool
         /\ attempt' = [reports |-> p, result |-> "open"]
         /\ attempted' = attempted \cup {p}
         /\ pending' = p
         /\ deferred' = IF Cardinality(p) = 1 THEN Undeferred(p) ELSE deferred
         /\ Goto("evaluate")

(* Workers that finish while the gate is being evaluated are collected.     *)
CollectRaced ==
    /\ pc = "evaluate" /\ Done # {}
    /\ Collect(Done, "evaluate")
    /\ UNCHANGED <<work, candidates, outcome, task, goal, starts, raises>>

(* A mandatory audit of the candidate fails: record_execution_issue appends *)
(* an event while the evaluation goes on.                                   *)
AuditUnavailable ==
    /\ pc = "evaluate" \/ (pc = "collect" /\ aim = "evaluate" /\ Yields)
    /\ ~due /\ due' = TRUE
    /\ UNCHANGED <<pool, decisions, request, candidates, outcome, volatile, starts, raises>>

(* evaluate_candidate answers; an answer that is not the candidate's fault  *)
(* pauses the run with the attempt still open.                              *)
EvaluationReturns ==
    /\ pc = "evaluate"
    /\ \/ /\ EnterPause
          /\ UNCHANGED <<due, attempt>>
       \/ \E v \in {"passed", "failed"} \cup (IF Limited THEN {"budget"} ELSE {}) :
            /\ attempt' = [attempt EXCEPT !.result = v]
            /\ Collect(Done, "settle")
            /\ UNCHANGED <<task, goal, due>>
    /\ UNCHANGED <<pool, decisions, request, pending, deferred, attempted, outcome, starts, raises>>

SettlePassed ==
    /\ pc = "settle" /\ attempt.result = "passed"
    /\ attempt' = NoAttempt /\ pending' = {}
    /\ stop' = "none" /\ final' = "accepted"
    /\ EnterFinish("accepted")
    /\ UNCHANGED <<work, deferred, attempted, starts, raises>>

(* Mutant of SettleFailed: the coordinator is asked in spite of a stop.     *)
SettleFailedAsking ==
    /\ pc = "settle" /\ attempt.result \in {"failed", "budget"}
    /\ attempt' = NoAttempt /\ pending' = {}
    /\ IF attempt.result = "failed" /\ goal = "none" /\ Len(decisions) < MaxDecisions
       THEN AskCoordinator
       ELSE /\ due' = TRUE /\ UNCHANGED request
            /\ IF attempt.result = "budget" THEN EnterFinish("budget_exhausted")
               ELSE Goto(IF goal # "none" THEN "finish" ELSE "loop")
    /\ UNCHANGED <<pool, decisions, deferred, attempted, outcome, starts, raises>>

(* A failed attempt rejects only its own reports.  finish goes on with the  *)
(* next candidate; a stop decision stands; otherwise the coordinator is     *)
(* asked, while decisions are left.                                         *)
SettleFailed ==
    /\ pc = "settle" /\ attempt.result \in {"failed", "budget"}
    /\ attempt' = NoAttempt /\ pending' = {}
    /\ IF /\ attempt.result = "failed" /\ goal = "none"
          /\ stop = "none" /\ Len(decisions) < MaxDecisions
       THEN AskCoordinator
       ELSE /\ due' = TRUE /\ UNCHANGED request
            /\ IF attempt.result = "budget" THEN EnterFinish("budget_exhausted")
               ELSE Goto(IF goal # "none" THEN "finish" ELSE "loop")
    /\ UNCHANGED <<pool, decisions, deferred, attempted, outcome, starts, raises>>

-----------------------------------------------------------------------------
(* Mutant of Admissible: reports that were gated may be packaged again.     *)
AdmissibleAgain(n, p, d, s) ==
    /\ Len(pool) + n <= MaxAssignments
    /\ Cardinality(Open \ d) + n <= MaxOpen
    /\ decisions = <<>> => n >= MinInitial /\ s = "none"
    /\ p # {} => n = 0 /\ s = "none"

(* A coordinator decision: n new assignments, the reports p to package, the *)
(* open assignments d to retire or redirect, the outcome s to stop with,    *)
(* and whether it must be asked again at once (it asked for evidence, or    *)
(* its stop was declined).                                                  *)
Admissible(n, p, d, s) ==
    /\ Len(pool) + n <= MaxAssignments
    /\ Cardinality(Open \ d) + n <= MaxOpen
    /\ decisions = <<>> => n >= MinInitial /\ s = "none"
    /\ p # {} => n = 0 /\ s = "none" /\ p \notin attempted

Decide(n, p, d, s, again) ==
    LET retired == [a \in Assignments |->
                       IF a \in d THEN [pool[a] EXCEPT !.status = "retired"] ELSE pool[a]]
        packaged == IF p # {} THEN p ELSE pending IN
    /\ pool' = retired \o [i \in 1..n |-> Fresh]
    /\ decisions' = Append(decisions, s)
    /\ request' = FALSE
    /\ due' = (due \/ again)
    /\ stop' = s
    /\ pending' = IF packaged = {} THEN NextWaiting ELSE packaged
    /\ task' = Cancelled(d)
    /\ Collect(d \cap Active, "directed")

CoordinatorDecides ==
    /\ pc = "coordinator"
    /\ \E n \in 0..MaxOpen, p \in SUBSET WithStatus("completed"), d \in SUBSET Open,
          s \in {"none", "partial", "budget_exhausted"}, again \in BOOLEAN :
        /\ Admissible(n, p, d, s)
        /\ Decide(n, p, d, s, again)
    /\ UNCHANGED <<deferred, attempt, attempted, final, goal, starts, raises>>

(* CoordinatorContextBudgetExhausted: pause, the request stays frozen.      *)
ContextExhausted ==
    /\ pc = "coordinator" /\ raises < MaxRaises
    /\ raises' = raises + 1
    /\ Collect(Active, "pause") /\ task' = Cancelled(Ids) /\ goal' = "context"
    /\ UNCHANGED <<work, candidates, outcome, starts>>

-----------------------------------------------------------------------------
(* One turn of the main loop: the first of these that applies.              *)
Turn == pc = "loop" /\ ~request /\ Unresolved = {}
Quiet == Turn /\ pending = {} /\ stop = "none"

LoopRequests ==
    /\ pc = "loop" /\ request
    /\ Goto("coordinator")
    /\ UNCHANGED <<work, candidates, outcome, starts, raises>>

LoopArbitrates ==
    /\ pc = "loop" /\ ~request /\ Unresolved # {}
    /\ batch' = Unresolved /\ current' = 0 /\ pc' = "arbitrate"
    /\ UNCHANGED <<work, candidates, outcome, task, aim, goal, issues, starts, raises>>

LoopAudits ==
    /\ Turn /\ pending # {}
    /\ BeginAudit(pending)
    /\ UNCHANGED <<decisions, request, due, outcome, starts, raises>>

LoopStops ==
    /\ Turn /\ pending = {} /\ stop # "none"
    /\ task' = Cancelled(Ids)
    /\ Collect(Active, "stop")
    /\ UNCHANGED <<work, candidates, outcome, goal, starts, raises>>

LoopAsks ==
    /\ Quiet /\ due /\ Len(decisions) < MaxDecisions
    /\ AskCoordinator
    /\ UNCHANGED <<pool, decisions, candidates, outcome, starts, raises>>

(* launch_available: queued assignments in order, up to the concurrency.    *)
Launch(records) ==
    {a \in DOMAIN records :
        /\ records[a].status = "queued"
        /\ Cardinality(Active) + Cardinality({b \in 1..a : records[b].status = "queued"})
               <= MaxConcurrent}

Launched(records) ==
    [a \in DOMAIN records |->
        IF a \in Launch(records)
        THEN [records[a] EXCEPT !.status = "running", !.launched = TRUE]
        ELSE records[a]]

LoopCollects ==
    /\ Quiet /\ ~(due /\ Len(decisions) < MaxDecisions) /\ Done # {}
    /\ pool' = IF due THEN UnlaunchedRetired ELSE pool
    /\ Collect(Done, "loop")
    /\ UNCHANGED <<decisions, request, due, candidates, outcome, task, goal, starts, raises>>

LoopLaunches ==
    /\ Quiet /\ ~(due /\ Len(decisions) < MaxDecisions) /\ Done = {}
    /\ LET ready == IF due THEN UnlaunchedRetired ELSE pool IN
       /\ pool' = Launched(ready)
       /\ IF Active = {} /\ Launch(ready) = {}
          THEN EnterFinish(IF Len(decisions) >= MaxDecisions
                           THEN "budget_exhausted" ELSE "partial")
          ELSE /\ task' = [a \in Ids |-> IF a \in Launch(ready) THEN "working" ELSE task[a]]
               /\ pc' = "wait" /\ aim' = "loop"
               /\ UNCHANGED <<goal, batch, current, issues>>
    /\ UNCHANGED <<decisions, request, due, candidates, outcome, starts, raises>>

WaitReturns ==
    /\ pc = "wait" /\ Done # {}
    /\ Collect(Done, aim)
    /\ UNCHANGED <<work, candidates, outcome, task, goal, starts, raises>>

-----------------------------------------------------------------------------
(* What follows collect_tasks, by its caller.                               *)
Collected(a) == pc = "collect" /\ aim = a /\ batch = {} /\ current = 0

(* Mutant of CollectedRaced: only a verified refutation takes priority.     *)
CollectedRacedVerifiedOnly ==
    /\ Collected("evaluate") \/ Collected("settle")
    /\ IF final = "rejected" THEN EnterFinish("rejected") ELSE Goto(aim)
    /\ UNCHANGED <<work, candidates, outcome, starts, raises>>

(* counterexample_priority_result: a refutation comes before acceptance.    *)
CollectedRaced ==
    /\ Collected("evaluate") \/ Collected("settle")
    /\ IF final = "rejected" THEN EnterFinish("rejected")
       ELSE IF Unresolved # {} THEN EnterPause
       ELSE Goto(aim)
    /\ UNCHANGED <<work, candidates, outcome, starts, raises>>

(* The main loop after a collection.  A new candidate is already pending.   *)
CollectedInLoop ==
    /\ Collected("loop")
    /\ IF /\ final # "rejected" /\ Unresolved = {} /\ issues # {"exhausted"}
          /\ pending = {} /\ Len(decisions) < MaxDecisions
       THEN AskCoordinator
       ELSE /\ UNCHANGED <<request, due>>
            /\ IF final = "rejected" THEN EnterFinish("rejected")
               ELSE IF Unresolved # {} THEN EnterPause
               ELSE IF issues = {"exhausted"} THEN EnterFinish("budget_exhausted")
               ELSE Goto("loop")
    /\ UNCHANGED <<pool, decisions, candidates, outcome, starts, raises>>

CollectedDirected ==
    /\ Collected("directed")
    /\ Goto("loop")
    /\ UNCHANGED <<work, candidates, outcome, starts, raises>>

CollectedStop ==
    /\ Collected("stop")
    /\ pool' = Moved(pool, "queued", "retired")
    /\ EnterFinish(IF stop = "none" THEN "partial" ELSE stop)
    /\ UNCHANGED <<decisions, request, due, candidates, outcome, starts, raises>>

CollectedFinish ==
    /\ Collected("finish")
    /\ Goto("finish")
    /\ UNCHANGED <<work, candidates, outcome, starts, raises>>

CollectedPause ==
    /\ Collected("pause")
    /\ IF final = "rejected" THEN EnterFinish("rejected") ELSE Goto("paused")
    /\ UNCHANGED <<work, candidates, outcome, starts, raises>>

CollectedRaise ==
    /\ Collected("raise")
    /\ Goto("down")
    /\ UNCHANGED <<work, candidates, outcome, starts, raises>>

CollectedDrain ==
    /\ Collected("drain")
    /\ Goto("drain")
    /\ UNCHANGED <<work, candidates, outcome, starts, raises>>

-----------------------------------------------------------------------------
(* Mutant of Ungated: the deferred candidates are overlooked.               *)
UngatedPendingOnly == IF pending \notin attempted THEN pending ELSE {}

(* finish, once nothing is active.  The next candidate to gate before a     *)
(* non-accepted outcome is committed: the pending one, else the first       *)
(* deferred one not attempted yet.                                          *)
Ungated == IF pending # {} /\ pending \notin attempted THEN pending ELSE NextWaiting

GatesFirst == /\ goal \notin {"accepted", "drained"} /\ final = "none"
              /\ Unresolved = {} /\ Ungated # {}

FinishAudits ==
    /\ pc = "finish" /\ GatesFirst
    /\ stop' = "none"
    /\ BeginAudit(Ungated)
    /\ UNCHANGED <<decisions, request, due, final, starts, raises>>

(* Mutant of FinishCommits: the outcome is the one it was called with.      *)
FinishCommitsAsCalled ==
    /\ pc = "finish" /\ ~GatesFirst
    /\ pool' = Moved(pool, "queued", "cancelled")
    /\ request' = FALSE
    /\ final' = goal
    /\ pending' = {} /\ deferred' = <<>> /\ attempt' = NoAttempt
    /\ Goto("ended")
    /\ UNCHANGED <<decisions, due, attempted, stop, starts, raises>>

FinishCommits ==
    /\ pc = "finish" /\ ~GatesFirst
    /\ pool' = Moved(pool, "queued", "cancelled")
    /\ request' = FALSE
    /\ final' = IF final # "none" THEN final
                ELSE IF goal = "drained" THEN "budget_exhausted" ELSE goal
    /\ pending' = {} /\ deferred' = <<>> /\ attempt' = NoAttempt
    /\ Goto("ended")
    /\ UNCHANGED <<decisions, due, attempted, stop, starts, raises>>

-----------------------------------------------------------------------------
(* The handlers of the main loop.  An awaited call raises, or the process   *)
(* is interrupted while it awaits: active work is cancelled, collected and  *)
(* queued again, and the error is raised on.  A drain goes on to finish,    *)
(* and an error inside the other handlers ends the process at once.         *)
Raise ==
    /\ Awaiting /\ raises < MaxRaises
    /\ raises' = raises + 1
    /\ IF aim = "raise" \/ goal = "context"
       THEN /\ pc' = "down" /\ task' = [a \in Ids |-> "none"] /\ current' = 0
            /\ UNCHANGED <<aim, goal, batch, issues>>
       ELSE IF aim = "drain" \/ goal = "drained" THEN EnterFinish("drained")
       ELSE /\ task' = Cancelled(Ids) /\ goal' = "none"
            /\ Collect(Active, "raise")
    /\ UNCHANGED <<work, candidates, outcome, starts>>

(* BudgetExceeded: launched and queued work is drained, then finish does    *)
(* not gate what it finds.                                                  *)
Exhausts ==
    /\ Awaiting /\ pc \in {"coordinator", "evaluate", "arbitrate"}
    /\ raises < MaxRaises
    /\ raises' = raises + 1
    /\ pc' = "drain" /\ goal' = "none" /\ current' = 0 /\ batch' = {}
    /\ UNCHANGED <<work, candidates, outcome, task, aim, issues, starts>>

Drain ==
    /\ pc = "drain"
    /\ pool' = Launched(pool)
    /\ IF Active = {} /\ Launch(pool) = {}
       THEN EnterFinish("drained")
       ELSE /\ task' = [a \in Ids |-> IF a \in Launch(pool) THEN "working" ELSE task[a]]
            /\ pc' = "wait" /\ aim' = "drain"
            /\ UNCHANGED <<goal, batch, current, issues>>
    /\ UNCHANGED <<decisions, request, due, candidates, outcome, starts, raises>>

(* StageValidationError: the gate finds its frozen inputs changed, or its   *)
(* result no longer valid, before it answers or when an acceptance is       *)
(* committed or reported.                                                   *)
Refuse ==
    /\ \/ pc = "evaluate"
       \/ pc = "settle" /\ attempt.result = "passed"
       \/ pc = "finish" /\ final = "accepted"
    /\ task' = Cancelled(Ids) /\ goal' = "none"
    /\ Collect(Active, "raise")
    /\ UNCHANGED <<work, candidates, outcome, starts, raises>>

Crash ==
    /\ pc \notin Stopped
    /\ pc' = "down" /\ aim' = "none" /\ goal' = "none"
    /\ task' = [a \in Ids |-> "none"]
    /\ batch' = {} /\ current' = 0 /\ issues' = {}
    /\ UNCHANGED <<work, candidates, outcome, starts, raises>>

-----------------------------------------------------------------------------
Startup == Start \/ Conclude \/ RequestInitial \/ Underfunded \/ Reconcile
Collection == \/ CollectOne \/ CollectedRaced \/ CollectedInLoop \/ CollectedDirected
              \/ CollectedStop \/ CollectedFinish \/ CollectedPause \/ CollectedRaise
              \/ CollectedDrain
Arbitration == Promote \/ ArbitrateNext \/ ArbitrateEnd
Loop == \/ LoopRequests \/ LoopArbitrates \/ LoopAudits \/ LoopStops \/ LoopAsks
        \/ LoopCollects \/ LoopLaunches \/ WaitReturns \/ CollectRaced
Ending == SettlePassed \/ SettleFailed \/ FinishAudits \/ FinishCommits \/ Drain
Answers == \/ WorkerReturns \/ AuditReturns \/ AuditFails \/ EvaluationReturns
           \/ AuditUnavailable \/ CoordinatorDecides
Failure == ContextExhausted \/ Raise \/ Exhausts \/ Refuse \/ Crash

Next == Startup \/ Collection \/ Arbitration \/ Loop \/ Ending \/ Answers \/ Failure

Spec == Init /\ [][Next]_vars

-----------------------------------------------------------------------------
Lifecycle == {"queued", "running", "completed", "retired", "cancelled"}

Assignment ==
    [status : Lifecycle, launched : BOOLEAN, repaired : BOOLEAN,
     report : {"none", "partial", "candidate", "refutation"},
     audit : {"none", "verified", "failed", "blocked"}]

(* The type of the state: the scheduler's record and the place of the loop. *)
TypeOK ==
    /\ pool \in Seq(Assignment) /\ Len(pool) <= MaxAssignments
    /\ decisions \in Seq({"none", "partial", "budget_exhausted"})
    /\ Len(decisions) <= MaxDecisions
    /\ request \in BOOLEAN /\ due \in BOOLEAN
    /\ pending \subseteq Ids /\ deferred \in Seq(Ids) /\ attempted \subseteq SUBSET Ids
    /\ attempt \in [reports : SUBSET Ids, result : {"none", "open", "passed", "failed", "budget"}]
    /\ stop \in {"none", "partial", "budget_exhausted"}
    /\ final \in Outcome \cup {"none"}
    /\ task \in [Ids -> Answer \cup {"none", "working", "cancelled"}]
    /\ pc \in Stopped \cup {"initial", "conclude", "reconcile", "loop", "wait",
                "coordinator", "evaluate", "settle", "collect", "arbitrate",
                "finish", "drain"}
    /\ aim \in {"none", "loop", "directed", "evaluate", "settle", "stop", "finish",
                "pause", "raise", "drain"}
    /\ goal \in Outcome \cup {"none", "drained", "context"}
    /\ batch \subseteq Ids /\ current \in Ids \cup {0}
    /\ starts \in 0..MaxStarts /\ raises \in 0..MaxRaises

Candidates == {a \in Assignments : pool[a].report = "candidate"}
Gated == UNION attempted

(* While the research is open, a report that claims a complete proof has    *)
(* been through the gate or is queued for it.                               *)
NoCandidateDiscarded ==
    final = "none" => Candidates \subseteq Gated \cup pending \cup ToSet(deferred)

(* As long as no awaited call fails, no such report is lost to a race with  *)
(* a decision, with another attempt or with a crash (ARCHITECTURE.md item   *)
(* 6).                                                                      *)
CandidatesKept == raises = 0 => NoCandidateDiscarded

(* As long as no awaited call fails, an outcome short of acceptance or      *)
(* refutation is committed only after every claimed proof was gated, unless *)
(* a claimed refutation could not be audited (finish).                      *)
OutcomeAfterGate ==
    raises = 0 /\ final \in {"partial", "budget_exhausted"}
        => Candidates \subseteq Gated \/ Unresolved # {}

(* The gate is never paid for twice on the same set of reports              *)
(* (candidate_report_set_attempted).                                        *)
NeverGatedTwice ==
    [][attempt = NoAttempt /\ attempt' # NoAttempt
          => attempt'.reports \notin attempted]_vars

(* At the moment a proof is accepted, every claimed refutation collected so *)
(* far has been answered by a complete audit, and none was verified         *)
(* (counterexample_priority_result).                                        *)
AcceptedAfterArbitration ==
    [][final' = "accepted" /\ final # "accepted"
          => Unresolved = {} /\ \A a \in Assignments : pool[a].audit # "verified"]_vars

(* A durable outcome is only ever overturned by a verified refutation.      *)
OutcomeStands ==
    [][final # "none" /\ final' # final
          => final = "accepted" /\ final' = "rejected"]_vars

(* In one life of the process a decision to stop is the last one, however   *)
(* the candidates that raced with it fare (audit_pending_candidate: "the    *)
(* existing terminal decision is sufficient").                              *)
StopIsLastDecision ==
    starts <= 1 /\ final = "none" =>
        \A i \in DOMAIN decisions : decisions[i] # "none" => i = Len(decisions)

(* A running assignment has a task to deliver it, or the process is down;   *)
(* and a run that ended leaves no work open.                                *)
WorkAccounted ==
    /\ pc # "down" => WithStatus("running") \subseteq Active
    /\ pc \in {"paused", "ended"} => Active = {}
    /\ pc = "ended" => Open = {}

(* The loop always gets to an end, a pause or a failure: it never spins and *)
(* never waits for a task that is not there.                                *)
Settles == []<>(pc \in Stopped)

=============================================================================
