------------------------ MODULE GatedSchedulerProofs ------------------------
(* For all constants: the safety properties that the run `scheduler_safety`  *)
(* checks of the actor loop; that the loop with the gate in detail is still   *)
(* the actor loop; and what the run `candidate_gate` checks of the gate.      *)
EXTENDS GatedScheduler, SequenceTheorems, WellFoundedInduction, TLAPS

(* The control of the loop. --------------------------------------------------*)

\* finish is called with the acceptance only once it is durable, and then the
\* loop goes nowhere but to finish.
Concluded ==
    /\ stop \in {"none", "partial", "budget_exhausted"}
    /\ current # 0 => pc \in {"collect", "arbitrate"}
    /\ goal = "accepted" => final # "none"
    /\ final = "accepted" =>
          /\ attempt = NoAttempt
          /\ \/ pc \in Stopped \cup {"conclude"}
             \/ pc = "collect" /\ aim = "raise"
             \/ goal = "accepted" /\ (pc = "finish" \/ (pc = "collect" /\ aim = "finish"))

LEMMA InitConcluded == Init => Concluded
BY DEF Init, Concluded

LEMMA ConcludedStep ==
    ASSUME Concluded, [Next]_vars
    PROVE  Concluded'
<1> USE DEF Concluded, Stopped, outcome, candidates, volatile, work, Goto, Collect,
            EnterFinish, EnterPause, AskCoordinator
<1>1. CASE Startup
  BY <1>1 DEF Startup, Start, Conclude, RequestInitial, Underfunded, Reconcile
<1>2. CASE CollectOne
  BY <1>2 DEF CollectOne, AcceptReport, DropCancelled, FailWorker
<1>3. CASE Collection /\ ~CollectOne
  BY <1>3 DEF Collection, CollectedRaced, CollectedInLoop, CollectedDirected, CollectedStop,
              CollectedFinish, CollectedPause, CollectedRaise, CollectedDrain, Collected
<1>4. CASE Arbitration
  BY <1>4 DEF Arbitration, Promote, ArbitrateNext, ArbitrateEnd
<1>5. CASE Loop
  BY <1>5 DEF Loop, LoopRequests, LoopArbitrates, LoopAudits, LoopStops, LoopAsks,
              LoopCollects, LoopLaunches, WaitReturns, CollectRaced, Turn, Quiet, BeginAudit
<1>6. CASE Ending
  BY <1>6 DEF Ending, SettlePassed, SettleFailed, FinishAudits, FinishCommits, Drain,
              BeginAudit, GatesFirst
<1>7. CASE Answers
  <2>1. CASE WorkerReturns \/ AuditReturns \/ AuditFails \/ AuditUnavailable
    BY <2>1 DEF WorkerReturns, AuditReturns, AuditFails, AuditUnavailable
  <2>2. CASE EvaluationReturns
    BY <2>2 DEF EvaluationReturns
  <2>3. CASE CoordinatorDecides
    BY <2>3 DEF CoordinatorDecides, Decide
  <2> QED
    BY <1>7, <2>1, <2>2, <2>3 DEF Answers
<1>8. CASE Failure
  <2>1. CASE ContextExhausted
    BY <2>1 DEF ContextExhausted
  <2>2. CASE Raise
    BY <2>2 DEF Raise, Awaiting
  <2>3. CASE Exhausts
    BY <2>3 DEF Exhausts, Awaiting
  <2>4. CASE Refuse \/ Crash
    BY <2>4 DEF Refuse, Crash
  <2> QED
    BY <1>8, <2>1, <2>2, <2>3, <2>4 DEF Failure
<1>9. CASE UNCHANGED vars
  BY <1>9 DEF vars
<1> QED
  BY <1>1, <1>2, <1>3, <1>4, <1>5, <1>6, <1>7, <1>8, <1>9 DEF Next

\* Where the loop can be when it has been called to an end: it goes nowhere but
\* to that end, a pause or a failure.  A decision is asked while one is left.
Positions ==
    /\ final \in Outcome \cup {"none"}
    /\ goal \in Outcome \cup {"none", "drained", "context"}
    /\ goal # "none" =>
          /\ pc \in {"collect", "finish", "evaluate", "settle"} \cup Stopped
          /\ pc = "collect" => aim \in {"finish", "pause", "evaluate", "settle"}
    /\ goal = "context" => pc \in Stopped \/ (pc = "collect" /\ aim = "pause")
    /\ pc = "finish" \/ (pc = "collect" /\ aim = "finish") => goal \notin {"none", "context"}
    /\ pc = "collect" /\ aim = "pause" => goal \in {"none", "context"}
    /\ pc = "wait" => aim \in {"loop", "drain"}
    /\ pc \in {"initial", "reconcile"} => final = "none"
    /\ pc = "conclude" => final # "none"
    /\ pc = "initial" => decisions = <<>>
    /\ pc = "coordinator" => request
    /\ request => Len(decisions) < MaxDecisions

LEMMA PositionsStep ==
    ASSUME Concluded, Positions, [Next]_vars
    PROVE  Positions'
<1> USE BoundsAssumption
    DEF Positions, Concluded, Outcome, Stopped, outcome, candidates, volatile, work, Goto, Collect,
        EnterFinish, EnterPause, AskCoordinator
<1>0. Len(<<>>) < MaxDecisions
  OBVIOUS
<1>1. CASE Startup
  BY <1>0, <1>1 DEF Startup, Start, Conclude, RequestInitial, Underfunded, Reconcile
<1>2. CASE CollectOne
  BY <1>2 DEF CollectOne
<1>3. CASE Collection /\ ~CollectOne
  BY <1>3 DEF Collection, CollectedRaced, CollectedInLoop, CollectedDirected, CollectedStop,
              CollectedFinish, CollectedPause, CollectedRaise, CollectedDrain, Collected
<1>4. CASE Arbitration
  BY <1>4 DEF Arbitration, Promote, ArbitrateNext, ArbitrateEnd
<1>5. CASE Loop
  BY <1>5 DEF Loop, LoopRequests, LoopArbitrates, LoopAudits, LoopStops, LoopAsks,
              LoopCollects, LoopLaunches, WaitReturns, CollectRaced, Turn, Quiet, BeginAudit
<1>6. CASE Ending
  BY <1>6 DEF Ending, SettlePassed, SettleFailed, FinishAudits, FinishCommits, Drain,
              BeginAudit, GatesFirst
<1>7. CASE Answers
  <2>1. CASE WorkerReturns \/ AuditReturns \/ AuditFails \/ AuditUnavailable
    BY <2>1 DEF WorkerReturns, AuditReturns, AuditFails, AuditUnavailable
  <2>2. CASE EvaluationReturns
    BY <2>2 DEF EvaluationReturns
  <2>3. CASE CoordinatorDecides
    BY <2>3 DEF CoordinatorDecides, Decide
  <2> QED
    BY <1>7, <2>1, <2>2, <2>3 DEF Answers
<1>8. CASE Failure
  BY <1>8 DEF Failure, ContextExhausted, Raise, Exhausts, Refuse, Crash, Awaiting
<1>9. CASE UNCHANGED vars
  BY <1>9 DEF vars
<1> QED
  BY <1>1, <1>2, <1>3, <1>4, <1>5, <1>6, <1>7, <1>8, <1>9 DEF Next

(* The records of the assignments. -------------------------------------------*)

\* The smallest of a set of numbers is one of them.
LEMMA Least ==
    ASSUME NEW S \in SUBSET Nat, S # {}
    PROVE  Smallest(S) \in S /\ \A b \in S : Smallest(S) <= b
<1> DEFINE R == {ss \in Nat \X Nat : ss[1] < ss[2]}
<1>1. IsWellFoundedOn(R, Nat)
  BY NatLessThanWellFounded DEF OpToRel
<1> HIDE DEF R
<1>2. PICK a \in S : \A b \in S : <<b, a>> \notin R
  BY <1>1, WFMin
<1>3. \A b \in S : ~(b < a)
  BY <1>2 DEF R
<1>4. \A b \in S : a <= b
  BY <1>3
<1> QED
  BY <1>4 DEF Smallest

\* A function on the indices of a sequence, of the same kind, is a sequence.
LEMMA SameIndices ==
    ASSUME NEW S, NEW s \in Seq(S), NEW t,
           t = [a \in DOMAIN s |-> t[a]], \A a \in DOMAIN s : t[a] \in S
    PROVE  t \in Seq(S) /\ Len(t) = Len(s) /\ DOMAIN t = DOMAIN s
<1>1. DOMAIN s = 1..Len(s) /\ Len(s) \in Nat
  OBVIOUS
<1>2. t \in [1..Len(s) -> S]
  BY <1>1
<1> QED
  BY <1>1, <1>2

Pool == pool \in Seq(Assignment)

\* What the operators on the records make of them.
LEMMA MovedPool ==
    ASSUME Pool, NEW from, NEW to \in Lifecycle
    PROVE  LET new == Moved(pool, from, to) IN
           /\ new \in Seq(Assignment) /\ Len(new) = Len(pool) /\ DOMAIN new = Assignments
           /\ \A a \in Assignments :
                 new[a] = [pool[a] EXCEPT !.status = IF @ = from THEN to ELSE @]
<1> DEFINE new == Moved(pool, from, to)
<1>1. new = [a \in Assignments |-> new[a]]
  BY DEF Moved, Assignments
<1>2. ASSUME NEW a \in Assignments
      PROVE  /\ new[a] = [pool[a] EXCEPT !.status = IF @ = from THEN to ELSE @]
             /\ new[a] \in Assignment
  <2>1. pool[a] \in Assignment
    BY DEF Pool, Assignments
  <2>2. new[a] = IF pool[a].status = from THEN [pool[a] EXCEPT !.status = to] ELSE pool[a]
    BY DEF Moved, Assignments
  <2> QED
    BY <2>1, <2>2 DEF Assignment
<1> HIDE DEF new
<1>3. new \in Seq(Assignment) /\ Len(new) = Len(pool) /\ DOMAIN new = Assignments
  BY <1>1, <1>2, SameIndices DEF Pool, Assignments
<1> QED
  BY <1>2, <1>3 DEF new

LEMMA RetiredPool ==
    ASSUME Pool
    PROVE  /\ UnlaunchedRetired \in Seq(Assignment) /\ Len(UnlaunchedRetired) = Len(pool)
           /\ DOMAIN UnlaunchedRetired = Assignments
           /\ \A a \in Assignments :
                 UnlaunchedRetired[a] =
                    IF pool[a].status = "queued" /\ ~pool[a].launched
                    THEN [pool[a] EXCEPT !.status = "retired"] ELSE pool[a]
<1> DEFINE new == UnlaunchedRetired
<1>1. new = [a \in Assignments |-> new[a]]
  BY DEF UnlaunchedRetired
<1>2. \A a \in Assignments :
         new[a] = IF pool[a].status = "queued" /\ ~pool[a].launched
                  THEN [pool[a] EXCEPT !.status = "retired"] ELSE pool[a]
  BY DEF UnlaunchedRetired
<1>3. \A a \in Assignments : pool[a] \in Assignment
  BY DEF Pool, Assignments
<1>4. ASSUME NEW a \in Assignments
      PROVE  new[a] \in Assignment
  <2>1. [pool[a] EXCEPT !.status = "retired"] \in Assignment
    BY <1>3 DEF Assignment, Lifecycle
  <2> QED
    BY <1>2, <1>3, <2>1
<1> HIDE DEF new
<1>5. new \in Seq(Assignment) /\ Len(new) = Len(pool) /\ DOMAIN new = Assignments
  BY <1>1, <1>4, SameIndices DEF Pool, Assignments
<1> QED
  BY <1>2, <1>5 DEF new

LEMMA LaunchedPool ==
    ASSUME NEW p \in Seq(Assignment)
    PROVE  /\ Launched(p) \in Seq(Assignment) /\ Len(Launched(p)) = Len(p)
           /\ DOMAIN Launched(p) = DOMAIN p
           /\ \A a \in DOMAIN p :
                 Launched(p)[a] = IF a \in Launch(p)
                                  THEN [p[a] EXCEPT !.status = "running", !.launched = TRUE]
                                  ELSE p[a]
<1> DEFINE new == Launched(p)
<1>1. new = [a \in DOMAIN p |-> new[a]]
  BY DEF Launched
<1>2. \A a \in DOMAIN p :
         new[a] = IF a \in Launch(p)
                  THEN [p[a] EXCEPT !.status = "running", !.launched = TRUE] ELSE p[a]
  BY DEF Launched
<1>3. \A a \in DOMAIN p : p[a] \in Assignment
  OBVIOUS
<1>4. \A a \in DOMAIN p : new[a] \in Assignment
  <2> SUFFICES ASSUME NEW a \in DOMAIN p PROVE new[a] \in Assignment
    OBVIOUS
  <2>1. p[a] \in Assignment
    BY <1>3
  <2>2. new[a] = p[a] \/ new[a] = [p[a] EXCEPT !.status = "running", !.launched = TRUE]
    BY <1>2
  <2> HIDE DEF new
  <2> QED
    BY <2>1, <2>2 DEF Assignment, Lifecycle
<1> HIDE DEF new
<1>5. new \in Seq(Assignment) /\ Len(new) = Len(p) /\ DOMAIN new = DOMAIN p
  BY <1>1, <1>4, SameIndices
<1> QED
  BY <1>2, <1>5 DEF new

\* One record is changed, if there is one.
LEMMA ChangedPool ==
    ASSUME Pool, NEW b, NEW r, b \in Assignments => r \in Assignment
    PROVE  LET new == [pool EXCEPT ![b] = r] IN
           /\ new \in Seq(Assignment) /\ Len(new) = Len(pool) /\ DOMAIN new = Assignments
           /\ \A a \in Assignments : new[a] = IF a = b THEN r ELSE pool[a]
<1> DEFINE new == [pool EXCEPT ![b] = r]
<1>1. DOMAIN new = Assignments /\ new = [a \in Assignments |-> new[a]]
  BY DEF Assignments
<1>2. \A a \in Assignments : new[a] = IF a = b THEN r ELSE pool[a]
  BY DEF Assignments
<1>3. \A a \in Assignments : pool[a] \in Assignment
  BY DEF Pool, Assignments
<1>4. \A a \in Assignments : new[a] \in Assignment
  BY <1>2, <1>3
<1> HIDE DEF new
<1>5. new \in Seq(Assignment) /\ Len(new) = Len(pool)
  BY <1>1, <1>4, SameIndices DEF Pool, Assignments
<1> QED
  BY <1>1, <1>2, <1>5 DEF new

LEMMA DecidedPool ==
    ASSUME Pool, NEW n, n \in Nat, NEW d,
           pool' = [a \in Assignments |->
                       IF a \in d THEN [pool[a] EXCEPT !.status = "retired"] ELSE pool[a]]
                   \o [i \in 1..n |-> Fresh]
    PROVE  /\ pool' \in Seq(Assignment) /\ Len(pool') = Len(pool) + n
           /\ \A a \in Assignments :
                 pool'[a] = IF a \in d THEN [pool[a] EXCEPT !.status = "retired"] ELSE pool[a]
           /\ \A a \in DOMAIN pool' \ Assignments : pool'[a] = Fresh
<1> DEFINE old == [a \in Assignments |->
                     IF a \in d THEN [pool[a] EXCEPT !.status = "retired"] ELSE pool[a]]
           new == [i \in 1..n |-> Fresh]
<1>1. new \in Seq(Assignment) /\ Len(new) = n /\ \A i \in 1..n : new[i] = Fresh
  <2>1. Fresh \in Assignment
    BY DEF Fresh, Assignment, Lifecycle
  <2>2. new \in [1..n -> Assignment]
    BY <2>1
  <2>3. \A i \in 1..n : new[i] = Fresh
    OBVIOUS
  <2> HIDE DEF new
  <2> QED
    BY <2>2, <2>3
<1>2. \A a \in Assignments : /\ old[a] \in Assignment
                             /\ old[a].report = pool[a].report /\ old[a].audit = pool[a].audit
  <2>1. \A a \in Assignments : pool[a] \in Assignment
    BY DEF Pool, Assignments
  <2>2. \A a \in Assignments :
           LET q == [pool[a] EXCEPT !.status = "retired"] IN
           q \in Assignment /\ q.report = pool[a].report /\ q.audit = pool[a].audit
    BY <2>1 DEF Assignment, Lifecycle
  <2> QED
    BY <2>1, <2>2
<1>3. old \in Seq(Assignment) /\ Len(old) = Len(pool) /\ DOMAIN old = Assignments
  <2>1. old = [a \in Assignments |-> old[a]]
    OBVIOUS
  <2> HIDE DEF old
  <2> QED
    BY <1>2, <2>1, SameIndices DEF Pool, Assignments
<1>4. \A a \in Assignments :
         old[a] = IF a \in d THEN [pool[a] EXCEPT !.status = "retired"] ELSE pool[a]
  OBVIOUS
<1>5. pool' = old \o new
  OBVIOUS
<1> HIDE DEF old, new
<1>6. /\ pool' \in Seq(Assignment) /\ Len(pool') = Len(pool) + n
      /\ \A i \in 1..Len(pool') :
            pool'[i] = IF i <= Len(pool) THEN old[i] ELSE new[i - Len(pool)]
  <2>1. /\ old \o new \in Seq(Assignment) /\ Len(old \o new) = Len(old) + Len(new)
        /\ \A i \in 1..(Len(old) + Len(new)) :
              (old \o new)[i] = IF i <= Len(old) THEN old[i] ELSE new[i - Len(old)]
    BY <1>1, <1>3, ConcatProperties
  <2> QED
    BY <1>1, <1>3, <1>5, <2>1
<1>7. \A a \in Assignments : pool'[a] = old[a]
  <2>1. Len(pool) \in Nat /\ Assignments = 1..Len(pool)
    BY DEF Assignments, Pool
  <2>2. \A a \in 1..Len(pool) : a \in 1..Len(pool') /\ a <= Len(pool)
    BY <1>6, <2>1
  <2> QED
    BY <1>6, <2>1, <2>2
<1>8. \A a \in DOMAIN pool' \ Assignments : pool'[a] = Fresh
  BY <1>1, <1>6 DEF Assignments, Pool
<1> QED
  BY <1>4, <1>6, <1>7, <1>8

\* The records after a step: none disappears, a collection changes reports, and
\* an audit changes verdicts.
NewRecords ==
    /\ pool' \in Seq(Assignment) /\ Len(pool) <= Len(pool')
    /\ Len(pool') <= MaxAssignments \/ Len(pool') = Len(pool)
    /\ ~CoordinatorDecides => Len(pool') = Len(pool)
    /\ \A a \in Assignments :
          /\ ~CollectOne => pool'[a].report = pool[a].report
          /\ ~AuditReturns => pool'[a].audit = pool[a].audit
    /\ \A a \in DOMAIN pool' \ Assignments : pool'[a] = Fresh

LEMMA PoolSame ==
    ASSUME Pool, pool' = pool
    PROVE  NewRecords
BY DEF Pool, NewRecords, Assignments

\* The records with others of the same indices, reports and verdicts.
LEMMA PoolSimilar ==
    ASSUME Pool, pool' \in Seq(Assignment), Len(pool') = Len(pool),
           \A a \in Assignments : /\ pool'[a].report = pool[a].report
                                  /\ pool'[a].audit = pool[a].audit
    PROVE  NewRecords
<1>1. DOMAIN pool' = Assignments
  BY DEF Pool, Assignments
<1> QED
  BY <1>1 DEF Pool, NewRecords, Assignments

LEMMA MovedRecords ==
    ASSUME Pool, NEW from, NEW to \in Lifecycle, pool' = Moved(pool, from, to)
    PROVE  NewRecords
<1>1. \A a \in Assignments : pool[a] \in Assignment
  BY DEF Pool, Assignments
<1>2. \A a \in Assignments :
         LET q == [pool[a] EXCEPT !.status = IF @ = from THEN to ELSE @] IN
         q.report = pool[a].report /\ q.audit = pool[a].audit
  BY <1>1 DEF Assignment
<1>3. /\ pool' \in Seq(Assignment) /\ Len(pool') = Len(pool)
      /\ \A a \in Assignments :
            pool'[a] = [pool[a] EXCEPT !.status = IF @ = from THEN to ELSE @]
  BY MovedPool
<1> QED
  BY <1>2, <1>3, PoolSimilar

LEMMA RetiredRecords ==
    ASSUME Pool, pool' = UnlaunchedRetired
    PROVE  NewRecords
<1>1. \A a \in Assignments : pool[a] \in Assignment
  BY DEF Pool, Assignments
<1>2. \A a \in Assignments : pool'[a].report = pool[a].report /\ pool'[a].audit = pool[a].audit
  BY <1>1, RetiredPool DEF Assignment
<1> QED
  BY <1>2, RetiredPool, PoolSimilar

LEMMA LaunchedRecords ==
    ASSUME Pool, NEW p \in {pool, UnlaunchedRetired}, pool' = Launched(p)
    PROVE  NewRecords
<1>1. p \in Seq(Assignment) /\ Len(p) = Len(pool) /\ DOMAIN p = Assignments
  BY RetiredPool DEF Pool, Assignments
<1>2. \A a \in Assignments : pool[a] \in Assignment /\ p[a] \in Assignment
  BY <1>1 DEF Pool, Assignments
<1>3. \A a \in Assignments : p[a].report = pool[a].report /\ p[a].audit = pool[a].audit
  BY <1>2, RetiredPool DEF Assignment
<1>4. \A a \in Assignments :
         LET q == [p[a] EXCEPT !.status = "running", !.launched = TRUE] IN
         q.report = p[a].report /\ q.audit = p[a].audit
  BY <1>2 DEF Assignment
<1>5. /\ pool' \in Seq(Assignment) /\ Len(pool') = Len(pool)
      /\ \A a \in Assignments :
            \/ pool'[a] = [p[a] EXCEPT !.status = "running", !.launched = TRUE]
            \/ pool'[a] = p[a]
  BY <1>1, LaunchedPool
<1> QED
  BY <1>3, <1>4, <1>5, PoolSimilar

\* The steps that change the records.
LEMMA PoolChanges ==
    ASSUME [Next]_vars
    PROVE  \/ UNCHANGED pool \/ Start \/ CollectedStop \/ FinishCommits \/ LoopLaunches \/ Drain
           \/ LoopCollects \/ LoopAudits \/ FinishAudits \/ AuditReturns \/ CollectOne
           \/ CoordinatorDecides
<1> USE DEF work
<1>1. CASE Startup
  BY <1>1 DEF Startup, Conclude, RequestInitial, Underfunded, Reconcile
<1>2. CASE Collection
  BY <1>2 DEF Collection, CollectedRaced, CollectedInLoop, CollectedDirected,
              CollectedFinish, CollectedPause, CollectedRaise, CollectedDrain
<1>3. CASE Arbitration
  BY <1>3 DEF Arbitration, Promote, ArbitrateNext, ArbitrateEnd
<1>4. CASE Loop
  BY <1>4 DEF Loop, LoopRequests, LoopArbitrates, LoopStops, LoopAsks, WaitReturns,
              CollectRaced
<1>5. CASE Ending
  BY <1>5 DEF Ending, SettlePassed, SettleFailed
<1>6. CASE Answers
  BY <1>6 DEF Answers, WorkerReturns, AuditFails, EvaluationReturns, AuditUnavailable
<1>7. CASE Failure
  BY <1>7 DEF Failure, ContextExhausted, Raise, Exhausts, Refuse, Crash
<1> QED
  BY <1>1, <1>2, <1>3, <1>4, <1>5, <1>6, <1>7 DEF Next, vars

LEMMA RecordsStep ==
    ASSUME Pool, batch \subseteq Ids, [Next]_vars
    PROVE  NewRecords
<1>1. CASE UNCHANGED pool
  BY <1>1, PoolSame
<1>2. CASE Start \/ CollectedStop \/ FinishCommits
  BY <1>2, MovedRecords DEF Start, CollectedStop, FinishCommits, Lifecycle
<1>3. CASE LoopLaunches \/ Drain
  BY <1>3, LaunchedRecords DEF LoopLaunches, Drain
<1>4. CASE LoopCollects \/ LoopAudits \/ FinishAudits
  BY <1>4, <1>1, RetiredRecords DEF LoopCollects, LoopAudits, FinishAudits, BeginAudit
<1>5. CASE AuditReturns
  <2>1. PICK v \in {"verified", "failed", "blocked"} : pool' = [pool EXCEPT ![current].audit = v]
    BY <1>5 DEF AuditReturns
  <2>2. \A a \in Assignments : pool[a] \in Assignment
    BY DEF Pool, Assignments
  <2>3. DEFINE r == [pool[current] EXCEPT !.audit = v]
  <2>4. current \in Assignments => r \in Assignment /\ r.report = pool[current].report
    BY <2>2 DEF Assignment
  <2>5. pool' = [pool EXCEPT ![current] = r]
    BY <2>1
  <2> HIDE DEF r
  <2> QED
    BY <1>5, <2>4, <2>5, ChangedPool DEF NewRecords, Assignments, Pool
<1>6. CASE CollectOne
  <2> DEFINE a == Smallest(batch)
             r == task[a]
  <2>1. a \in Ids
    <3>1. batch \in SUBSET Nat /\ batch # {}
      BY <1>6 DEF Ids, CollectOne
    <3> QED
      BY <3>1, Least
  <2>2. \/ AcceptReport(a, r) /\ r \in {"partial", "candidate", "refutation"}
        \/ DropCancelled(a) \/ FailWorker(a, r)
    BY <1>6 DEF CollectOne
  <2> HIDE DEF a, r
  <2>3. a \in Assignments => pool[a] \in Assignment
    BY DEF Pool, Assignments
  <2>4. \E new : /\ a \in Assignments => new \in Assignment /\ new.audit = pool[a].audit
                 /\ pool' = pool \/ pool' = [pool EXCEPT ![a] = new]
    <3>1. CASE AcceptReport(a, r) /\ r \in {"partial", "candidate", "refutation"}
      <4> DEFINE new == [pool[a] EXCEPT !.status = "completed", !.report = r]
      <4>1. a \in Assignments => new \in Assignment /\ new.audit = pool[a].audit
        BY <2>3, <3>1 DEF Assignment, Lifecycle
      <4>2. pool' = [pool EXCEPT ![a] = new]
        BY <3>1 DEF AcceptReport
      <4> QED
        BY <4>1, <4>2
    <3>2. CASE DropCancelled(a)
      <4> DEFINE new(s) == [pool[a] EXCEPT !.status = s]
      <4>1. \A s \in Lifecycle :
               a \in Assignments => new(s) \in Assignment /\ new(s).audit = pool[a].audit
        BY <2>3 DEF Assignment
      <4>2. pool' = pool \/ \E s \in Lifecycle : pool' = [pool EXCEPT ![a] = new(s)]
        BY <3>2 DEF DropCancelled, Lifecycle
      <4> HIDE DEF new
      <4>3. CASE pool' = pool
        BY <2>3, <4>1, <4>3 DEF Lifecycle
      <4> QED
        BY <4>1, <4>2, <4>3
    <3>3. CASE FailWorker(a, r)
      <4> DEFINE new(s, b) == [pool[a] EXCEPT !.status = s, !.repaired = b]
      <4>1. \A s \in Lifecycle, b \in BOOLEAN :
               a \in Assignments => new(s, b) \in Assignment /\ new(s, b).audit = pool[a].audit
        BY <2>3 DEF Assignment
      <4>2. \/ pool' = pool \/ pool' = [pool EXCEPT ![a] = new("queued", TRUE)]
            \/ pool' = [pool EXCEPT ![a] = [pool[a] EXCEPT !.status = "retired"]]
        BY <3>3 DEF FailWorker
      <4>3. a \in Assignments => LET q == [pool[a] EXCEPT !.status = "retired"] IN
                                 q \in Assignment /\ q.audit = pool[a].audit
        BY <2>3 DEF Assignment, Lifecycle
      <4>4. "queued" \in Lifecycle
        BY DEF Lifecycle
      <4> HIDE DEF new
      <4> QED
        BY <4>1, <4>2, <4>3, <4>4
    <3> QED
      BY <2>2, <3>1, <3>2, <3>3
  <2>5. CASE pool' # pool
    <3>1. PICK new : /\ a \in Assignments => new \in Assignment /\ new.audit = pool[a].audit
                     /\ pool' = [pool EXCEPT ![a] = new]
      BY <2>4, <2>5
    <3>2. /\ pool' \in Seq(Assignment) /\ Len(pool') = Len(pool) /\ DOMAIN pool' = Assignments
          /\ \A b \in Assignments : pool'[b] = IF b = a THEN new ELSE pool[b]
      BY <3>1, ChangedPool
    <3> QED
      BY <1>6, <3>1, <3>2 DEF NewRecords, Assignments, Pool
  <2> QED
    BY <1>1, <2>5
<1>7. CASE CoordinatorDecides
  <2>1. PICK n \in 0..MaxOpen, p \in SUBSET WithStatus("completed"), d \in SUBSET Open,
             s \in {"none", "partial", "budget_exhausted"}, again \in BOOLEAN :
                Admissible(n, p, d, s) /\ Decide(n, p, d, s, again)
    BY <1>7 DEF CoordinatorDecides
  <2>2. n \in Nat /\ Len(pool) + n <= MaxAssignments
    BY <2>1, BoundsAssumption DEF Admissible
  <2>3. /\ pool' \in Seq(Assignment) /\ Len(pool') = Len(pool) + n
        /\ \A a \in Assignments :
              pool'[a] = IF a \in d THEN [pool[a] EXCEPT !.status = "retired"] ELSE pool[a]
        /\ \A a \in DOMAIN pool' \ Assignments : pool'[a] = Fresh
    BY <2>1, <2>2, DecidedPool DEF Decide
  <2>4. \A a \in Assignments :
           LET q == [pool[a] EXCEPT !.status = "retired"] IN
           q.report = pool[a].report /\ q.audit = pool[a].audit
    BY DEF Pool, Assignments, Assignment
  <2> QED
    <3>1. \A a \in Assignments :
             pool'[a].report = pool[a].report /\ pool'[a].audit = pool[a].audit
      BY <2>3, <2>4
    <3>2. Len(pool) <= Len(pool') /\ Len(pool') <= MaxAssignments
      BY <2>2, <2>3 DEF Pool
    <3> QED
      BY <1>7, <2>3, <3>1, <3>2 DEF NewRecords
<1> QED
  BY <1>1, <1>2, <1>3, <1>4, <1>5, <1>6, <1>7, PoolChanges

(* The queue of candidates. --------------------------------------------------*)

\* A sequence without its element k.
LEMMA RemovedAt ==
    ASSUME NEW S, NEW s \in Seq(S), NEW k \in 1..Len(s)
    PROVE  /\ RemoveAt(s, k) \in Seq(S)
           /\ Len(RemoveAt(s, k)) = Len(s) - 1
           /\ \A i \in 1..(Len(s) - 1) :
                 RemoveAt(s, k)[i] = IF i < k THEN s[i] ELSE s[i + 1]
<1> DEFINE head == SubSeq(s, 1, k - 1)
           tail == SubSeq(s, k + 1, Len(s))
<1>1. head \in Seq(S) /\ tail \in Seq(S)
  OBVIOUS
<1>2. Len(head) = k - 1 /\ Len(tail) = Len(s) - k
  OBVIOUS
<1>3. \A i \in 1..(k - 1) : head[i] = s[i]
  OBVIOUS
<1>4. \A i \in 1..(Len(s) - k) : tail[i] = s[k + i]
  OBVIOUS
<1> HIDE DEF head, tail
<1>5. /\ head \o tail \in Seq(S) /\ Len(head \o tail) = Len(head) + Len(tail)
      /\ \A i \in 1..(Len(head) + Len(tail)) :
            (head \o tail)[i] = IF i <= Len(head) THEN head[i] ELSE tail[i - Len(head)]
  BY <1>1, ConcatProperties
<1>6. Len(head) + Len(tail) = Len(s) - 1
  BY <1>2
<1>7. ASSUME NEW i \in 1..(Len(s) - 1)
      PROVE  (head \o tail)[i] = IF i < k THEN s[i] ELSE s[i + 1]
  <2>1. CASE i < k
    BY <1>2, <1>3, <1>5, <1>6, <2>1
  <2>2. CASE ~(i < k)
    <3>1. i - (k - 1) \in 1..(Len(s) - k) /\ k + (i - (k - 1)) = i + 1
      BY <2>2
    <3>2. tail[i - (k - 1)] = s[i + 1]
      BY <1>4, <3>1
    <3> QED
      BY <1>2, <1>5, <1>6, <2>2, <3>2
  <2> QED
    BY <2>1, <2>2
<1> QED
  BY <1>5, <1>6, <1>7 DEF RemoveAt, head, tail

LEMMA RemovedSet ==
    ASSUME NEW S, NEW s \in Seq(S), NEW k \in 1..Len(s)
    PROVE  /\ ToSet(RemoveAt(s, k)) \subseteq ToSet(s)
           /\ ToSet(s) \subseteq ToSet(RemoveAt(s, k)) \cup {s[k]}
<1> DEFINE t == RemoveAt(s, k)
<1>1. /\ t \in Seq(S) /\ Len(t) = Len(s) - 1
      /\ \A i \in 1..(Len(s) - 1) : t[i] = IF i < k THEN s[i] ELSE s[i + 1]
  BY RemovedAt
<1> HIDE DEF t
<1>2. DOMAIN t = 1..(Len(s) - 1) /\ DOMAIN s = 1..Len(s) /\ Len(s) \in Nat
  BY <1>1
<1>3. ASSUME NEW i \in DOMAIN t
      PROVE  t[i] \in ToSet(s)
  <2>1. CASE i < k
    BY <1>1, <1>2, <2>1 DEF ToSet
  <2>2. CASE ~(i < k)
    <3>1. i + 1 \in DOMAIN s /\ t[i] = s[i + 1]
      BY <1>1, <1>2, <2>2
    <3> QED
      BY <3>1 DEF ToSet
  <2> QED
    BY <2>1, <2>2
<1>4. ASSUME NEW i \in DOMAIN s, i # k
      PROVE  s[i] \in ToSet(t)
  <2>1. CASE i < k
    <3>1. i \in DOMAIN t /\ t[i] = s[i]
      BY <1>1, <1>2, <2>1
    <3> QED
      BY <3>1 DEF ToSet
  <2>2. CASE ~(i < k)
    <3>1. i - 1 \in DOMAIN t /\ i - 1 \in 1..(Len(s) - 1) /\ ~(i - 1 < k) /\ (i - 1) + 1 = i
      BY <1>1, <1>2, <1>4, <2>2
    <3>2. t[i - 1] = s[(i - 1) + 1]
      BY <1>1, <3>1
    <3>3. t[i - 1] = s[i]
      BY <3>1, <3>2
    <3> QED
      BY <3>1, <3>3 DEF ToSet
  <2> QED
    BY <2>1, <2>2
<1> QED
  BY <1>3, <1>4 DEF ToSet, t

LEMMA UndeferredFacts ==
    ASSUME NEW S, deferred \in Seq(S), NEW p
    PROVE  /\ Undeferred(p) \in Seq(S)
           /\ ToSet(Undeferred(p)) \subseteq ToSet(deferred)
           /\ ToSet(deferred) \subseteq ToSet(Undeferred(p)) \cup p
<1> DEFINE places == {i \in DOMAIN deferred : deferred[i] \in p}
<1>1. CASE places = {}
  BY <1>1 DEF Undeferred
<1>2. CASE places # {}
  <2>1. Len(deferred) \in Nat /\ DOMAIN deferred = 1..Len(deferred)
    OBVIOUS
  <2>2. places \in SUBSET Nat
    BY <2>1
  <2>3. Smallest(places) \in places
    BY <1>2, <2>2, Least
  <2>4. PICK k \in 1..Len(deferred) : deferred[k] \in p /\ k = Smallest(places)
    BY <2>1, <2>3
  <2>5. Undeferred(p) = RemoveAt(deferred, k)
    BY <1>2, <2>4 DEF Undeferred
  <2>6. RemoveAt(deferred, k) \in Seq(S)
    BY <2>4, RemovedAt
  <2>7. /\ ToSet(RemoveAt(deferred, k)) \subseteq ToSet(deferred)
        /\ ToSet(deferred) \subseteq ToSet(RemoveAt(deferred, k)) \cup {deferred[k]}
    BY <2>4, RemovedSet
  <2> QED
    BY <2>4, <2>5, <2>6, <2>7
<1> QED
  BY <1>1, <1>2

LEMMA NextWaitingFacts ==
    ASSUME NEW S, deferred \in Seq(S)
    PROVE  /\ NextWaiting \subseteq S /\ NextWaiting \subseteq ToSet(deferred)
           /\ NextWaiting # {} => NextWaiting \notin attempted
           /\ NextWaiting = {} => \A a \in ToSet(deferred) : {a} \in attempted
<1>1. Len(deferred) \in Nat /\ DOMAIN deferred = 1..Len(deferred)
  OBVIOUS
<1>2. CASE Waiting = {}
  BY <1>2 DEF NextWaiting, Waiting, ToSet
<1>3. CASE Waiting # {}
  <2>1. Waiting \in SUBSET Nat
    BY <1>1 DEF Waiting
  <2>2. Smallest(Waiting) \in Waiting
    BY <1>3, <2>1, Least
  <2>3. NextWaiting = {deferred[Smallest(Waiting)]}
    BY <1>3 DEF NextWaiting
  <2>4. Smallest(Waiting) \in DOMAIN deferred /\ {deferred[Smallest(Waiting)]} \notin attempted
    BY <2>2 DEF Waiting
  <2> HIDE DEF Waiting
  <2> QED
    BY <1>1, <2>3, <2>4 DEF ToSet
<1> QED
  BY <1>2, <1>3

(* The types. ----------------------------------------------------------------*)

TypeInv == TypeOK /\ Concluded /\ Positions

LEMMA InitTypeInv == Init => TypeInv
<1> SUFFICES ASSUME Init PROVE TypeInv
    OBVIOUS
<1> USE BoundsAssumption DEF Init
<1>1. Concluded
  BY InitConcluded
<1>2. Positions
  BY DEF Positions, Outcome, Stopped
<1>3. TypeOK
  <2>1. pool \in Seq(Assignment) /\ Len(pool) <= MaxAssignments
    OBVIOUS
  <2>2. /\ decisions \in Seq({"none", "partial", "budget_exhausted"})
        /\ Len(decisions) <= MaxDecisions /\ deferred \in Seq(Ids)
    OBVIOUS
  <2>3. task \in [Ids -> Answer \cup {"none", "working", "cancelled"}]
    OBVIOUS
  <2>4. attempt \in [reports : SUBSET Ids, result : {"none", "open", "passed", "failed", "budget"}]
    BY DEF NoAttempt
  <2>5. starts \in 0..MaxStarts /\ raises \in 0..MaxRaises
    OBVIOUS
  <2> QED
    BY <2>1, <2>2, <2>3, <2>4, <2>5 DEF TypeOK, Outcome, Stopped
<1> QED
  BY <1>1, <1>2, <1>3 DEF TypeInv

\* The tasks and the collections.
TaskType ==
    /\ task \in [Ids -> Answer \cup {"none", "working", "cancelled"}]
    /\ batch \subseteq Ids

LEMMA TaskTypeStep ==
    ASSUME TypeInv, [Next]_vars
    PROVE  TaskType'
<1> USE DEF TaskType, outcome, candidates, volatile, work, Goto, Collect, EnterFinish,
            EnterPause, AskCoordinator
<1>1. TaskType
  BY DEF TypeInv, TypeOK
<1>2. /\ Active \subseteq Ids /\ Done \subseteq Ids
      /\ Assignments \subseteq Ids /\ Unresolved \subseteq Ids
  BY BoundsAssumption DEF Active, Done, Assignments, Unresolved, Ids, TypeInv, TypeOK
<1>3. \A S : Cancelled(S) \in [Ids -> Answer \cup {"none", "working", "cancelled"}]
  BY <1>1 DEF Cancelled
<1> USE <1>1, <1>2, <1>3
<1>4. CASE Startup
  BY <1>4 DEF Startup, Start, Conclude, RequestInitial, Underfunded, Reconcile
<1>5. CASE CollectOne
  BY <1>5 DEF CollectOne, AcceptReport, DropCancelled, FailWorker
<1>6. CASE Collection /\ ~CollectOne
  BY <1>6 DEF Collection, CollectedRaced, CollectedInLoop, CollectedDirected,
              CollectedStop, CollectedFinish, CollectedPause, CollectedRaise,
              CollectedDrain, Collected
<1>7. CASE Arbitration
  BY <1>7 DEF Arbitration, Promote, ArbitrateNext, ArbitrateEnd
<1>8. CASE Loop
  BY <1>8 DEF Loop, LoopRequests, LoopArbitrates, LoopAudits, LoopStops, LoopAsks,
              LoopCollects, LoopLaunches, WaitReturns, CollectRaced, Turn, Quiet,
              BeginAudit
<1>9. CASE Ending
  BY <1>9 DEF Ending, SettlePassed, SettleFailed, FinishAudits, FinishCommits, Drain,
              BeginAudit, GatesFirst
<1>10. CASE Answers
  BY <1>10 DEF Answers, WorkerReturns, AuditReturns, AuditFails, EvaluationReturns,
               AuditUnavailable, CoordinatorDecides, Decide
<1>11. CASE Failure
  BY <1>11 DEF Failure, ContextExhausted, Raise, Exhausts, Refuse, Crash, Awaiting
<1>12. CASE UNCHANGED vars
  BY <1>12 DEF vars
<1> QED
  BY <1>4, <1>5, <1>6, <1>7, <1>8, <1>9, <1>10, <1>11, <1>12 DEF Next

PlaceType ==
    /\ pc \in Stopped \cup {"initial", "conclude", "reconcile", "loop", "wait",
                "coordinator", "evaluate", "settle", "collect", "arbitrate",
                "finish", "drain"}
    /\ aim \in {"none", "loop", "directed", "evaluate", "settle", "stop", "finish",
                "pause", "raise", "drain"}
    /\ starts \in 0..MaxStarts /\ raises \in 0..MaxRaises

LEMMA PlaceTypeStep ==
    ASSUME TypeInv, [Next]_vars
    PROVE  PlaceType'
<1> USE BoundsAssumption
    DEF PlaceType, outcome, candidates, volatile, work, Goto, Collect, EnterFinish,
        EnterPause, AskCoordinator, Stopped
<1>1. PlaceType /\ (pc = "wait" => aim \in {"loop", "drain"})
  BY DEF TypeInv, TypeOK, Positions
<1> USE <1>1
<1>2. CASE Startup
  BY <1>2 DEF Startup, Start, Conclude, RequestInitial, Underfunded, Reconcile
<1>3. CASE CollectOne
  BY <1>3 DEF CollectOne, AcceptReport, DropCancelled, FailWorker
<1>4. CASE Collection /\ ~CollectOne
  BY <1>4 DEF Collection, CollectedRaced, CollectedInLoop, CollectedDirected,
              CollectedStop, CollectedFinish, CollectedPause, CollectedRaise,
              CollectedDrain, Collected
<1>5. CASE Arbitration
  BY <1>5 DEF Arbitration, Promote, ArbitrateNext, ArbitrateEnd
<1>6. CASE Loop
  BY <1>6 DEF Loop, LoopRequests, LoopArbitrates, LoopAudits, LoopStops, LoopAsks,
              LoopCollects, LoopLaunches, WaitReturns, CollectRaced, Turn, Quiet,
              BeginAudit
<1>7. CASE Ending
  BY <1>7 DEF Ending, SettlePassed, SettleFailed, FinishAudits, FinishCommits, Drain,
              BeginAudit, GatesFirst
<1>8. CASE Answers
  BY <1>8 DEF Answers, WorkerReturns, AuditReturns, AuditFails, EvaluationReturns,
              AuditUnavailable, CoordinatorDecides, Decide
<1>9. CASE Failure
  BY <1>9 DEF Failure, ContextExhausted, Raise, Exhausts, Refuse, Crash, Awaiting
<1>10. CASE UNCHANGED vars
  BY <1>10 DEF vars
<1> QED
  BY <1>2, <1>3, <1>4, <1>5, <1>6, <1>7, <1>8, <1>9, <1>10 DEF Next

CurrentType == current \in Ids \cup {0}

LEMMA CurrentTypeStep ==
    ASSUME TypeInv, [Next]_vars
    PROVE  CurrentType'
<1> USE DEF CurrentType, outcome, candidates, volatile, work, Goto, Collect, EnterFinish,
            EnterPause, AskCoordinator
<1>1. CurrentType /\ batch \subseteq Ids /\ Ids \subseteq Nat
  BY DEF TypeInv, TypeOK, Ids
<1>2. Assignments \subseteq Ids
  BY BoundsAssumption DEF Assignments, Ids, TypeInv, TypeOK
<1>3. \A S \in SUBSET Ids : S # {} => Smallest(S) \in Ids
  BY <1>1, Least
<1> USE <1>1, <1>2, <1>3
<1>4. CASE Startup
  BY <1>4 DEF Startup, Start, Conclude, RequestInitial, Underfunded, Reconcile
<1>5. CASE CollectOne
  BY <1>5 DEF CollectOne, AcceptReport, DropCancelled, FailWorker
<1>6. CASE Collection /\ ~CollectOne
  BY <1>6 DEF Collection, CollectedRaced, CollectedInLoop, CollectedDirected,
              CollectedStop, CollectedFinish, CollectedPause, CollectedRaise,
              CollectedDrain, Collected
<1>7. CASE Arbitration
  BY <1>7 DEF Arbitration, Promote, ArbitrateNext, ArbitrateEnd
<1>8. CASE Loop
  BY <1>8 DEF Loop, LoopRequests, LoopArbitrates, LoopAudits, LoopStops, LoopAsks,
              LoopCollects, LoopLaunches, WaitReturns, CollectRaced, Turn, Quiet,
              BeginAudit
<1>9. CASE Ending
  BY <1>9 DEF Ending, SettlePassed, SettleFailed, FinishAudits, FinishCommits, Drain,
              BeginAudit, GatesFirst
<1>10. CASE Answers
  BY <1>10 DEF Answers, WorkerReturns, AuditReturns, AuditFails, EvaluationReturns,
               AuditUnavailable, CoordinatorDecides, Decide
<1>11. CASE Failure
  BY <1>11 DEF Failure, ContextExhausted, Raise, Exhausts, Refuse, Crash, Awaiting
<1>12. CASE UNCHANGED vars
  BY <1>12 DEF vars
<1> QED
  BY <1>4, <1>5, <1>6, <1>7, <1>8, <1>9, <1>10, <1>11, <1>12 DEF Next

DurableType ==
    /\ decisions \in Seq({"none", "partial", "budget_exhausted"})
    /\ Len(decisions) <= MaxDecisions
    /\ request \in BOOLEAN /\ due \in BOOLEAN

LEMMA DurableTypeStep ==
    ASSUME TypeInv, [Next]_vars
    PROVE  DurableType'
<1> USE DEF DurableType, outcome, candidates, volatile, work, Goto, Collect, EnterFinish,
            EnterPause, AskCoordinator
<1>1. DurableType /\ (pc = "coordinator" => Len(decisions) < MaxDecisions)
  BY DEF TypeInv, TypeOK, Positions
<1>2. MaxDecisions \in Nat
  BY BoundsAssumption
<1> USE <1>1, <1>2
<1>3. CASE Startup
  BY <1>3 DEF Startup, Start, Conclude, RequestInitial, Underfunded, Reconcile
<1>4. CASE CollectOne
  BY <1>4 DEF CollectOne, AcceptReport, DropCancelled, FailWorker
<1>5. CASE Collection /\ ~CollectOne
  BY <1>5 DEF Collection, CollectedRaced, CollectedInLoop, CollectedDirected,
              CollectedStop, CollectedFinish, CollectedPause, CollectedRaise,
              CollectedDrain, Collected
<1>6. CASE Arbitration
  BY <1>6 DEF Arbitration, Promote, ArbitrateNext, ArbitrateEnd
<1>7. CASE Loop
  BY <1>7 DEF Loop, LoopRequests, LoopArbitrates, LoopAudits, LoopStops, LoopAsks,
              LoopCollects, LoopLaunches, WaitReturns, CollectRaced, Turn, Quiet,
              BeginAudit
<1>8. CASE Ending
  BY <1>8 DEF Ending, SettlePassed, SettleFailed, FinishAudits, FinishCommits, Drain,
              BeginAudit, GatesFirst
<1>9. CASE Answers
  <2>1. CASE WorkerReturns \/ AuditReturns \/ AuditFails \/ EvaluationReturns \/ AuditUnavailable
    BY <2>1 DEF WorkerReturns, AuditReturns, AuditFails, EvaluationReturns, AuditUnavailable
  <2>2. CASE CoordinatorDecides
    <3>1. Len(decisions) < MaxDecisions /\ request' = FALSE /\ due' \in BOOLEAN
      BY <2>2 DEF CoordinatorDecides, Decide
    <3>2. PICK s \in {"none", "partial", "budget_exhausted"} : decisions' = Append(decisions, s)
      BY <2>2 DEF CoordinatorDecides, Decide
    <3>3. decisions' \in Seq({"none", "partial", "budget_exhausted"})
      BY <3>2, AppendProperties
    <3>4. Len(decisions') <= MaxDecisions
      BY <3>1, <3>2, AppendProperties
    <3> QED
      BY <3>1, <3>3, <3>4
  <2> QED
    BY <1>9, <2>1, <2>2 DEF Answers
<1>10. CASE Failure
  BY <1>10 DEF Failure, ContextExhausted, Raise, Exhausts, Refuse, Crash, Awaiting
<1>11. CASE UNCHANGED vars
  BY <1>11 DEF vars
<1> QED
  BY <1>3, <1>4, <1>5, <1>6, <1>7, <1>8, <1>9, <1>10, <1>11 DEF Next

CandidateType ==
    /\ pending \subseteq Ids /\ deferred \in Seq(Ids) /\ attempted \subseteq SUBSET Ids
    /\ attempt \in [reports : SUBSET Ids, result : {"none", "open", "passed", "failed", "budget"}]

LEMMA CandidateTypeStep ==
    ASSUME TypeInv, [Next]_vars
    PROVE  CandidateType'
<1> USE DEF CandidateType, outcome, candidates, volatile, work, Goto, Collect, EnterFinish,
            EnterPause, AskCoordinator
<1>1. CandidateType
  BY DEF TypeInv, TypeOK
<1>2. \A S \in SUBSET Ids : S # {} => Smallest(S) \in Ids
  <2>1. Ids \subseteq Nat
    BY DEF Ids
  <2> QED
    BY <2>1, Least
<1>3. NextWaiting \subseteq Ids /\ \A p : Undeferred(p) \in Seq(Ids)
  BY <1>1, NextWaitingFacts, UndeferredFacts
<1>4. NoAttempt \in [reports : SUBSET Ids, result : {"none", "open", "passed", "failed", "budget"}]
  BY DEF NoAttempt
<1>5. WithStatus("completed") \subseteq Ids /\ batch \subseteq Ids
  <2>1. /\ Len(pool) \in Nat /\ Len(pool) <= MaxAssignments /\ batch \subseteq Ids
        /\ MaxAssignments \in Nat
    BY BoundsAssumption DEF TypeInv, TypeOK
  <2> QED
    BY <2>1 DEF WithStatus, Assignments, Ids
<1> USE <1>1, <1>2, <1>3, <1>4, <1>5
<1>6. CASE Startup
  BY <1>6 DEF Startup, Start, Conclude, RequestInitial, Underfunded, Reconcile
<1>7. CASE CollectOne
  <2> DEFINE a == Smallest(batch)
             r == task[a]
  <2>1. a \in Ids
    BY <1>7 DEF CollectOne
  <2>2. AcceptReport(a, r) \/ DropCancelled(a) \/ FailWorker(a, r)
    BY <1>7 DEF CollectOne
  <2> HIDE DEF a, r
  <2> QED
    <3>1. Append(deferred, a) \in Seq(Ids)
      BY <2>1, AppendProperties
    <3>2. CASE AcceptReport(a, r)
      BY <2>1, <3>1, <3>2 DEF AcceptReport
    <3>3. CASE DropCancelled(a) \/ FailWorker(a, r)
      BY <3>3 DEF DropCancelled, FailWorker
    <3> QED
      BY <2>2, <3>2, <3>3
<1>8. CASE Collection /\ ~CollectOne
  BY <1>8 DEF Collection, CollectedRaced, CollectedInLoop, CollectedDirected,
              CollectedStop, CollectedFinish, CollectedPause, CollectedRaise,
              CollectedDrain, Collected
<1>9. CASE Arbitration
  BY <1>9 DEF Arbitration, Promote, ArbitrateNext, ArbitrateEnd
<1>10. CASE Loop
  BY <1>10 DEF Loop, LoopRequests, LoopArbitrates, LoopAudits, LoopStops, LoopAsks,
               LoopCollects, LoopLaunches, WaitReturns, CollectRaced, Turn, Quiet,
               BeginAudit
<1>11. CASE Ending
  <2>1. CASE SettlePassed \/ SettleFailed \/ FinishCommits \/ Drain
    <3>1. <<>> \in Seq(Ids)
      OBVIOUS
    <3>2. CASE SettlePassed \/ SettleFailed
      BY <3>2 DEF SettlePassed, SettleFailed
    <3>3. CASE FinishCommits \/ Drain
      BY <3>1, <3>3 DEF FinishCommits, Drain
    <3> QED
      BY <2>1, <3>2, <3>3
  <2>2. CASE FinishAudits
    <3>1. Ungated \subseteq Ids
      BY DEF Ungated
    <3> QED
      BY <2>2, <3>1 DEF FinishAudits, BeginAudit
  <2> QED
    BY <1>11, <2>1, <2>2 DEF Ending
<1>12. CASE Answers
  <2>1. CASE WorkerReturns \/ AuditReturns \/ AuditFails \/ AuditUnavailable
    BY <2>1 DEF WorkerReturns, AuditReturns, AuditFails, AuditUnavailable
  <2>2. CASE EvaluationReturns
    BY <2>2 DEF EvaluationReturns
  <2>3. CASE CoordinatorDecides
    BY <2>3 DEF CoordinatorDecides, Decide
  <2> QED
    BY <1>12, <2>1, <2>2, <2>3 DEF Answers
<1>13. CASE Failure
  BY <1>13 DEF Failure, ContextExhausted, Raise, Exhausts, Refuse, Crash, Awaiting
<1>14. CASE UNCHANGED vars
  BY <1>14 DEF vars
<1> QED
  BY <1>6, <1>7, <1>8, <1>9, <1>10, <1>11, <1>12, <1>13, <1>14 DEF Next

LEMMA TypeStep ==
    ASSUME TypeInv, [Next]_vars
    PROVE  TypeInv'
<1>1. Concluded' /\ Positions'
  BY ConcludedStep, PositionsStep DEF TypeInv
<1>2. pool' \in Seq(Assignment) /\ Len(pool') <= MaxAssignments
  BY RecordsStep DEF TypeInv, TypeOK, Pool, NewRecords
<1>3. TaskType' /\ PlaceType' /\ CurrentType' /\ DurableType' /\ CandidateType'
  BY TaskTypeStep, PlaceTypeStep, CurrentTypeStep, DurableTypeStep, CandidateTypeStep
<1> QED
  BY <1>1, <1>2, <1>3 DEF TypeInv, TypeOK, Concluded, Positions, TaskType, PlaceType,
     CurrentType, DurableType, CandidateType

LEMMA TypesHold == Spec => []TypeInv
BY InitTypeInv, TypeStep, PTL DEF Spec

(* The work. -----------------------------------------------------------------*)

Refutations == {a \in Assignments : pool[a].report = "refutation"}

\* Every task belongs to an assignment that is running, or was retired since;
\* every running assignment has one, unless the process is down.
Held ==
    /\ Active \subseteq Assignments
    /\ \A a \in Active : pool[a].status \in {"running", "retired"}
    /\ pc # "down" => \A a \in Assignments : pool[a].status = "running" => a \in Active
    /\ \A a \in Assignments : pool[a].report # "none" => pool[a].status = "completed"
    /\ pc = "ended" => Open = {}

\* What is to be collected is done, and the last collection collects everything.
Gathering ==
    /\ pc = "collect" => batch \subseteq Done
    /\ pc = "collect" /\ (aim \in {"finish", "pause", "raise"} \/ goal # "none")
          => Active \subseteq batch
    /\ pc \in {"initial", "conclude", "reconcile", "finish"} \cup Stopped => Active = {}
    /\ pc \in {"evaluate", "settle"} /\ goal # "none" => Active = {}

\* Only claimed refutations are audited.
Auditing ==
    /\ pc = "arbitrate" => batch \subseteq Refutations
    /\ current # 0 => current \in Refutations
    /\ \A a \in Assignments : pool[a].audit # "none" => a \in Refutations

WorkInv == TypeInv /\ Held /\ Gathering /\ Auditing

\* What the steps do to the tasks.
LEMMA TaskFacts ==
    /\ Done \subseteq Active
    /\ UNCHANGED task => Active' = Active /\ Done' = Done
    /\ \A S : task' = Cancelled(S) =>
          Active' = Active /\ Done \subseteq Done' /\ Active \cap S \subseteq Done'
    /\ task' = [a \in Ids |-> "none"] => Active' = {}
BY DEF Active, Done, Cancelled

LEMMA ReturnFacts ==
    ASSUME TypeInv, WorkerReturns
    PROVE  Active' = Active /\ Done \subseteq Done'
BY DEF WorkerReturns, Active, Done, TypeInv, TypeOK, Answer

LEMMA CollectFacts ==
    ASSUME TypeInv, CollectOne
    PROVE  \E a \in batch : /\ a \in Ids /\ a = Smallest(batch) /\ batch' = batch \ {a}
                            /\ Active' = Active \ {a} /\ Done' = Done \ {a}
<1>1. batch \in SUBSET Nat /\ batch # {} /\ batch \subseteq Ids
  BY DEF CollectOne, TypeInv, TypeOK, Ids
<1>2. PICK a \in batch : a = Smallest(batch)
  BY <1>1, Least
<1>3. task' = [task EXCEPT ![a] = "none"] /\ batch' = batch \ {a}
  BY <1>2 DEF CollectOne
<1>4. Active' = Active \ {a} /\ Done' = Done \ {a}
  BY <1>1, <1>3 DEF Active, Done, TypeInv, TypeOK
<1> QED
  BY <1>1, <1>2, <1>3, <1>4

LEMMA GatheringStep ==
    ASSUME WorkInv, [Next]_vars
    PROVE  Gathering'
<1> USE DEF Gathering, outcome, candidates, volatile, work, Goto, Collect, EnterFinish,
            EnterPause, AskCoordinator, Stopped
<1>1. /\ Gathering /\ Active \subseteq Ids /\ Done \subseteq Active
      /\ (pc = "wait" => aim \in {"loop", "drain"})
      /\ goal # "none" => pc \in {"collect", "finish", "evaluate", "settle"} \cup Stopped
      /\ pc = "collect" /\ aim = "finish" => goal # "none"
  BY DEF WorkInv, TypeInv, Positions, Active, Done
<1>2. /\ UNCHANGED task => Active' = Active /\ Done' = Done
      /\ \A S : task' = Cancelled(S) =>
            Active' = Active /\ Done \subseteq Done' /\ Active \cap S \subseteq Done'
      /\ task' = [a \in Ids |-> "none"] => Active' = {}
  BY TaskFacts
<1> USE <1>1, <1>2
<1>3. CASE Startup
  BY <1>3 DEF Startup, Start, Conclude, RequestInitial, Underfunded, Reconcile
<1>4. CASE CollectOne
  <2>1. \E a \in batch : /\ batch' = batch \ {a}
                          /\ Active' = Active \ {a} /\ Done' = Done \ {a}
    BY <1>4, CollectFacts DEF WorkInv
  <2> QED
    BY <1>4, <2>1 DEF CollectOne
<1>5. CASE Collection /\ ~CollectOne
  BY <1>5 DEF Collection, CollectedRaced, CollectedInLoop, CollectedDirected,
              CollectedStop, CollectedFinish, CollectedPause, CollectedRaise,
              CollectedDrain, Collected
<1>6. CASE Arbitration
  BY <1>6 DEF Arbitration, Promote, ArbitrateNext, ArbitrateEnd
<1>7. CASE Loop
  BY <1>7 DEF Loop, LoopRequests, LoopArbitrates, LoopAudits, LoopStops, LoopAsks,
              LoopCollects, LoopLaunches, WaitReturns, CollectRaced, Turn, Quiet,
              BeginAudit
<1>8. CASE Ending
  BY <1>8 DEF Ending, SettlePassed, SettleFailed, FinishAudits, FinishCommits, Drain,
              BeginAudit, GatesFirst
<1>9. CASE Answers
  <2>1. CASE WorkerReturns
    <3>1. Active' = Active /\ Done \subseteq Done'
      BY <2>1, ReturnFacts DEF WorkInv
    <3> QED
      BY <2>1, <3>1 DEF WorkerReturns
  <2>2. CASE AuditReturns \/ AuditFails \/ AuditUnavailable
    BY <2>2 DEF AuditReturns, AuditFails, AuditUnavailable
  <2>3. CASE EvaluationReturns
    BY <2>3 DEF EvaluationReturns
  <2>4. CASE CoordinatorDecides
    BY <2>4 DEF CoordinatorDecides, Decide
  <2> QED
    BY <1>9, <2>1, <2>2, <2>3, <2>4 DEF Answers
<1>10. CASE Failure
  BY <1>10 DEF Failure, ContextExhausted, Raise, Exhausts, Refuse, Crash, Awaiting
<1>11. CASE UNCHANGED vars
  BY <1>11 DEF vars
<1> QED
  BY <1>3, <1>4, <1>5, <1>6, <1>7, <1>8, <1>9, <1>10, <1>11 DEF Next

\* The record of the collected assignment.
LEMMA CollectRecord ==
    ASSUME TypeInv, CollectOne, NEW a, a = Smallest(batch)
    PROVE  /\ DOMAIN pool' = Assignments
           /\ \A b \in Assignments : b # a => pool'[b] = pool[b]
           /\ a \in Assignments =>
                 IF task[a] \in {"partial", "candidate", "refutation"}
                 THEN pool'[a].status = "completed" /\ pool'[a].report = task[a]
                 ELSE /\ pool'[a].status \in {"queued", "retired", "cancelled"}
                      /\ pool'[a].report = pool[a].report
<1>1. Pool /\ \A b \in Assignments : pool[b] \in Assignment
  BY DEF TypeInv, TypeOK, Pool, Assignments
<1>2. /\ pool' = pool \/ \E new : pool' = [pool EXCEPT ![a] = new]
      /\ task[a] \in {"partial", "candidate", "refutation"} =>
            pool' = [pool EXCEPT ![a] = [pool[a] EXCEPT !.status = "completed",
                                                        !.report = task[a]]]
      /\ task[a] \notin {"partial", "candidate", "refutation"} =>
            \/ pool' = pool /\ pool[a].status = "retired"
            \/ \E s \in {"queued", "retired", "cancelled"} :
                  \/ pool' = [pool EXCEPT ![a] = [pool[a] EXCEPT !.status = s]]
                  \/ pool' = [pool EXCEPT ![a] = [pool[a] EXCEPT !.status = s,
                                                                 !.repaired = TRUE]]
  <2>1. CASE task[a] \in {"partial", "candidate", "refutation"}
    BY <2>1 DEF CollectOne, AcceptReport
  <2>2. CASE task[a] = "cancelled"
    BY <2>2 DEF CollectOne, DropCancelled
  <2>3. CASE task[a] \notin {"partial", "candidate", "refutation", "cancelled"}
    BY <2>3 DEF CollectOne, FailWorker
  <2> QED
    BY <2>1, <2>2, <2>3
<1>3. DOMAIN pool' = Assignments /\ \A b \in Assignments : b # a => pool'[b] = pool[b]
  BY <1>2 DEF Assignments
<1>4. ASSUME a \in Assignments, task[a] \in {"partial", "candidate", "refutation"}
      PROVE  pool'[a].status = "completed" /\ pool'[a].report = task[a]
  <2> DEFINE q == [pool[a] EXCEPT !.status = "completed", !.report = task[a]]
  <2>1. q.status = "completed" /\ q.report = task[a]
    BY <1>1, <1>4 DEF Assignment
  <2>2. pool' = [pool EXCEPT ![a] = q]
    BY <1>2, <1>4
  <2> HIDE DEF q
  <2> QED
    BY <1>4, <2>1, <2>2 DEF Assignments
<1>5. ASSUME a \in Assignments, task[a] \notin {"partial", "candidate", "refutation"}
      PROVE  /\ pool'[a].status \in {"queued", "retired", "cancelled"}
             /\ pool'[a].report = pool[a].report
  <2>1. CASE pool' = pool /\ pool[a].status = "retired"
    BY <2>1
  <2>2. CASE \E s \in {"queued", "retired", "cancelled"} :
                pool' = [pool EXCEPT ![a] = [pool[a] EXCEPT !.status = s]]
    <3>1. PICK s \in {"queued", "retired", "cancelled"} :
                  pool' = [pool EXCEPT ![a] = [pool[a] EXCEPT !.status = s]]
      BY <2>2
    <3>2. pool[a] \in Assignment
      BY <1>1, <1>5
    <3>3. pool'[a] = [pool[a] EXCEPT !.status = s]
      BY <1>5, <3>1 DEF Assignments
    <3> QED
      BY <3>2, <3>3 DEF Assignment
  <2>3. CASE \E s \in {"queued", "retired", "cancelled"} :
                pool' = [pool EXCEPT ![a] = [pool[a] EXCEPT !.status = s, !.repaired = TRUE]]
    <3>1. PICK s \in {"queued", "retired", "cancelled"} :
                  pool' = [pool EXCEPT ![a] = [pool[a] EXCEPT !.status = s, !.repaired = TRUE]]
      BY <2>3
    <3>2. pool[a] \in Assignment
      BY <1>1, <1>5
    <3>3. pool'[a] = [pool[a] EXCEPT !.status = s, !.repaired = TRUE]
      BY <1>5, <3>1 DEF Assignments
    <3> QED
      BY <3>2, <3>3 DEF Assignment
  <2> QED
    BY <1>2, <1>5, <2>1, <2>2, <2>3
<1> QED
  BY <1>3, <1>4, <1>5

\* The other steps keep the tasks that the process has, if it does not end.
Changes == \/ Start \/ CollectedStop \/ FinishCommits \/ LoopLaunches \/ Drain
           \/ LoopCollects \/ LoopAudits \/ FinishAudits \/ AuditReturns \/ CollectOne
           \/ CoordinatorDecides

LEMMA TasksStay ==
    ASSUME TypeInv, [Next]_vars, ~Changes
    PROVE  /\ pool' = pool
           /\ Active' = Active \/ (Active' = {} /\ pc' = "down")
           /\ pc' # "down" => pc # "down"
           /\ pc' = "ended" => pc = "ended"
<1> USE DEF Changes, outcome, candidates, volatile, work, Goto, Collect, EnterFinish,
            EnterPause, AskCoordinator, Stopped
<1>1. pool' = pool
  BY PoolChanges
<1>2. /\ UNCHANGED task => Active' = Active
      /\ \A S : task' = Cancelled(S) => Active' = Active
      /\ task' = [a \in Ids |-> "none"] => Active' = {}
  BY TaskFacts
<1>3. /\ Active' = Active \/ (Active' = {} /\ pc' = "down")
      /\ pc' # "down" => pc # "down"
      /\ pc' = "ended" => pc = "ended"
  <2>0. pc = "wait" => aim \in {"loop", "drain"}
    BY DEF TypeInv, Positions
  <2>1. CASE Startup
    BY <1>2, <2>1 DEF Startup, Conclude, RequestInitial, Underfunded, Reconcile
  <2>2. CASE Collection
    BY <1>2, <2>2 DEF Collection, CollectedRaced, CollectedInLoop, CollectedDirected,
                      CollectedFinish, CollectedPause, CollectedRaise, CollectedDrain, Collected
  <2>3. CASE Arbitration
    <3>1. current # 0 => pc \in {"collect", "arbitrate"}
      BY DEF TypeInv, Concluded
    <3> QED
      BY <1>2, <2>3, <3>1 DEF Arbitration, Promote, ArbitrateNext, ArbitrateEnd
  <2>4. CASE Loop
    BY <1>2, <2>0, <2>4 DEF Loop, LoopRequests, LoopArbitrates, LoopStops, LoopAsks,
                            WaitReturns, CollectRaced, Turn, Quiet
  <2>5. CASE Ending
    BY <1>2, <2>5 DEF Ending, SettlePassed, SettleFailed
  <2>6. CASE Answers
    <3>1. WorkerReturns => Active' = Active
      BY ReturnFacts
    <3>2. Yields => pc # "down"
      BY DEF Yields, Awaiting, TypeInv, Concluded
    <3> QED
      BY <1>2, <2>6, <3>1, <3>2 DEF Answers, WorkerReturns, AuditFails, EvaluationReturns,
                                    AuditUnavailable
  <2>7. CASE Failure
    <3>1. Awaiting => pc \notin {"down", "ended"}
      BY DEF Awaiting, TypeInv, Concluded
    <3> QED
      BY <1>2, <2>7, <3>1 DEF Failure, ContextExhausted, Raise, Exhausts, Refuse, Crash
  <2>8. CASE UNCHANGED vars
    BY <1>2, <2>8 DEF vars
  <2> QED
    BY <2>1, <2>2, <2>3, <2>4, <2>5, <2>6, <2>7, <2>8 DEF Next
<1> QED
  BY <1>1, <1>3

LEMMA HeldStep ==
    ASSUME WorkInv, [Next]_vars
    PROVE  Held'
<1> USE DEF Held
<1>1. /\ Held /\ TypeInv /\ Pool /\ Active \subseteq Ids
      /\ \A a \in Assignments : pool[a] \in Assignment
  BY DEF WorkInv, TypeInv, TypeOK, Pool, Assignments, Active
<1>2. /\ UNCHANGED task => Active' = Active
      /\ \A S : task' = Cancelled(S) => Active' = Active
      /\ task' = [a \in Ids |-> "none"] => Active' = {}
  BY TaskFacts
<1>3. CASE ~Changes
  <2>1. Assignments' = Assignments /\ Open' = Open
    BY <1>3, TasksStay, <1>1 DEF Assignments, Open, WithStatus
  <2> QED
    BY <1>1, <1>3, <2>1, TasksStay
<1>4. CASE Start
  <2>1. Active' = {} /\ pc' # "ended" /\ pool' = Moved(pool, "running", "queued")
    BY <1>2, <1>4 DEF Start
  <2>2. /\ DOMAIN pool' = Assignments
        /\ \A a \in Assignments :
              pool'[a] = [pool[a] EXCEPT !.status = IF @ = "running" THEN "queued" ELSE @]
    BY <1>1, <2>1, MovedPool DEF Lifecycle
  <2>3. \A a \in Assignments :
           /\ pool'[a].status = IF pool[a].status = "running" THEN "queued" ELSE pool[a].status
           /\ pool'[a].report = pool[a].report
    BY <1>1, <2>2 DEF Assignment
  <2> QED
    BY <1>1, <2>1, <2>2, <2>3 DEF Assignments
<1>5. CASE CollectedStop \/ FinishCommits
  <2>1. PICK to \in {"retired", "cancelled"} :
           pool' = Moved(pool, "queued", to)
    BY <1>5 DEF CollectedStop, FinishCommits
  <2>2. /\ Active' = Active /\ pc # "down"
        /\ pc' = "ended" => pc = "finish"
    BY <1>2, <1>5 DEF CollectedStop, Collected, FinishCommits, EnterFinish, Collect, Goto
  <2>3. /\ DOMAIN pool' = Assignments
        /\ \A a \in Assignments :
              pool'[a] = [pool[a] EXCEPT !.status = IF @ = "queued" THEN to ELSE @]
    BY <1>1, <2>1, MovedPool DEF Lifecycle
  <2>4. \A a \in Assignments :
           /\ pool'[a].status = IF pool[a].status = "queued" THEN to ELSE pool[a].status
           /\ pool'[a].report = pool[a].report
    BY <1>1, <2>3 DEF Assignment
  <2>5. ASSUME pc' = "ended"
        PROVE  Open' = {}
    <3>1. Active = {}
      BY <2>2, <2>5 DEF WorkInv, Gathering
    <3> QED
      BY <1>1, <2>2, <2>3, <2>4, <2>5, <3>1 DEF Open, WithStatus, Assignments
  <2> QED
    BY <1>1, <2>2, <2>3, <2>4, <2>5 DEF Assignments
<1>6. CASE LoopCollects \/ LoopAudits \/ FinishAudits
  <2>1. /\ pool' = pool \/ pool' = UnlaunchedRetired
        /\ Active' = Active /\ pc # "down" /\ pc' # "ended"
    BY <1>2, <1>6 DEF LoopCollects, LoopAudits, FinishAudits, BeginAudit, Collect, Goto, Turn,
       Quiet
  <2>2. /\ DOMAIN pool' = Assignments
        /\ \A a \in Assignments :
              \/ pool'[a] = pool[a]
              \/ pool[a].status = "queued" /\ pool'[a] = [pool[a] EXCEPT !.status = "retired"]
    BY <1>1, <2>1, RetiredPool DEF Assignments
  <2>3. \A a \in Assignments :
           /\ \/ pool'[a].status = pool[a].status
              \/ pool[a].status = "queued" /\ pool'[a].status = "retired"
           /\ pool'[a].report = pool[a].report
    BY <1>1, <2>2 DEF Assignment
  <2> QED
    BY <1>1, <2>1, <2>2, <2>3 DEF Assignments
<1>7. CASE LoopLaunches \/ Drain
  <2>1. PICK p \in {pool, UnlaunchedRetired} :
           /\ pool' = Launched(p) /\ pc # "down" /\ pc' # "ended"
           /\ \/ task' = Cancelled(Ids) /\ Launch(p) = {}
              \/ task' = [a \in Ids |-> IF a \in Launch(p) THEN "working" ELSE task[a]]
    BY <1>7 DEF LoopLaunches, Drain, Quiet, Turn, EnterFinish, Collect
  <2>2. /\ p \in Seq(Assignment) /\ DOMAIN p = Assignments
        /\ \A a \in Assignments :
              \/ p[a] = pool[a]
              \/ pool[a].status = "queued" /\ p[a] = [pool[a] EXCEPT !.status = "retired"]
    BY <1>1, RetiredPool DEF Pool, Assignments
  <2>3. \A a \in Assignments :
           /\ \/ p[a].status = pool[a].status
              \/ pool[a].status = "queued" /\ p[a].status = "retired"
           /\ p[a].report = pool[a].report /\ p[a] \in Assignment
    BY <1>1, <2>2 DEF Assignment, Lifecycle
  <2>4. /\ DOMAIN pool' = Assignments
        /\ \A a \in Assignments :
              pool'[a] = IF a \in Launch(p)
                         THEN [p[a] EXCEPT !.status = "running", !.launched = TRUE] ELSE p[a]
    BY <2>1, <2>2, LaunchedPool
  <2>5. \A a \in Assignments :
           /\ pool'[a].status = IF a \in Launch(p) THEN "running" ELSE p[a].status
           /\ pool'[a].report = p[a].report
    <3> SUFFICES ASSUME NEW a \in Assignments
                 PROVE  /\ pool'[a].status = IF a \in Launch(p) THEN "running" ELSE p[a].status
                        /\ pool'[a].report = p[a].report
      OBVIOUS
    <3>1. p[a] \in Assignment
      BY <2>3
    <3>2. pool'[a] = IF a \in Launch(p)
                     THEN [p[a] EXCEPT !.status = "running", !.launched = TRUE] ELSE p[a]
      BY <2>4
    <3> QED
      BY <3>1, <3>2 DEF Assignment
  <2>6. \A a \in Launch(p) : a \in Assignments /\ p[a].status = "queued"
    BY <2>2 DEF Launch
  <2>7. Active' = Active \cup Launch(p)
    <3>1. Launch(p) \subseteq Ids
      BY <1>1, <2>6, BoundsAssumption DEF Assignments, Ids, TypeInv, TypeOK
    <3> QED
      BY <1>2, <2>1, <3>1 DEF Active
  <2> QED
    <3>1. Assignments' = Assignments
      BY <2>4 DEF Assignments
    <3>2. \A a \in Assignments :
             IF a \in Launch(p) THEN pool'[a].status = "running" /\ pool'[a].report = "none"
             ELSE /\ \/ pool'[a].status = pool[a].status
                     \/ pool[a].status = "queued" /\ pool'[a].status = "retired"
                  /\ pool'[a].report = pool[a].report
      <4>1. \A a \in Launch(p) : pool[a].status = "queued"
        BY <2>3, <2>6
      <4> QED
        BY <1>1, <2>3, <2>5, <2>6, <4>1
    <3> QED
      BY <1>1, <2>1, <2>6, <2>7, <3>1, <3>2
<1>8. CASE AuditReturns
  <2>1. PICK v \in {"verified", "failed", "blocked"} :
           pool' = [pool EXCEPT ![current] = [pool[current] EXCEPT !.audit = v]]
    BY <1>8 DEF AuditReturns
  <2>2. Active' = Active /\ pc' = pc /\ pc \notin {"down", "ended"}
    BY <1>1, <1>2, <1>8 DEF AuditReturns, TypeInv, Concluded
  <2>3. DOMAIN pool' = Assignments /\ \A a \in Assignments :
           pool'[a].status = pool[a].status /\ pool'[a].report = pool[a].report
    BY <1>1, <2>1 DEF Assignments, Assignment
  <2> QED
    BY <1>1, <2>2, <2>3 DEF Assignments
<1>9. CASE CollectOne
  <2>1. PICK a \in batch : a \in Ids /\ a = Smallest(batch) /\ Active' = Active \ {a}
    BY <1>1, <1>9, CollectFacts
  <2>2. pc = "collect" /\ pc' = pc /\ a \in Active
    BY <1>9, TaskFacts DEF CollectOne, WorkInv, Gathering
  <2>3. a \in Assignments /\ pool[a].report = "none"
    BY <1>1, <2>2
  <2> QED
    BY <1>1, <1>9, <2>1, <2>2, <2>3, CollectRecord DEF Assignments
<1>10. CASE CoordinatorDecides
  <2>1. PICK n \in 0..MaxOpen, p \in SUBSET WithStatus("completed"), d \in SUBSET Open,
             s \in {"none", "partial", "budget_exhausted"}, again \in BOOLEAN :
                Decide(n, p, d, s, again)
    BY <1>10 DEF CoordinatorDecides
  <2>2. n \in Nat
    BY <2>1, BoundsAssumption
  <2>3. /\ pool' \in Seq(Assignment) /\ Len(pool') = Len(pool) + n
        /\ \A a \in Assignments :
              pool'[a] = IF a \in d THEN [pool[a] EXCEPT !.status = "retired"] ELSE pool[a]
        /\ \A a \in DOMAIN pool' \ Assignments : pool'[a] = Fresh
    BY <1>1, <2>1, <2>2, DecidedPool DEF Decide
  <2>4. Assignments \subseteq DOMAIN pool'
    BY <1>1, <2>2, <2>3 DEF Assignments, Pool
  <2>5. Active' = Active /\ pc = "coordinator" /\ pc' = "collect"
    BY <1>2, <1>10, <2>1 DEF CoordinatorDecides, Decide, Collect
  <2>6. \A a \in Assignments :
           /\ \/ pool'[a].status = pool[a].status
              \/ pool[a].status \in {"queued", "running"} /\ pool'[a].status = "retired"
           /\ pool'[a].report = pool[a].report
    <3> SUFFICES ASSUME NEW a \in Assignments
                 PROVE  /\ \/ pool'[a].status = pool[a].status
                           \/ pool[a].status \in {"queued", "running"} /\ pool'[a].status = "retired"
                        /\ pool'[a].report = pool[a].report
      OBVIOUS
    <3>1. pool[a] \in Assignment
      BY <1>1
    <3>2. a \in d => pool[a].status \in {"queued", "running"}
      BY <2>1 DEF Open, WithStatus
    <3>3. pool'[a] = IF a \in d THEN [pool[a] EXCEPT !.status = "retired"] ELSE pool[a]
      BY <2>3
    <3> QED
      BY <3>1, <3>2, <3>3 DEF Assignment
  <2>7. \A a \in DOMAIN pool' \ Assignments :
           pool'[a].status = "queued" /\ pool'[a].report = "none"
    BY <2>3 DEF Fresh
  <2> QED
    BY <1>1, <2>4, <2>5, <2>6, <2>7 DEF Assignments
<1> QED
  BY <1>3, <1>4, <1>5, <1>6, <1>7, <1>8, <1>9, <1>10 DEF Changes

LEMMA RefutationsStep ==
    ASSUME WorkInv, [Next]_vars
    PROVE  /\ Refutations \subseteq Refutations' /\ Assignments \subseteq Assignments'
           /\ ~CollectOne => Refutations' = Refutations
<1>1. Pool /\ batch \subseteq Ids /\ NewRecords
  BY RecordsStep DEF WorkInv, TypeInv, TypeOK, Pool
<1>2. Assignments \subseteq Assignments'
  BY <1>1 DEF Pool, NewRecords, Assignments
<1>3. CASE ~CollectOne
  BY <1>1, <1>2, <1>3 DEF Refutations, NewRecords, Assignments, Fresh
<1>4. CASE CollectOne
  <2>1. PICK a \in batch : a = Smallest(batch)
    BY <1>4, CollectFacts DEF WorkInv
  <2>2. a \in Active
    BY <1>4, <2>1, TaskFacts DEF CollectOne, WorkInv, Gathering
  <2>3. a \in Assignments /\ pool[a].report = "none"
    BY <2>2 DEF WorkInv, Held
  <2> QED
    BY <1>2, <1>4, <2>1, <2>3, CollectRecord DEF Refutations, WorkInv, Assignments
<1> QED
  BY <1>2, <1>3, <1>4

LEMMA VerdictsStep ==
    ASSUME WorkInv, [Next]_vars
    PROVE  \A a \in Assignments' : pool'[a].audit # "none" => a \in Refutations'
<1>1. Pool /\ batch \subseteq Ids /\ NewRecords
  BY RecordsStep DEF WorkInv, TypeInv, TypeOK, Pool
<1>2. Refutations \subseteq Refutations' /\ Assignments \subseteq Assignments'
  BY RefutationsStep
<1>3. CASE ~AuditReturns
  <2>1. \A a \in Assignments : pool'[a].audit = pool[a].audit
    BY <1>1, <1>3 DEF NewRecords
  <2>2. \A a \in Assignments' \ Assignments : pool'[a].audit = "none"
    BY <1>1 DEF NewRecords, Assignments, Fresh
  <2> QED
    BY <1>2, <2>1, <2>2 DEF WorkInv, Auditing
<1>4. CASE AuditReturns
  <2>1. PICK v : pool' = [pool EXCEPT ![current].audit = v]
    BY <1>4 DEF AuditReturns
  <2>2. current \in Refutations
    BY <1>4 DEF AuditReturns, WorkInv, Auditing
  <2> QED
    BY <1>2, <2>1, <2>2 DEF WorkInv, Auditing, Assignments
<1> QED
  BY <1>3, <1>4

LEMMA AuditingStep ==
    ASSUME WorkInv, [Next]_vars
    PROVE  Auditing'
<1> DEFINE Audited == /\ pc = "arbitrate" => batch \subseteq Refutations
                      /\ current # 0 => current \in Refutations
<1>1. /\ Audited /\ (current # 0 => pc \in {"collect", "arbitrate"})
      /\ Unresolved \subseteq Refutations
      /\ {a \in Assignments : pool[a].audit = "verified"} \subseteq Refutations
      /\ pc = "wait" => aim \in {"loop", "drain"}
  BY DEF WorkInv, Auditing, TypeInv, Concluded, Positions, Unresolved, Refutations
<1>2. Refutations \subseteq Refutations'
  BY RefutationsStep
<1>3. \A S \in SUBSET Refutations : S # {} => Smallest(S) \in S
  <2>1. Refutations \subseteq Nat
    BY DEF Refutations, Assignments, WorkInv, TypeInv, TypeOK
  <2> QED
    BY <2>1, Least
<1>4. Audited'
  <2> USE <1>1, <1>2, <1>3
      DEF outcome, candidates, volatile, work, Goto, Collect, EnterFinish, EnterPause,
          AskCoordinator, Stopped
  <2>1. CASE Startup
    BY <2>1 DEF Startup, Start, Conclude, RequestInitial, Underfunded, Reconcile
  <2>2. CASE CollectOne
    <3>1. PICK a \in batch : a = Smallest(batch)
      BY <2>2, CollectFacts DEF WorkInv
    <3>2. a \in Active
      BY <2>2, <3>1, TaskFacts DEF CollectOne, WorkInv, Gathering
    <3>3. a \in Assignments
      BY <3>2 DEF WorkInv, Held
    <3>4. task[a] = "refutation" => a \in Refutations'
      BY <2>2, <3>1, <3>3, CollectRecord DEF Refutations, WorkInv, Assignments
    <3>5. pc' = "collect" /\ (current' = 0 \/ (current' = a /\ task[a] = "refutation"))
      BY <2>2, <3>1 DEF CollectOne, AcceptReport, DropCancelled, FailWorker
    <3> QED
      BY <3>4, <3>5
  <2>3. CASE Collection /\ ~CollectOne
    BY <2>3 DEF Collection, CollectedRaced, CollectedInLoop, CollectedDirected,
                CollectedStop, CollectedFinish, CollectedPause, CollectedRaise,
                CollectedDrain, Collected
  <2>4. CASE Arbitration
    BY <2>4 DEF Arbitration, Promote, ArbitrateNext, ArbitrateEnd
  <2>5. CASE Loop
    BY <2>5 DEF Loop, LoopRequests, LoopArbitrates, LoopAudits, LoopStops, LoopAsks,
                LoopCollects, LoopLaunches, WaitReturns, CollectRaced, Turn, Quiet,
                BeginAudit
  <2>6. CASE Ending
    BY <2>6 DEF Ending, SettlePassed, SettleFailed, FinishAudits, FinishCommits, Drain,
                BeginAudit, GatesFirst
  <2>7. CASE Answers
    BY <2>7 DEF Answers, WorkerReturns, AuditReturns, AuditFails, EvaluationReturns,
                AuditUnavailable, CoordinatorDecides, Decide
  <2>8. CASE Failure
    BY <2>8 DEF Failure, ContextExhausted, Raise, Exhausts, Refuse, Crash, Awaiting
  <2>9. CASE UNCHANGED vars
    BY <2>9 DEF vars
  <2> QED
    BY <2>1, <2>2, <2>3, <2>4, <2>5, <2>6, <2>7, <2>8, <2>9 DEF Next
<1>5. \A a \in Assignments' : pool'[a].audit # "none" => a \in Refutations'
  BY VerdictsStep
<1> QED
  BY <1>4, <1>5 DEF Auditing

LEMMA InitWorkInv == Init => WorkInv
<1> SUFFICES ASSUME Init PROVE WorkInv
    OBVIOUS
<1>1. Active = {} /\ Done = {} /\ Assignments = {}
  BY DEF Init, Active, Done, Assignments
<1> QED
  BY <1>1, InitTypeInv DEF WorkInv, Held, Gathering, Auditing, Open, WithStatus, Init

LEMMA WorkStep ==
    ASSUME WorkInv, [Next]_vars
    PROVE  WorkInv'
<1>1. TypeInv'
  BY TypeStep DEF WorkInv
<1>2. Held' /\ Gathering' /\ Auditing'
  BY HeldStep, GatheringStep, AuditingStep
<1> QED
  BY <1>1, <1>2 DEF WorkInv

LEMMA WorkHolds == Spec => []WorkInv
BY InitWorkInv, WorkStep, PTL DEF Spec

(* The record and the place of the loop keep their types: in particular no   *)
(* decision is made beyond the limit, and no assignment beyond it admitted.  *)
THEOREM SchedulerTypes == Spec => []TypeOK
<1>1. WorkInv => TypeOK
  BY DEF WorkInv, TypeInv
<1> QED
  BY <1>1, WorkHolds, PTL

(* No work is lost by the loop, for any number of assignments, restarts and  *)
(* failures (run_adaptive_research): while the process is up a running       *)
(* assignment has a task, a pause leaves no task, and an end no open work.   *)
THEOREM SchedulerWork == Spec => []WorkAccounted
<1>1. WorkInv => WorkAccounted
  BY DEF WorkInv, Held, Gathering, WorkAccounted, WithStatus, Stopped
<1> QED
  BY <1>1, WorkHolds, PTL

(* The candidates. -----------------------------------------------------------*)

\* Nothing is there before the first decision.
Unborn ==
    decisions = <<>> =>
        Assignments = {} /\ pending = {} /\ deferred = <<>> /\ attempt = NoAttempt

\* The loop goes back to its turn after this collection.
ToLoop == pc \in {"collect", "wait"} /\ aim \in {"loop", "directed", "stop"}

Finishing == pc = "finish" \/ (pc = "collect" /\ aim = "finish")

\* An attempt under way is what is pending; it was not attempted before, and
\* nothing else is decided until it is settled.
Attempts ==
    /\ attempt # NoAttempt =>
          /\ attempt.result # "none" /\ pending # {}
          /\ ~request /\ ~ToLoop
    /\ attempt = NoAttempt /\ pending # {} => pending \notin attempted
    /\ pc \in {"evaluate", "settle"} \/ (pc = "collect" /\ aim \in {"evaluate", "settle"})
          => attempt # NoAttempt
    /\ pc = "evaluate" \/ (pc = "collect" /\ aim = "evaluate") => attempt.result = "open"
    /\ pc = "settle" \/ (pc = "collect" /\ aim = "settle") => attempt.result # "open"
    /\ ToLoop => ~request
    /\ Finishing /\ goal \notin {"accepted", "drained"} /\ final = "none"
          => attempt = NoAttempt /\ ~request

AttemptInv == WorkInv /\ Unborn /\ Attempts

LEMMA DecisionsStay ==
    ASSUME [Next]_vars, ~CoordinatorDecides
    PROVE  decisions' = decisions
<1> USE DEF work
<1>1. CASE Startup
  BY <1>1 DEF Startup, Start, Conclude, RequestInitial, Underfunded, Reconcile
<1>2. CASE CollectOne
  BY <1>2 DEF CollectOne, AcceptReport, DropCancelled, FailWorker
<1>3. CASE Collection /\ ~CollectOne
  BY <1>3 DEF Collection, CollectedRaced, CollectedInLoop, CollectedDirected,
              CollectedStop, CollectedFinish, CollectedPause, CollectedRaise,
              CollectedDrain, Collected
<1>4. CASE Arbitration
  BY <1>4 DEF Arbitration, Promote, ArbitrateNext, ArbitrateEnd
<1>5. CASE Loop
  BY <1>5 DEF Loop, LoopRequests, LoopArbitrates, LoopAudits, LoopStops, LoopAsks,
              LoopCollects, LoopLaunches, WaitReturns, CollectRaced, Turn, Quiet,
              BeginAudit
<1>6. CASE Ending
  BY <1>6 DEF Ending, SettlePassed, SettleFailed, FinishAudits, FinishCommits, Drain,
              BeginAudit, GatesFirst
<1>7. CASE Answers
  BY <1>7 DEF Answers, WorkerReturns, AuditReturns, AuditFails, EvaluationReturns,
              AuditUnavailable
<1>8. CASE Failure
  BY <1>8 DEF Failure, ContextExhausted, Raise, Exhausts, Refuse, Crash, Awaiting
<1>9. CASE UNCHANGED vars
  BY <1>9 DEF vars
<1> QED
  BY <1>1, <1>2, <1>3, <1>4, <1>5, <1>6, <1>7, <1>8, <1>9 DEF Next

\* The candidates before a decision.
LEMMA NoCandidateYet ==
    ASSUME AttemptInv, decisions = <<>>
    PROVE  /\ Active = {} /\ Assignments = {} /\ pending = {} /\ deferred = <<>>
           /\ attempt = NoAttempt /\ NextWaiting = {} /\ Ungated = {}
           /\ pc \notin {"evaluate", "settle"} /\ ~CollectOne
<1>1. /\ Active = {} /\ Assignments = {} /\ pending = {} /\ deferred = <<>>
      /\ attempt = NoAttempt /\ pc \notin {"evaluate", "settle"}
  BY DEF AttemptInv, Unborn, Attempts, WorkInv, Held
<1>2. NextWaiting = {} /\ Ungated = {}
  <2>1. NextWaiting \subseteq ToSet(deferred)
    BY NextWaitingFacts DEF AttemptInv, WorkInv, TypeInv, TypeOK
  <2>2. ToSet(<<>>) = {}
    BY DEF ToSet
  <2> QED
    BY <1>1, <2>1, <2>2 DEF Ungated
<1>3. ~CollectOne
  BY <1>1, TaskFacts DEF CollectOne, AttemptInv, WorkInv, Gathering
<1> QED
  BY <1>1, <1>2, <1>3

LEMMA UnbornStep ==
    ASSUME AttemptInv, [Next]_vars
    PROVE  Unborn'
<1> SUFFICES ASSUME decisions' = <<>>
             PROVE  /\ Assignments' = {} /\ pending' = {} /\ deferred' = <<>>
                    /\ attempt' = NoAttempt
    BY DEF Unborn
<1>1. ~CoordinatorDecides
  <2>1. decisions \in Seq({"none", "partial", "budget_exhausted"})
    BY DEF AttemptInv, WorkInv, TypeInv, TypeOK
  <2>2. \A s \in {"none", "partial", "budget_exhausted"} : Append(decisions, s) # <<>>
    BY <2>1, AppendProperties
  <2> QED
    BY <2>2 DEF CoordinatorDecides, Decide
<1>2. decisions = <<>>
  BY <1>1, DecisionsStay
<1>3. Assignments' = {}
  <2>1. Pool /\ batch \subseteq Ids /\ NewRecords
    BY RecordsStep DEF AttemptInv, WorkInv, TypeInv, TypeOK, Pool
  <2>2. Assignments = {}
    BY <1>2, NoCandidateYet
  <2>3. pool' \in Seq(Assignment) /\ Len(pool') = Len(pool)
    BY <1>1, <2>1 DEF NewRecords
  <2>4. DOMAIN pool' = DOMAIN pool
    BY <2>1, <2>3 DEF Pool
  <2> QED
    BY <2>2, <2>4 DEF Assignments
<1>4. pending' = {} /\ deferred' = <<>> /\ attempt' = NoAttempt
  <2> USE DEF candidates
  <2>0. /\ pending = {} /\ deferred = <<>> /\ attempt = NoAttempt /\ Ungated = {}
        /\ pc \notin {"evaluate", "settle"} /\ ~CollectOne
    BY <1>2, NoCandidateYet
  <2> USE <2>0, <1>1
  <2>1. CASE Startup
    BY <2>1 DEF Startup, Start, Conclude, RequestInitial, Underfunded, Reconcile
  <2>2. CASE CollectOne
    BY <2>2 DEF CollectOne, AcceptReport, DropCancelled, FailWorker
  <2>3. CASE Collection /\ ~CollectOne
    BY <2>3 DEF Collection, CollectedRaced, CollectedInLoop, CollectedDirected,
                CollectedStop, CollectedFinish, CollectedPause, CollectedRaise,
                CollectedDrain, Collected
  <2>4. CASE Arbitration
    BY <2>4 DEF Arbitration, Promote, ArbitrateNext, ArbitrateEnd
  <2>5. CASE Loop
    BY <2>5 DEF Loop, LoopRequests, LoopArbitrates, LoopAudits, LoopStops, LoopAsks,
                LoopCollects, LoopLaunches, WaitReturns, CollectRaced, Turn, Quiet,
                BeginAudit
  <2>6. CASE Ending
    BY <2>6 DEF Ending, SettlePassed, SettleFailed, FinishAudits, FinishCommits, Drain,
                BeginAudit, GatesFirst
  <2>7. CASE Answers
    BY <2>7 DEF Answers, WorkerReturns, AuditReturns, AuditFails, EvaluationReturns,
                AuditUnavailable, CoordinatorDecides
  <2>8. CASE Failure
    BY <2>8 DEF Failure, ContextExhausted, Raise, Exhausts, Refuse, Crash, Awaiting
  <2>9. CASE UNCHANGED vars
    BY <2>9 DEF vars
  <2> QED
    BY <2>1, <2>2, <2>3, <2>4, <2>5, <2>6, <2>7, <2>8, <2>9 DEF Next
<1> QED
  BY <1>3, <1>4

LEMMA AttemptsStep ==
    ASSUME AttemptInv, [Next]_vars
    PROVE  Attempts'
<1> USE DEF Attempts, ToLoop, Finishing, outcome, candidates, volatile, work, Goto, Collect,
            EnterFinish, EnterPause, AskCoordinator, Stopped
<1>1. /\ Attempts /\ (pc = "wait" => aim \in {"loop", "drain"})
      /\ (goal # "none" =>
            /\ pc \in {"collect", "finish", "evaluate", "settle"} \cup Stopped
            /\ pc = "collect" => aim \in {"finish", "pause", "evaluate", "settle"})
      /\ (pc = "conclude" => final # "none")
      /\ (pc = "coordinator" => request)
      /\ (current # 0 => pc \in {"collect", "arbitrate"})
  BY DEF AttemptInv, WorkInv, TypeInv, Positions, Concluded
<1>2. pc = "initial" => attempt = NoAttempt /\ pending = {}
  BY NoCandidateYet DEF AttemptInv, WorkInv, TypeInv, Positions
<1>3. NoAttempt.result = "none" /\ \A p, v : [reports |-> p, result |-> v].result = v
  BY DEF NoAttempt
<1> USE <1>1, <1>2, <1>3
<1>4. CASE Startup
  BY <1>4 DEF Startup, Start, Conclude, RequestInitial, Underfunded, Reconcile
<1>5. CASE CollectOne
  <2> DEFINE a == Smallest(batch)
             r == task[a]
  <2>1. /\ AcceptReport(a, r) \/ DropCancelled(a) \/ FailWorker(a, r)
        /\ pc = "collect" /\ UNCHANGED <<decisions, request, outcome, pc, aim, goal>>
    BY <1>5 DEF CollectOne
  <2> HIDE DEF a, r
  <2>2. CASE AcceptReport(a, r)
    <3>1. attempt' = attempt /\ attempted' = attempted
      BY <2>2 DEF AcceptReport
    <3>2. \/ pending' = pending
          \/ pending = {} /\ attempt = NoAttempt /\ pending' = {a} /\ {a} \notin attempted
      BY <2>2 DEF AcceptReport
    <3> QED
      BY <2>1, <3>1, <3>2
  <2>3. CASE DropCancelled(a) \/ FailWorker(a, r)
    <3>1. UNCHANGED candidates
      BY <2>3 DEF DropCancelled, FailWorker
    <3> QED
      BY <2>1, <3>1
  <2> QED
    BY <2>1, <2>2, <2>3
<1>6. CASE Collection /\ ~CollectOne
  BY <1>6 DEF Collection, CollectedRaced, CollectedInLoop, CollectedDirected,
              CollectedStop, CollectedFinish, CollectedPause, CollectedRaise,
              CollectedDrain, Collected
<1>7. CASE Arbitration
  BY <1>7 DEF Arbitration, Promote, ArbitrateNext, ArbitrateEnd
<1>8. CASE Loop
  BY <1>8 DEF Loop, LoopRequests, LoopArbitrates, LoopAudits, LoopStops, LoopAsks,
              LoopCollects, LoopLaunches, WaitReturns, CollectRaced, Turn, Quiet,
              BeginAudit
<1>9. CASE Ending
  BY <1>9 DEF Ending, SettlePassed, SettleFailed, FinishAudits, FinishCommits, Drain,
              BeginAudit, GatesFirst
<1>10. CASE Answers
  <2>1. CASE WorkerReturns \/ AuditReturns \/ AuditFails \/ AuditUnavailable
    BY <2>1 DEF WorkerReturns, AuditReturns, AuditFails, AuditUnavailable
  <2>2. CASE EvaluationReturns
    <3>1. CASE EnterPause /\ UNCHANGED <<due, attempt>>
      BY <2>2, <3>1 DEF EvaluationReturns
    <3>2. CASE \E v \in {"passed", "failed", "budget"} :
                  /\ attempt' = [attempt EXCEPT !.result = v]
                  /\ Collect(Done, "settle") /\ UNCHANGED <<task, goal, due>>
      <4>1. \A v : [attempt EXCEPT !.result = v].result = v
        BY DEF AttemptInv, WorkInv, TypeInv, TypeOK
      <4>2. PICK v \in {"passed", "failed", "budget"} : attempt' = [attempt EXCEPT !.result = v]
        BY <3>2
      <4>3. attempt'.result = v
        BY <4>1, <4>2
      <4>4. pc = "evaluate" /\ pc' = "collect" /\ aim' = "settle"
            /\ UNCHANGED <<pending, attempted, request, final>>
        BY <2>2, <3>2 DEF EvaluationReturns
      <4>5. attempt'.result \notin {"none", "open"} /\ attempt' # NoAttempt
        BY <4>3
      <4> QED
        BY <4>4, <4>5
    <3> QED
      BY <2>2, <3>1, <3>2 DEF EvaluationReturns
  <2>3. CASE CoordinatorDecides
    <3>1. NextWaiting # {} => NextWaiting \notin attempted
      BY NextWaitingFacts DEF AttemptInv, WorkInv, TypeInv, TypeOK
    <3>2. PICK n \in 0..MaxOpen, p \in SUBSET WithStatus("completed"), d \in SUBSET Open,
               s \in {"none", "partial", "budget_exhausted"}, again \in BOOLEAN :
                  Admissible(n, p, d, s) /\ Decide(n, p, d, s, again)
      BY <2>3 DEF CoordinatorDecides
    <3>3. p # {} => p \notin attempted
      BY <3>2 DEF Admissible
    <3> QED
      BY <2>3, <3>1, <3>2, <3>3 DEF CoordinatorDecides, Decide
  <2> QED
    BY <1>10, <2>1, <2>2, <2>3 DEF Answers
<1>11. CASE Failure
  BY <1>11 DEF Failure, ContextExhausted, Raise, Exhausts, Refuse, Crash, Awaiting
<1>12. CASE UNCHANGED vars
  BY <1>12 DEF vars
<1> QED
  BY <1>4, <1>5, <1>6, <1>7, <1>8, <1>9, <1>10, <1>11, <1>12 DEF Next

LEMMA InitAttemptInv == Init => AttemptInv
<1> SUFFICES ASSUME Init PROVE AttemptInv
    OBVIOUS
<1>1. Assignments = {}
  BY DEF Init, Assignments
<1> QED
  BY <1>1, InitWorkInv DEF AttemptInv, Unborn, Attempts, ToLoop, Finishing, Init

LEMMA AttemptStep ==
    ASSUME AttemptInv, [Next]_vars
    PROVE  AttemptInv'
BY WorkStep, UnbornStep, AttemptsStep DEF AttemptInv

LEMMA AttemptsHold == Spec => []AttemptInv
BY InitAttemptInv, AttemptStep, PTL DEF Spec

\* A new attempt is on reports that were not attempted.
LEMMA NewAttempt ==
    ASSUME AttemptInv, [Next]_vars, attempt = NoAttempt, attempt' # NoAttempt
    PROVE  attempt'.reports \notin attempted
<1> USE DEF candidates
<1>1. pc # "evaluate" /\ (pending # {} => pending \notin attempted)
  BY DEF AttemptInv, Attempts
<1> USE <1>1
<1>2. CASE Startup
  BY <1>2 DEF Startup, Start, Conclude, RequestInitial, Underfunded, Reconcile
<1>3. CASE CollectOne
  BY <1>3 DEF CollectOne, AcceptReport, DropCancelled, FailWorker
<1>4. CASE Collection /\ ~CollectOne
  BY <1>4 DEF Collection, CollectedRaced, CollectedInLoop, CollectedDirected,
              CollectedStop, CollectedFinish, CollectedPause, CollectedRaise,
              CollectedDrain, Collected
<1>5. CASE Arbitration
  BY <1>5 DEF Arbitration, Promote, ArbitrateNext, ArbitrateEnd
<1>6. CASE Loop
  BY <1>6 DEF Loop, LoopRequests, LoopArbitrates, LoopAudits, LoopStops, LoopAsks,
              LoopCollects, LoopLaunches, WaitReturns, CollectRaced, Turn, Quiet,
              BeginAudit
<1>7. CASE Ending
  <2>1. CASE SettlePassed \/ SettleFailed \/ FinishCommits \/ Drain
    BY <2>1 DEF SettlePassed, SettleFailed, FinishCommits, Drain
  <2>2. CASE FinishAudits
    <3>1. NextWaiting # {} => NextWaiting \notin attempted
      BY NextWaitingFacts DEF AttemptInv, WorkInv, TypeInv, TypeOK
    <3> QED
      BY <2>2, <3>1 DEF FinishAudits, BeginAudit, GatesFirst, Ungated
  <2> QED
    BY <1>7, <2>1, <2>2 DEF Ending
<1>8. CASE Answers
  BY <1>8 DEF Answers, WorkerReturns, AuditReturns, AuditFails, EvaluationReturns,
              AuditUnavailable, CoordinatorDecides, Decide
<1>9. CASE Failure
  BY <1>9 DEF Failure, ContextExhausted, Raise, Exhausts, Refuse, Crash, Awaiting
<1>10. CASE UNCHANGED vars
  BY <1>10 DEF vars
<1> QED
  BY <1>2, <1>3, <1>4, <1>5, <1>6, <1>7, <1>8, <1>9, <1>10 DEF Next

(* The gate is never paid for twice on the same set of reports, for any      *)
(* number of candidates, decisions and restarts                              *)
(* (candidate_report_set_attempted).                                         *)
THEOREM SchedulerGatesOnce == Spec => NeverGatedTwice
<1>1. AttemptInv /\ [Next]_vars
         => [attempt = NoAttempt /\ attempt' # NoAttempt
                => attempt'.reports \notin attempted]_vars
  BY NewAttempt
<1> QED
  BY <1>1, AttemptsHold, PTL DEF Spec, NeverGatedTwice

(* The outcome. --------------------------------------------------------------*)

\* An outcome short of acceptance and refutation leaves nothing to do but to
\* finish, and a refutation leaves no attempt to settle.
Outcomes ==
    /\ final \in {"partial", "budget_exhausted"} =>
          /\ attempt = NoAttempt /\ current = 0
          /\ \/ pc \in {"ended", "down", "conclude", "finish"}
             \/ pc = "collect" /\ aim = "finish" /\ batch = {}
    /\ final = "rejected" => pc # "settle" /\ (pc = "loop" => attempt = NoAttempt)

OutcomeInv == AttemptInv /\ Outcomes

LEMMA OutcomesStep ==
    ASSUME OutcomeInv, [Next]_vars
    PROVE  Outcomes'
<1> USE DEF Outcomes, outcome, candidates, volatile, work, Goto, Collect, EnterFinish,
            EnterPause, AskCoordinator, Stopped
<1>1. /\ Outcomes
      /\ (pc = "wait" => aim \in {"loop", "drain"})
      /\ (pc \in {"initial", "reconcile"} => final = "none")
      /\ (pc \in {"conclude", "finish"} \cup Stopped => Active = {})
      /\ (pc = "collect" /\ aim \in {"loop", "directed", "stop"} => attempt = NoAttempt)
      /\ (current # 0 => pc \in {"collect", "arbitrate"})
      /\ (pc = "coordinator" => attempt = NoAttempt)
      /\ (pc = "evaluate" => attempt.result = "open")
  BY DEF OutcomeInv, AttemptInv, WorkInv, TypeInv, Positions, Concluded, Gathering, Attempts,
     ToLoop
<1> USE <1>1
<1>2. CASE Startup
  BY <1>2 DEF Startup, Start, Conclude, RequestInitial, Underfunded, Reconcile
<1>3. CASE CollectOne
  BY <1>3 DEF CollectOne, AcceptReport, DropCancelled, FailWorker
<1>4. CASE Collection /\ ~CollectOne
  BY <1>4 DEF Collection, CollectedRaced, CollectedInLoop, CollectedDirected,
              CollectedStop, CollectedFinish, CollectedPause, CollectedRaise,
              CollectedDrain, Collected
<1>5. CASE Arbitration
  BY <1>5 DEF Arbitration, Promote, ArbitrateNext, ArbitrateEnd
<1>6. CASE Loop
  BY <1>6 DEF Loop, LoopRequests, LoopArbitrates, LoopAudits, LoopStops, LoopAsks,
              LoopCollects, LoopLaunches, WaitReturns, CollectRaced, Turn, Quiet,
              BeginAudit
<1>7. CASE Ending
  BY <1>7 DEF Ending, SettlePassed, SettleFailed, FinishAudits, FinishCommits, Drain,
              BeginAudit, GatesFirst
<1>8. CASE Answers
  BY <1>8 DEF Answers, WorkerReturns, AuditReturns, AuditFails, EvaluationReturns,
              AuditUnavailable, CoordinatorDecides, Decide, Yields, Awaiting
<1>9. CASE Failure
  BY <1>9 DEF Failure, ContextExhausted, Raise, Exhausts, Refuse, Crash, Awaiting,
              Yields
<1>10. CASE UNCHANGED vars
  BY <1>10 DEF vars
<1> QED
  BY <1>2, <1>3, <1>4, <1>5, <1>6, <1>7, <1>8, <1>9, <1>10 DEF Next

LEMMA InitOutcomeInv == Init => OutcomeInv
BY InitAttemptInv DEF OutcomeInv, Outcomes, Init

LEMMA OutcomesHold == Spec => []OutcomeInv
<1>1. OutcomeInv /\ [Next]_vars => OutcomeInv'
  BY AttemptStep, OutcomesStep DEF OutcomeInv
<1> QED
  BY <1>1, InitOutcomeInv, PTL DEF Spec

\* Only a refutation replaces an outcome, and only an acceptance.
LEMMA NewOutcome ==
    ASSUME OutcomeInv, [Next]_vars, final # "none", final' # final
    PROVE  final = "accepted" /\ final' = "rejected"
<1> USE DEF outcome
<1>1. /\ Outcomes /\ final \in {"accepted", "rejected", "partial", "budget_exhausted"}
      /\ (pc = "settle" => attempt # NoAttempt)
      /\ (final = "accepted" => attempt = NoAttempt)
  BY DEF OutcomeInv, AttemptInv, WorkInv, TypeInv, TypeOK, Concluded, Attempts, Outcome
<1> USE <1>1 DEF Outcomes
<1>2. CASE Startup
  BY <1>2 DEF Startup, Start, Conclude, RequestInitial, Underfunded, Reconcile
<1>3. CASE CollectOne
  BY <1>3 DEF CollectOne, AcceptReport, DropCancelled, FailWorker
<1>4. CASE Collection /\ ~CollectOne
  BY <1>4 DEF Collection, CollectedRaced, CollectedInLoop, CollectedDirected,
              CollectedStop, CollectedFinish, CollectedPause, CollectedRaise,
              CollectedDrain, Collected
<1>5. CASE Arbitration
  BY <1>5 DEF Arbitration, Promote, ArbitrateNext, ArbitrateEnd
<1>6. CASE Loop
  BY <1>6 DEF Loop, LoopRequests, LoopArbitrates, LoopAudits, LoopStops, LoopAsks,
              LoopCollects, LoopLaunches, WaitReturns, CollectRaced, Turn, Quiet,
              BeginAudit
<1>7. CASE Ending
  BY <1>7 DEF Ending, SettlePassed, SettleFailed, FinishAudits, FinishCommits, Drain,
              BeginAudit, GatesFirst
<1>8. CASE Answers
  BY <1>8 DEF Answers, WorkerReturns, AuditReturns, AuditFails, EvaluationReturns,
              AuditUnavailable, CoordinatorDecides, Decide
<1>9. CASE Failure
  BY <1>9 DEF Failure, ContextExhausted, Raise, Exhausts, Refuse, Crash, Awaiting
<1>10. CASE UNCHANGED vars
  BY <1>10 DEF vars
<1> QED
  BY <1>2, <1>3, <1>4, <1>5, <1>6, <1>7, <1>8, <1>9, <1>10 DEF Next

(* A durable outcome is final but for a verified refutation, which only ever *)
(* overturns an acceptance, for any number of restarts and failures.         *)
THEOREM SchedulerOutcomeStands == Spec => OutcomeStands
<1>1. OutcomeInv /\ [Next]_vars
         => [final # "none" /\ final' # final
                => final = "accepted" /\ final' = "rejected"]_vars
  BY NewOutcome
<1> QED
  BY <1>1, OutcomesHold, PTL DEF Spec, OutcomeStands

(* The refutations. ----------------------------------------------------------*)

Verified == {a \in Assignments : pool[a].audit = "verified"}

\* A verified refutation is promoted before anything else happens, and nothing
\* is settled while a claimed one is open.
Verdicts ==
    /\ final = "none" =>
          /\ \A a \in Verified : current = a \/ pc \in {"down", "reconcile"}
          /\ \A a, b \in Verified : a = b
    /\ pc = "settle" => Unresolved = {}

VerdictInv == OutcomeInv /\ Verdicts

LEMMA VerifiedStep ==
    ASSUME WorkInv, [Next]_vars
    PROVE  /\ ~AuditReturns => Verified' = Verified
           /\ ~AuditReturns /\ ~CollectOne => Unresolved' = Unresolved
           /\ AuditReturns => \/ Verified' = Verified
                              \/ Verified' = Verified \cup {current} /\ current' = current
<1>1. Pool /\ batch \subseteq Ids /\ NewRecords
  BY RecordsStep DEF WorkInv, TypeInv, TypeOK, Pool
<1>2. Assignments \subseteq Assignments'
  BY RefutationsStep
<1>3. \A a \in Assignments' \ Assignments : pool'[a].audit = "none" /\ pool'[a].report = "none"
  BY <1>1 DEF NewRecords, Assignments, Fresh
<1>4. CASE ~AuditReturns
  <2>1. \A a \in Assignments : pool'[a].audit = pool[a].audit
    BY <1>1, <1>4 DEF NewRecords
  <2>2. Verified' = Verified
    BY <1>2, <1>3, <2>1 DEF Verified
  <2>3. ~CollectOne => \A a \in Assignments : pool'[a].report = pool[a].report
    BY <1>1 DEF NewRecords
  <2>4. ~CollectOne => Unresolved' = Unresolved
    BY <1>2, <1>3, <2>1, <2>3 DEF Unresolved
  <2> QED
    BY <1>4, <2>2, <2>4
<1>5. CASE AuditReturns
  <2>1. current \in Assignments /\ pool[current].audit # "verified"
    BY <1>5 DEF AuditReturns, WorkInv, Auditing, Refutations
  <2>2. PICK v : /\ pool' = [pool EXCEPT ![current] = [pool[current] EXCEPT !.audit = v]]
                 /\ current' = IF v = "verified" THEN current ELSE 0
    BY <1>5 DEF AuditReturns
  <2>3. [pool[current] EXCEPT !.audit = v].audit = v
    BY <2>1 DEF WorkInv, TypeInv, TypeOK, Assignments, Assignment
  <2>4. /\ Assignments' = Assignments /\ pool'[current].audit = v
        /\ \A a \in Assignments : a # current => pool'[a] = pool[a]
    BY <2>1, <2>2, <2>3 DEF Assignments
  <2> QED
    BY <1>5, <2>1, <2>2, <2>4 DEF Verified
<1> QED
  BY <1>4, <1>5

LEMMA VerdictsInvStep ==
    ASSUME VerdictInv, [Next]_vars
    PROVE  Verdicts'
<1>1. /\ Verdicts /\ WorkInv
      /\ (current # 0 => pc \in {"collect", "arbitrate"})
      /\ (goal # "none" \/ pc # "finish")
      /\ (pc = "wait" => aim \in {"loop", "drain"})
  BY DEF VerdictInv, OutcomeInv, AttemptInv, WorkInv, TypeInv, Concluded, Positions
<1>2. final' = "none" => final = "none"
  BY NewOutcome DEF VerdictInv
<1>3. Verified \subseteq Assignments /\ 0 \notin Verified /\ Verified \subseteq Nat
  BY <1>1 DEF Verified, Assignments, WorkInv, TypeInv, TypeOK
<1>4. CASE AuditReturns
  <2>1. pool[current].audit # "verified" /\ pc' = pc /\ final' = final /\ pc # "settle" /\ current # 0
    BY <1>1, <1>4 DEF AuditReturns, outcome
  <2>2. final = "none" => Verified = {}
    BY <1>1, <1>3, <2>1 DEF Verdicts, Verified
  <2> QED
    BY <1>1, <1>2, <1>4, <2>1, <2>2, VerifiedStep DEF Verdicts
<1>5. CASE ~AuditReturns
  <2>1. Verified' = Verified /\ (~CollectOne => Unresolved' = Unresolved)
    BY <1>1, <1>5, VerifiedStep
  <2>2. final' = "none" => \A a, b \in Verified' : a = b
    BY <1>1, <1>2, <2>1 DEF Verdicts
  <2>3. pc' = "settle" => Unresolved' = {}
    <3>0. CollectOne => pc = "collect" /\ pc' = "collect"
      BY DEF CollectOne
    <3> USE <1>1, <2>1, <3>0 DEF Verdicts, outcome, candidates, volatile, work, Goto, Collect,
            EnterFinish, EnterPause, AskCoordinator, Stopped
    <3> HIDE DEF Verified, Unresolved
    <3>1. CASE Startup
      BY <3>1 DEF Startup, Start, Conclude, RequestInitial, Underfunded, Reconcile
    <3>2. CASE CollectOne
      BY <3>2 DEF CollectOne, AcceptReport, DropCancelled, FailWorker
    <3>3. CASE Collection /\ ~CollectOne
      BY <3>3 DEF Collection, CollectedRaced, CollectedInLoop, CollectedDirected,
                  CollectedStop, CollectedFinish, CollectedPause, CollectedRaise,
                  CollectedDrain, Collected
    <3>4. CASE Arbitration
      BY <3>4 DEF Arbitration, Promote, ArbitrateNext, ArbitrateEnd
    <3>5. CASE Loop
      BY <3>5 DEF Loop, LoopRequests, LoopArbitrates, LoopAudits, LoopStops, LoopAsks,
                  LoopCollects, LoopLaunches, WaitReturns, CollectRaced, Turn, Quiet,
                  BeginAudit
    <3>6. CASE Ending
      BY <3>6 DEF Ending, SettlePassed, SettleFailed, FinishAudits, FinishCommits, Drain,
                  BeginAudit, GatesFirst
    <3>7. CASE Answers
      BY <3>7, <1>5 DEF Answers, WorkerReturns, AuditFails, EvaluationReturns, AuditUnavailable,
         CoordinatorDecides, Decide, Yields, Awaiting
    <3>8. CASE Failure
      BY <3>8 DEF Failure, ContextExhausted, Raise, Exhausts, Refuse, Crash, Awaiting
    <3>9. CASE UNCHANGED vars
      BY <3>9 DEF vars
    <3> QED
      BY <3>1, <3>2, <3>3, <3>4, <3>5, <3>6, <3>7, <3>8, <3>9 DEF Next
  <2>4. ASSUME final' = "none", NEW a \in Verified
        PROVE  current' = a \/ pc' \in {"down", "reconcile"}
    <3>1. current = a \/ pc \in {"down", "reconcile"}
      BY <1>1, <1>2, <2>4 DEF Verdicts
    <3>2. a # 0 /\ Smallest(Verified) = a /\ decisions # <<>> /\ pool[a].audit = "verified"
      <4>1. Verified = {a}
        BY <1>1, <1>2, <2>4 DEF Verdicts
      <4>2. Smallest(Verified) \in Verified
        BY <1>3, <4>1, Least
      <4>3. decisions # <<>>
        BY <1>3, <2>4 DEF VerdictInv, OutcomeInv, AttemptInv, Unborn
      <4> QED
        BY <1>3, <4>1, <4>2, <4>3 DEF Verified
    <3>3. final = "none"
      BY <1>2, <2>4
    <3> USE <1>1, <2>4, <3>1, <3>2, <3>3
        DEF outcome, candidates, volatile, work, Goto, Collect, EnterFinish, EnterPause,
            AskCoordinator, Stopped
    <3>4. CASE Startup
      BY <3>4 DEF Startup, Start, Conclude, RequestInitial, Underfunded, Reconcile, Verified
    <3>5. CASE CollectOne
      BY <3>5 DEF CollectOne, AcceptReport, DropCancelled, FailWorker
    <3>6. CASE Collection /\ ~CollectOne
      BY <3>6 DEF Collection, CollectedRaced, CollectedInLoop, CollectedDirected,
                  CollectedStop, CollectedFinish, CollectedPause, CollectedRaise,
                  CollectedDrain, Collected
    <3>7. CASE Arbitration
      BY <3>7 DEF Arbitration, Promote, ArbitrateNext, ArbitrateEnd
    <3>8. CASE Loop
      BY <3>8 DEF Loop, LoopRequests, LoopArbitrates, LoopAudits, LoopStops, LoopAsks,
                  LoopCollects, LoopLaunches, WaitReturns, CollectRaced, Turn, Quiet,
                  BeginAudit
    <3>9. CASE Ending
      BY <3>9 DEF Ending, SettlePassed, SettleFailed, FinishAudits, FinishCommits, Drain,
                  BeginAudit, GatesFirst
    <3>10. CASE Answers
      BY <3>10, <1>5 DEF Answers, WorkerReturns, AuditFails, EvaluationReturns,
         AuditUnavailable, CoordinatorDecides, Decide, Yields, Awaiting
    <3>11. CASE Failure
      BY <3>11 DEF Failure, ContextExhausted, Raise, Exhausts, Refuse, Crash, Awaiting
    <3>12. CASE UNCHANGED vars
      BY <3>12 DEF vars
    <3> QED
      BY <3>4, <3>5, <3>6, <3>7, <3>8, <3>9, <3>10, <3>11, <3>12 DEF Next
  <2> QED
    BY <2>1, <2>2, <2>3, <2>4 DEF Verdicts
<1> QED
  BY <1>4, <1>5

LEMMA InitVerdictInv == Init => VerdictInv
<1> SUFFICES ASSUME Init PROVE VerdictInv
    OBVIOUS
<1>1. Verified = {}
  BY DEF Init, Verified, Assignments
<1> QED
  BY <1>1, InitOutcomeInv DEF VerdictInv, Verdicts, Init

LEMMA VerdictsHold == Spec => []VerdictInv
<1>1. OutcomeInv /\ [Next]_vars => OutcomeInv'
  BY AttemptStep, OutcomesStep DEF OutcomeInv
<1>2. VerdictInv /\ [Next]_vars => VerdictInv'
  BY <1>1, VerdictsInvStep DEF VerdictInv
<1> QED
  BY <1>2, InitVerdictInv, PTL DEF Spec

LEMMA NewAcceptance ==
    ASSUME VerdictInv, [Next]_vars, final' = "accepted", final # "accepted"
    PROVE  Unresolved = {} /\ \A a \in Assignments : pool[a].audit # "verified"
<1>1. pc = "settle"
  <2> USE DEF outcome
  <2>1. (pc = "finish" => goal # "accepted" \/ final # "none")
    BY DEF VerdictInv, OutcomeInv, AttemptInv, WorkInv, TypeInv, Concluded
  <2> USE <2>1
  <2>2. CASE Startup
    BY <2>2 DEF Startup, Start, Conclude, RequestInitial, Underfunded, Reconcile
  <2>3. CASE CollectOne
    BY <2>3 DEF CollectOne, AcceptReport, DropCancelled, FailWorker
  <2>4. CASE Collection /\ ~CollectOne
    BY <2>4 DEF Collection, CollectedRaced, CollectedInLoop, CollectedDirected,
                CollectedStop, CollectedFinish, CollectedPause, CollectedRaise,
                CollectedDrain, Collected
  <2>5. CASE Arbitration
    BY <2>5 DEF Arbitration, Promote, ArbitrateNext, ArbitrateEnd
  <2>6. CASE Loop
    BY <2>6 DEF Loop, LoopRequests, LoopArbitrates, LoopAudits, LoopStops, LoopAsks,
                LoopCollects, LoopLaunches, WaitReturns, CollectRaced, Turn, Quiet,
                BeginAudit
  <2>7. CASE Ending
    BY <2>7 DEF Ending, SettlePassed, SettleFailed, FinishAudits, FinishCommits, Drain,
                BeginAudit, GatesFirst
  <2>8. CASE Answers
    BY <2>8 DEF Answers, WorkerReturns, AuditReturns, AuditFails, EvaluationReturns,
                AuditUnavailable, CoordinatorDecides, Decide
  <2>9. CASE Failure
    BY <2>9 DEF Failure, ContextExhausted, Raise, Exhausts, Refuse, Crash, Awaiting
  <2>10. CASE UNCHANGED vars
    BY <2>10 DEF vars
  <2> QED
    BY <2>2, <2>3, <2>4, <2>5, <2>6, <2>7, <2>8, <2>9, <2>10 DEF Next
<1>2. final = "none" /\ current = 0
  BY <1>1 DEF VerdictInv, OutcomeInv, AttemptInv, WorkInv, TypeInv, TypeOK, Concluded, Outcomes,
     Outcome
<1>3. 0 \notin Assignments
  BY DEF Assignments, VerdictInv, OutcomeInv, AttemptInv, WorkInv, TypeInv, TypeOK
<1> QED
  BY <1>1, <1>2, <1>3 DEF VerdictInv, Verdicts, Verified

(* A proof is accepted only when every claimed refutation collected so far   *)
(* was answered by a complete audit and none was verified, for any number of *)
(* workers that finish meanwhile and of restarts                             *)
(* (counterexample_priority_result).                                         *)
THEOREM SchedulerArbitrates == Spec => AcceptedAfterArbitration
<1>1. VerdictInv /\ [Next]_vars
         => [final' = "accepted" /\ final # "accepted"
                => /\ Unresolved = {}
                   /\ \A a \in Assignments : pool[a].audit # "verified"]_vars
  BY NewAcceptance
<1> QED
  BY <1>1, VerdictsHold, PTL DEF Spec, AcceptedAfterArbitration

(* The stop. -----------------------------------------------------------------*)

NoStopYet == \A i \in DOMAIN decisions : decisions[i] = "none"

\* The loop is on its way to an end, a pause or a failure.
Closing ==
    \/ pc \in Stopped \cup {"drain"} \/ goal # "none"
    \/ pc \in {"collect", "wait"} /\ aim \in {"finish", "pause", "raise", "drain"}

\* In the first life of the process nobody asks again after a stop.
Stops ==
    /\ starts = 0 => pc = "down" /\ decisions = <<>> /\ ~request
    /\ starts <= 1 /\ final = "none" =>
          /\ \A i \in DOMAIN decisions : decisions[i] # "none" => i = Len(decisions)
          /\ request \/ (pc \in {"collect", "wait"} /\ aim = "loop") => NoStopYet
          /\ ~NoStopYet /\ stop = "none" => Closing

StopInv == OutcomeInv /\ Stops

LEMMA FirstLife ==
    ASSUME StopInv, [Next]_vars, starts' <= 1
    PROVE  \/ starts' = starts /\ ~Start
           \/ Start /\ starts = 0 /\ starts' = 1
<1>1. starts \in Nat
  BY DEF StopInv, OutcomeInv, AttemptInv, WorkInv, TypeInv, TypeOK
<1>2. CASE Start
  <2>1. starts' = starts + 1
    BY <1>2 DEF Start
  <2> QED
    BY <1>1, <1>2, <2>1
<1>3. CASE ~Start
  <2> SUFFICES starts' = starts
    BY <1>3
  <2>1. CASE Startup
    BY <2>1, <1>3 DEF Startup, Conclude, RequestInitial, Underfunded, Reconcile
  <2>2. CASE CollectOne
    BY <2>2 DEF CollectOne, AcceptReport, DropCancelled, FailWorker
  <2>3. CASE Collection /\ ~CollectOne
    BY <2>3 DEF Collection, CollectedRaced, CollectedInLoop, CollectedDirected,
                CollectedStop, CollectedFinish, CollectedPause, CollectedRaise,
                CollectedDrain, Collected
  <2>4. CASE Arbitration
    BY <2>4 DEF Arbitration, Promote, ArbitrateNext, ArbitrateEnd
  <2>5. CASE Loop
    BY <2>5 DEF Loop, LoopRequests, LoopArbitrates, LoopAudits, LoopStops, LoopAsks,
                LoopCollects, LoopLaunches, WaitReturns, CollectRaced, Turn, Quiet,
                BeginAudit
  <2>6. CASE Ending
    BY <2>6 DEF Ending, SettlePassed, SettleFailed, FinishAudits, FinishCommits, Drain,
                BeginAudit, GatesFirst
  <2>7. CASE Answers
    BY <2>7 DEF Answers, WorkerReturns, AuditReturns, AuditFails, EvaluationReturns,
                AuditUnavailable, CoordinatorDecides, Decide
  <2>8. CASE Failure
    BY <2>8 DEF Failure, ContextExhausted, Raise, Exhausts, Refuse, Crash, Awaiting
  <2>9. CASE UNCHANGED vars
    BY <2>9 DEF vars
  <2> QED
    BY <2>1, <2>2, <2>3, <2>4, <2>5, <2>6, <2>7, <2>8, <2>9 DEF Next
<1> QED
  BY <1>2, <1>3

LEMMA StopsStep ==
    ASSUME StopInv, [Next]_vars
    PROVE  Stops'
<1>1. CASE starts' > 1
  <2>1. starts' # 0 /\ ~(starts' <= 1)
    <3>1. starts' \in Nat
      BY TypeStep DEF StopInv, OutcomeInv, AttemptInv, WorkInv, TypeInv, TypeOK
    <3> QED
      BY <1>1, <3>1
  <2> QED
    BY <2>1 DEF Stops
<1>2. CASE starts' <= 1 /\ Start
  <2>1. starts = 0 /\ starts' = 1
    BY <1>2, FirstLife
  <2>2. decisions' = <<>> /\ ~request' /\ pc' # "wait" /\ pc' # "collect"
    BY <1>2, <2>1 DEF Start, StopInv, Stops
  <2> QED
    BY <2>1, <2>2 DEF Stops, NoStopYet
<1>3. CASE starts' <= 1 /\ ~Start
  <2>1. starts' = starts
    BY <1>3, FirstLife
  <2>2. starts = 0 => UNCHANGED vars
    <3>1. ASSUME starts = 0 PROVE UNCHANGED vars
      <4>1. pc = "down" /\ current = 0
        BY <3>1 DEF StopInv, Stops, OutcomeInv, AttemptInv, WorkInv, TypeInv, Concluded
      <4> USE <4>1, <1>3
      <4>2. CASE Startup
        BY <4>2 DEF Startup, Conclude, RequestInitial, Underfunded, Reconcile
      <4>3. CASE CollectOne
        BY <4>3 DEF CollectOne, AcceptReport, DropCancelled, FailWorker
      <4>4. CASE Collection /\ ~CollectOne
        BY <4>4 DEF Collection, CollectedRaced, CollectedInLoop, CollectedDirected,
                    CollectedStop, CollectedFinish, CollectedPause, CollectedRaise,
                    CollectedDrain, Collected
      <4>5. CASE Arbitration
        BY <4>5 DEF Arbitration, Promote, ArbitrateNext, ArbitrateEnd
      <4>6. CASE Loop
        BY <4>6 DEF Loop, LoopRequests, LoopArbitrates, LoopAudits, LoopStops, LoopAsks,
                    LoopCollects, LoopLaunches, WaitReturns, CollectRaced, Turn, Quiet,
                    BeginAudit
      <4>7. CASE Ending
        BY <4>7 DEF Ending, SettlePassed, SettleFailed, FinishAudits, FinishCommits, Drain,
                    BeginAudit, GatesFirst
      <4>8. CASE Answers
        BY <4>8 DEF Answers, WorkerReturns, AuditReturns, AuditFails, EvaluationReturns,
                    AuditUnavailable, CoordinatorDecides, Decide, Yields, Awaiting
      <4>9. CASE Failure
        BY <4>9 DEF Failure, ContextExhausted, Raise, Exhausts, Refuse, Crash, Awaiting,
                    Stopped
      <4>10. CASE UNCHANGED vars
        BY <4>10 DEF vars
      <4> QED
        BY <4>2, <4>3, <4>4, <4>5, <4>6, <4>7, <4>8, <4>9, <4>10 DEF Next
    <3> QED
      BY <3>1
  <2>3. ASSUME final' = "none"
        PROVE  /\ \A i \in DOMAIN decisions' : decisions'[i] # "none" => i = Len(decisions')
               /\ request' \/ (pc' \in {"collect", "wait"} /\ aim' = "loop") => NoStopYet'
               /\ ~NoStopYet' /\ stop' = "none" => Closing'
    <3>1. /\ final = "none"
          /\ \A i \in DOMAIN decisions : decisions[i] # "none" => i = Len(decisions)
          /\ request \/ (pc \in {"collect", "wait"} /\ aim = "loop") => NoStopYet
          /\ ~NoStopYet /\ stop = "none" => Closing
      BY <1>3, <2>1, <2>3, NewOutcome DEF StopInv, Stops
    <3>2. CASE CoordinatorDecides
      <4>1. PICK s \in {"none", "partial", "budget_exhausted"} :
               decisions' = Append(decisions, s) /\ stop' = s
        BY <3>2 DEF CoordinatorDecides, Decide
      <4>2. ~request' /\ pc' = "collect" /\ aim' = "directed" /\ request
        BY <3>2 DEF CoordinatorDecides, Decide, Collect, StopInv, OutcomeInv, AttemptInv, WorkInv,
           TypeInv, Positions
      <4>3. NoStopYet
        BY <3>1, <4>2
      <4>4. /\ Len(decisions') = Len(decisions) + 1 /\ DOMAIN decisions' = 1..Len(decisions')
            /\ Len(decisions) \in Nat /\ DOMAIN decisions = 1..Len(decisions)
            /\ \A i \in 1..Len(decisions) : decisions'[i] = decisions[i]
            /\ decisions'[Len(decisions) + 1] = s
        BY <4>1, AppendProperties DEF StopInv, OutcomeInv, AttemptInv, WorkInv, TypeInv, TypeOK
      <4>5. \A i \in DOMAIN decisions' : i \in DOMAIN decisions \/ i = Len(decisions')
        BY <4>4
      <4>6. \A i \in DOMAIN decisions' : decisions'[i] # "none" => i = Len(decisions')
        BY <4>3, <4>4, <4>5 DEF NoStopYet
      <4>7. stop' = "none" => NoStopYet'
        BY <4>1, <4>3, <4>4, <4>5 DEF NoStopYet
      <4> QED
        BY <4>2, <4>6, <4>7
    <3>3. CASE ~CoordinatorDecides
      <4>1. decisions' = decisions /\ (NoStopYet' <=> NoStopYet)
        BY <3>3, DecisionsStay DEF NoStopYet
      <4>2. decisions = <<>> => NoStopYet
        BY DEF NoStopYet
      <4>3. /\ (pc = "wait" => aim \in {"loop", "drain"})
            /\ (pc \in {"conclude"} => final # "none")
            /\ (goal # "none" => /\ pc \in {"collect", "finish", "evaluate", "settle"} \cup Stopped
                                 /\ pc = "collect" => aim \in {"finish", "pause", "evaluate", "settle"})
            /\ (pc = "finish" \/ (pc = "collect" /\ aim = "finish") => goal # "none")
            /\ (pc = "initial" => decisions = <<>>)
            /\ (current # 0 => pc \in {"collect", "arbitrate"})
        BY DEF StopInv, OutcomeInv, AttemptInv, WorkInv, TypeInv, Positions, Concluded
      <4>4. /\ request' \/ (pc' \in {"collect", "wait"} /\ aim' = "loop") => NoStopYet
            /\ ~NoStopYet /\ stop' = "none" => Closing'
        <5> USE <1>3, <2>3, <3>1, <3>3, <4>2, <4>3
            DEF Closing, outcome, candidates, volatile, work, Goto, Collect, EnterFinish,
                EnterPause, AskCoordinator, Stopped
        <5> HIDE DEF NoStopYet
        <5>1. CASE Startup
          BY <5>1 DEF Startup, Conclude, RequestInitial, Underfunded, Reconcile
        <5>2. CASE CollectOne
          BY <5>2 DEF CollectOne, AcceptReport, DropCancelled, FailWorker
        <5>3. CASE Collection /\ ~CollectOne
          BY <5>3 DEF Collection, CollectedRaced, CollectedInLoop, CollectedDirected,
                      CollectedStop, CollectedFinish, CollectedPause, CollectedRaise,
                      CollectedDrain, Collected
        <5>4. CASE Arbitration
          BY <5>4 DEF Arbitration, Promote, ArbitrateNext, ArbitrateEnd
        <5>5. CASE Loop
          BY <5>5 DEF Loop, LoopRequests, LoopArbitrates, LoopAudits, LoopStops, LoopAsks,
                      LoopCollects, LoopLaunches, WaitReturns, CollectRaced, Turn, Quiet,
                      BeginAudit
        <5>6. CASE Ending
          BY <5>6 DEF Ending, SettlePassed, SettleFailed, FinishAudits, FinishCommits, Drain,
                      BeginAudit, GatesFirst
        <5>7. CASE Answers
          BY <5>7 DEF Answers, WorkerReturns, AuditReturns, AuditFails, EvaluationReturns,
                      AuditUnavailable
        <5>8. CASE Failure
          BY <5>8 DEF Failure, ContextExhausted, Raise, Exhausts, Refuse, Crash, Awaiting
        <5>9. CASE UNCHANGED vars
          BY <5>9 DEF vars
        <5> QED
          BY <5>1, <5>2, <5>3, <5>4, <5>5, <5>6, <5>7, <5>8, <5>9 DEF Next
      <4> QED
        BY <3>1, <4>1, <4>4
    <3> QED
      BY <3>2, <3>3
  <2> QED
    BY <2>1, <2>2, <2>3 DEF Stops, StopInv, vars, work, volatile
<1> QED
  <2>1. starts' \in Nat
    BY TypeStep DEF StopInv, OutcomeInv, AttemptInv, WorkInv, TypeInv, TypeOK
  <2> QED
    BY <1>1, <1>2, <1>3, <2>1

(* In the first life of the process a decision to stop is the last one,      *)
(* whatever candidates and refutations race with it (audit_pending_candidate:*)
(* "the existing terminal decision is sufficient").                          *)
THEOREM SchedulerStopIsLast == Spec => []StopIsLastDecision
<1>1. Init => StopInv
  BY InitOutcomeInv DEF StopInv, Stops, NoStopYet, Init
<1>2. StopInv /\ [Next]_vars => StopInv'
  BY AttemptStep, OutcomesStep, StopsStep DEF StopInv, OutcomeInv
<1>3. StopInv => StopIsLastDecision
  BY DEF StopInv, Stops, StopIsLastDecision
<1> QED
  BY <1>1, <1>2, <1>3, PTL DEF Spec

(* The queue. ----------------------------------------------------------------*)

\* An awaited call has failed when the loop drains what is left.
Drained ==
    /\ goal = "drained" \/ pc = "drain" => raises > 0
    /\ pc \in {"wait", "collect"} /\ aim = "drain" => raises > 0

\* The attempt under way is the pending one, and the attempts are remembered.
Pending == attempt # NoAttempt => pending = attempt.reports /\ pending \in attempted

\* As long as no awaited call fails, a frozen request finds no candidate.
Asking == raises = 0 /\ request => pending = {} /\ (pc = "coordinator" \/ Active = {})

QueueInv == /\ OutcomeInv /\ Drained /\ Pending /\ Asking
            /\ CandidatesKept /\ OutcomeAfterGate

\* Failures are counted.
LEMMA RaisesStep ==
    ASSUME TypeInv, [Next]_vars
    PROVE  /\ raises \in Nat /\ raises' \in Nat
           /\ raises' = 0 => raises = 0 /\ ~Raise /\ ~Exhausts /\ ~ContextExhausted
           /\ raises > 0 => raises' > 0
<1>1. raises \in Nat /\ raises' \in Nat
  BY TypeStep DEF TypeInv, TypeOK
<1>2. CASE Raise \/ Exhausts \/ ContextExhausted
  BY <1>1, <1>2 DEF Raise, Exhausts, ContextExhausted
<1>3. CASE ~(Raise \/ Exhausts \/ ContextExhausted)
  <2>1. raises' = raises
    <3>1. CASE Startup
      BY <3>1 DEF Startup, Start, Conclude, RequestInitial, Underfunded, Reconcile
    <3>2. CASE CollectOne
      BY <3>2 DEF CollectOne, AcceptReport, DropCancelled, FailWorker
    <3>3. CASE Collection /\ ~CollectOne
      BY <3>3 DEF Collection, CollectedRaced, CollectedInLoop, CollectedDirected,
                  CollectedStop, CollectedFinish, CollectedPause, CollectedRaise,
                  CollectedDrain, Collected
    <3>4. CASE Arbitration
      BY <3>4 DEF Arbitration, Promote, ArbitrateNext, ArbitrateEnd
    <3>5. CASE Loop
      BY <3>5 DEF Loop, LoopRequests, LoopArbitrates, LoopAudits, LoopStops, LoopAsks,
                  LoopCollects, LoopLaunches, WaitReturns, CollectRaced, Turn, Quiet,
                  BeginAudit
    <3>6. CASE Ending
      BY <3>6 DEF Ending, SettlePassed, SettleFailed, FinishAudits, FinishCommits, Drain,
                  BeginAudit, GatesFirst
    <3>7. CASE Answers
      BY <3>7 DEF Answers, WorkerReturns, AuditReturns, AuditFails, EvaluationReturns,
                  AuditUnavailable, CoordinatorDecides, Decide
    <3>8. CASE Failure
      BY <3>8, <1>3 DEF Failure, ContextExhausted, Raise, Exhausts, Refuse, Crash, Awaiting
    <3>9. CASE UNCHANGED vars
      BY <3>9 DEF vars
    <3> QED
      BY <3>1, <3>2, <3>3, <3>4, <3>5, <3>6, <3>7, <3>8, <3>9 DEF Next
  <2> QED
    BY <1>1, <1>3, <2>1
<1> QED
  BY <1>2, <1>3

LEMMA DrainedStep ==
    ASSUME QueueInv, [Next]_vars
    PROVE  Drained'
<1> USE DEF Drained, outcome, candidates, volatile, work, Goto, Collect, EnterFinish,
            EnterPause, AskCoordinator, Stopped
<1>1. /\ Drained /\ raises \in Nat
      /\ (raises' = 0 => raises = 0 /\ ~Raise /\ ~Exhausts /\ ~ContextExhausted)
      /\ raises' \in Nat
      /\ final # "drained"
      /\ stop # "drained"
      /\ (pc = "wait" => aim \in {"loop", "drain"})
  BY RaisesStep DEF QueueInv, OutcomeInv, AttemptInv, WorkInv, TypeInv, TypeOK, Positions, Outcome
<1> SUFFICES ASSUME raises' = 0
             PROVE  /\ goal' # "drained" /\ pc' # "drain"
                    /\ ~(pc' \in {"wait", "collect"} /\ aim' = "drain")
  BY <1>1
<1>2. /\ goal # "drained" /\ pc # "drain" /\ ~(pc \in {"wait", "collect"} /\ aim = "drain")
      /\ ~Raise /\ ~Exhausts /\ ~ContextExhausted
  BY <1>1
<1> USE <1>1, <1>2
<1>3. CASE Startup
  BY <1>3 DEF Startup, Start, Conclude, RequestInitial, Underfunded, Reconcile
<1>4. CASE CollectOne
  BY <1>4 DEF CollectOne, AcceptReport, DropCancelled, FailWorker
<1>5. CASE Collection /\ ~CollectOne
  BY <1>5 DEF Collection, CollectedRaced, CollectedInLoop, CollectedDirected,
              CollectedStop, CollectedFinish, CollectedPause, CollectedRaise,
              CollectedDrain, Collected
<1>6. CASE Arbitration
  BY <1>6 DEF Arbitration, Promote, ArbitrateNext, ArbitrateEnd
<1>7. CASE Loop
  BY <1>7 DEF Loop, LoopRequests, LoopArbitrates, LoopAudits, LoopStops, LoopAsks,
              LoopCollects, LoopLaunches, WaitReturns, CollectRaced, Turn, Quiet,
              BeginAudit
<1>8. CASE Ending
  BY <1>8 DEF Ending, SettlePassed, SettleFailed, FinishAudits, FinishCommits, Drain,
              BeginAudit, GatesFirst
<1>9. CASE Answers
  BY <1>9 DEF Answers, WorkerReturns, AuditReturns, AuditFails, EvaluationReturns,
              AuditUnavailable, CoordinatorDecides, Decide
<1>10. CASE Failure
  BY <1>10 DEF Failure, ContextExhausted, Raise, Exhausts, Refuse, Crash, Awaiting
<1>11. CASE UNCHANGED vars
  BY <1>11 DEF vars
<1> QED
  BY <1>3, <1>4, <1>5, <1>6, <1>7, <1>8, <1>9, <1>10, <1>11 DEF Next

LEMMA PendingStep ==
    ASSUME QueueInv, [Next]_vars
    PROVE  Pending'
<1> USE DEF Pending, candidates
<1>1. /\ Pending /\ (attempt # NoAttempt => pending # {} /\ ~request)
      /\ (pc = "coordinator" => request)
      /\ (pc = "finish" /\ goal \notin {"accepted", "drained"} /\ final = "none" => attempt = NoAttempt)
      /\ (pc = "evaluate" => attempt # NoAttempt)
  BY DEF QueueInv, OutcomeInv, AttemptInv, WorkInv, TypeInv, Positions, Attempts, Finishing
<1>2. \A v : [attempt EXCEPT !.result = v].reports = attempt.reports
  BY DEF QueueInv, OutcomeInv, AttemptInv, WorkInv, TypeInv, TypeOK
<1>3. \A p, v : [reports |-> p, result |-> v].reports = p
  OBVIOUS
<1> USE <1>1, <1>2, <1>3
<1>4. CASE Startup
  BY <1>4 DEF Startup, Start, Conclude, RequestInitial, Underfunded, Reconcile
<1>5. CASE CollectOne
  BY <1>5 DEF CollectOne, AcceptReport, DropCancelled, FailWorker
<1>6. CASE Collection /\ ~CollectOne
  BY <1>6 DEF Collection, CollectedRaced, CollectedInLoop, CollectedDirected,
              CollectedStop, CollectedFinish, CollectedPause, CollectedRaise,
              CollectedDrain, Collected
<1>7. CASE Arbitration
  BY <1>7 DEF Arbitration, Promote, ArbitrateNext, ArbitrateEnd
<1>8. CASE Loop
  BY <1>8 DEF Loop, LoopRequests, LoopArbitrates, LoopAudits, LoopStops, LoopAsks,
              LoopCollects, LoopLaunches, WaitReturns, CollectRaced, Turn, Quiet,
              BeginAudit
<1>9. CASE Ending
  BY <1>9 DEF Ending, SettlePassed, SettleFailed, FinishAudits, FinishCommits, Drain,
              BeginAudit, GatesFirst
<1>10. CASE Answers
  <2>1. CASE WorkerReturns \/ AuditReturns \/ AuditFails \/ AuditUnavailable
    BY <2>1 DEF WorkerReturns, AuditReturns, AuditFails, AuditUnavailable
  <2>2. CASE EvaluationReturns
    <3>1. attempt' = attempt \/ \E v : attempt' = [attempt EXCEPT !.result = v]
      BY <2>2 DEF EvaluationReturns
    <3>2. attempt'.reports = attempt.reports
      BY <3>1
    <3> QED
      BY <2>2, <3>2 DEF EvaluationReturns
  <2>3. CASE CoordinatorDecides
    BY <2>3 DEF CoordinatorDecides
  <2> QED
    BY <1>10, <2>1, <2>2, <2>3 DEF Answers
<1>11. CASE Failure
  BY <1>11 DEF Failure, ContextExhausted, Raise, Exhausts, Refuse, Crash, Awaiting
<1>12. CASE UNCHANGED vars
  BY <1>12 DEF vars
<1> QED
  BY <1>4, <1>5, <1>6, <1>7, <1>8, <1>9, <1>10, <1>11, <1>12 DEF Next

LEMMA AskingStep ==
    ASSUME QueueInv, [Next]_vars
    PROVE  Asking'
<1> USE DEF Asking, outcome, candidates, volatile, work, Goto, Collect, EnterFinish,
            EnterPause, AskCoordinator, Stopped
<1>1. /\ Asking /\ Done \subseteq Active /\ (pc = "collect" => batch \subseteq Done)
      /\ (pc \in {"initial", "conclude", "reconcile", "finish"} \cup Stopped => Active = {})
      /\ (attempt # NoAttempt => pending # {} /\ ~request)
      /\ (pc = "initial" => pending = {})
      /\ (pc = "collect" /\ aim \in {"loop", "directed", "stop"} => ~request)
      /\ (raises' = 0 => raises = 0 /\ ~Raise /\ ~Exhausts /\ ~ContextExhausted)
      /\ (pc \in {"evaluate", "settle"} => attempt # NoAttempt)
      /\ (pc = "finish" /\ goal \notin {"accepted", "drained"} /\ final = "none" => ~request)
      /\ (pc = "drain" => raises' # 0)
  BY RaisesStep, NoCandidateYet, TaskFacts DEF QueueInv, OutcomeInv, AttemptInv, WorkInv, TypeInv,
     Positions, Attempts, Gathering, ToLoop, Finishing, Drained
<1>2. /\ UNCHANGED task => Active' = Active /\ Done' = Done
      /\ \A S : task' = Cancelled(S) => Active' = Active
      /\ task' = [a \in Ids |-> "none"] => Active' = {}
  BY TaskFacts
<1> USE <1>1, <1>2
<1>3. CASE Startup
  BY <1>3 DEF Startup, Start, Conclude, RequestInitial, Underfunded, Reconcile
<1>4. CASE CollectOne
  <2>1. raises' = 0 => ~request
    BY <1>4 DEF CollectOne
  <2> QED
    BY <1>4, <2>1 DEF CollectOne
<1>5. CASE Collection /\ ~CollectOne
  BY <1>5 DEF Collection, CollectedRaced, CollectedInLoop, CollectedDirected,
              CollectedStop, CollectedFinish, CollectedPause, CollectedRaise,
              CollectedDrain, Collected
<1>6. CASE Arbitration
  BY <1>6 DEF Arbitration, Promote, ArbitrateNext, ArbitrateEnd
<1>7. CASE Loop
  BY <1>7 DEF Loop, LoopRequests, LoopArbitrates, LoopAudits, LoopStops, LoopAsks,
              LoopCollects, LoopLaunches, WaitReturns, CollectRaced, Turn, Quiet,
              BeginAudit
<1>8. CASE Ending
  BY <1>8 DEF Ending, SettlePassed, SettleFailed, FinishAudits, FinishCommits, Drain,
              BeginAudit, GatesFirst
<1>9. CASE Answers
  <2>1. CASE WorkerReturns
    <3>1. Active' = Active
      BY <2>1, ReturnFacts DEF QueueInv, OutcomeInv, AttemptInv, WorkInv
    <3> QED
      BY <2>1, <3>1 DEF WorkerReturns
  <2>2. CASE AuditReturns \/ AuditFails \/ EvaluationReturns \/ AuditUnavailable
    BY <2>2 DEF AuditReturns, AuditFails, EvaluationReturns, AuditUnavailable
  <2>3. CASE CoordinatorDecides
    BY <2>3 DEF CoordinatorDecides, Decide
  <2> QED
    BY <1>9, <2>1, <2>2, <2>3 DEF Answers
<1>10. CASE Failure
  BY <1>10 DEF Failure, ContextExhausted, Raise, Exhausts, Refuse, Crash, Awaiting
<1>11. CASE UNCHANGED vars
  BY <1>11 DEF vars
<1> QED
  BY <1>3, <1>4, <1>5, <1>6, <1>7, <1>8, <1>9, <1>10, <1>11 DEF Next

LEMMA AttemptedGrows ==
    ASSUME [Next]_vars
    PROVE  attempted \subseteq attempted'
<1> USE DEF candidates
<1>1. CASE Startup
  BY <1>1 DEF Startup, Start, Conclude, RequestInitial, Underfunded, Reconcile
<1>2. CASE CollectOne
  BY <1>2 DEF CollectOne, AcceptReport, DropCancelled, FailWorker
<1>3. CASE Collection /\ ~CollectOne
  BY <1>3 DEF Collection, CollectedRaced, CollectedInLoop, CollectedDirected,
              CollectedStop, CollectedFinish, CollectedPause, CollectedRaise,
              CollectedDrain, Collected
<1>4. CASE Arbitration
  BY <1>4 DEF Arbitration, Promote, ArbitrateNext, ArbitrateEnd
<1>5. CASE Loop
  BY <1>5 DEF Loop, LoopRequests, LoopArbitrates, LoopAudits, LoopStops, LoopAsks,
              LoopCollects, LoopLaunches, WaitReturns, CollectRaced, Turn, Quiet,
              BeginAudit
<1>6. CASE Ending
  BY <1>6 DEF Ending, SettlePassed, SettleFailed, FinishAudits, FinishCommits, Drain,
              BeginAudit, GatesFirst
<1>7. CASE Answers
  BY <1>7 DEF Answers, WorkerReturns, AuditReturns, AuditFails, EvaluationReturns,
              AuditUnavailable, CoordinatorDecides, Decide
<1>8. CASE Failure
  BY <1>8 DEF Failure, ContextExhausted, Raise, Exhausts, Refuse, Crash, Awaiting
<1>9. CASE UNCHANGED vars
  BY <1>9 DEF vars
<1> QED
  BY <1>1, <1>2, <1>3, <1>4, <1>5, <1>6, <1>7, <1>8, <1>9 DEF Next

\* A new candidate is the one that was collected.
LEMMA CandidatesStep ==
    ASSUME WorkInv, [Next]_vars
    PROVE  /\ ~CollectOne => Candidates' = Candidates
           /\ CollectOne => \E a \in batch :
                 /\ AcceptReport(a, task[a]) \/ UNCHANGED candidates
                 /\ \A c \in Candidates' :
                       c \in Candidates \/ (c = a /\ AcceptReport(a, "candidate"))
<1>1. Pool /\ batch \subseteq Ids /\ NewRecords
  BY RecordsStep DEF WorkInv, TypeInv, TypeOK, Pool
<1>2. CASE ~CollectOne
  <2>1. Assignments \subseteq Assignments'
    BY RefutationsStep
  <2>2. \A a \in Assignments' \ Assignments : pool'[a].report = "none"
    BY <1>1 DEF NewRecords, Assignments, Fresh
  <2>3. \A a \in Assignments : pool'[a].report = pool[a].report
    BY <1>1, <1>2 DEF NewRecords
  <2> QED
    BY <1>2, <2>1, <2>2, <2>3 DEF Candidates
<1>3. CASE CollectOne
  <2>1. PICK a \in batch : a = Smallest(batch)
    BY <1>3, CollectFacts DEF WorkInv
  <2>2. /\ DOMAIN pool' = Assignments
        /\ \A b \in Assignments : b # a => pool'[b] = pool[b]
        /\ a \in Assignments =>
              IF task[a] \in {"partial", "candidate", "refutation"}
              THEN pool'[a].status = "completed" /\ pool'[a].report = task[a]
              ELSE /\ pool'[a].status \in {"queued", "retired", "cancelled"}
                   /\ pool'[a].report = pool[a].report
    BY <1>3, <2>1, CollectRecord DEF WorkInv
  <2>3. IF task[a] \in {"partial", "candidate", "refutation"} THEN AcceptReport(a, task[a])
        ELSE UNCHANGED candidates
    <3>1. CASE task[a] \in {"partial", "candidate", "refutation"}
      BY <1>3, <2>1, <3>1 DEF CollectOne
    <3>2. CASE task[a] = "cancelled"
      BY <1>3, <2>1, <3>2 DEF CollectOne, DropCancelled
    <3>3. CASE task[a] \notin {"partial", "candidate", "refutation", "cancelled"}
      BY <1>3, <2>1, <3>3 DEF CollectOne, FailWorker
    <3> QED
      BY <3>1, <3>2, <3>3
  <2>4. ASSUME NEW c \in Candidates'
        PROVE  c \in Candidates \/ (c = a /\ AcceptReport(a, "candidate"))
    <3>1. c \in Assignments /\ pool'[c].report = "candidate"
      BY <2>2, <2>4 DEF Candidates, Assignments
    <3>2. CASE c # a
      BY <2>2, <3>1, <3>2 DEF Candidates
    <3>3. CASE c = a
      <4>1. CASE task[a] = "candidate"
        BY <2>3, <3>3, <4>1
      <4>2. CASE task[a] # "candidate"
        <5>1. pool[a].report = "candidate"
          BY <2>2, <3>1, <3>3, <4>2
        <5> QED
          BY <3>1, <3>3, <5>1 DEF Candidates
      <4> QED
        BY <4>1, <4>2
    <3> QED
      BY <3>2, <3>3
  <2> QED
    BY <1>3, <2>3, <2>4
<1> QED
  BY <1>2, <1>3

Queued == Gated \cup pending \cup ToSet(deferred)

LEMMA AcceptedQueued ==
    ASSUME QueueInv, NEW a \in Ids, NEW r, AcceptReport(a, r)
    PROVE  /\ Queued \subseteq Queued'
           /\ r = "candidate" /\ final = "none" => a \in Queued'
<1>1. attempted' = attempted /\ deferred \in Seq(Ids)
  BY DEF AcceptReport, QueueInv, OutcomeInv, AttemptInv, WorkInv, TypeInv, TypeOK
<1>2. /\ Append(deferred, a) \in Seq(Ids)
      /\ ToSet(deferred) \subseteq ToSet(Append(deferred, a)) /\ a \in ToSet(Append(deferred, a))
  <2>1. /\ Append(deferred, a) \in Seq(Ids) /\ Len(Append(deferred, a)) = Len(deferred) + 1
        /\ \A i \in 1..Len(deferred) : Append(deferred, a)[i] = deferred[i]
        /\ Append(deferred, a)[Len(deferred) + 1] = a
    BY <1>1, AppendProperties
  <2>2. Len(deferred) \in Nat /\ DOMAIN deferred = 1..Len(deferred)
    BY <1>1
  <2> DEFINE new == Append(deferred, a)
  <2> HIDE DEF new
  <2>3. DOMAIN new = 1..(Len(deferred) + 1)
    BY <2>1 DEF new
  <2>4. /\ \A i \in DOMAIN deferred : i \in DOMAIN new /\ new[i] = deferred[i]
        /\ (Len(deferred) + 1) \in DOMAIN new /\ new[Len(deferred) + 1] = a
    BY <2>1, <2>2, <2>3 DEF new
  <2>5. ToSet(deferred) \subseteq ToSet(new) /\ a \in ToSet(new)
    BY <2>4 DEF ToSet
  <2> QED
    BY <2>1, <2>5 DEF new
<1>3. pending \subseteq pending' /\ ToSet(deferred) \subseteq ToSet(deferred')
  BY <1>2 DEF AcceptReport
<1>4. Gated' = Gated
  BY <1>1 DEF Gated
<1>5. ASSUME r = "candidate", final = "none"
      PROVE  a \in Queued'
  <2>1. CASE {a} \in attempted
    BY <1>1, <2>1 DEF Queued, Gated
  <2>2. CASE a \in attempt.reports
    <3>1. attempt # NoAttempt
      BY <2>2 DEF NoAttempt
    <3> QED
      BY <1>1, <2>2, <3>1 DEF QueueInv, Pending, Queued, Gated
  <2>3. CASE {a} \notin attempted /\ a \notin attempt.reports
    <3>1. CASE pending = {} /\ attempt = NoAttempt
      BY <1>5, <2>3, <3>1 DEF AcceptReport, Queued
    <3>2. CASE ~(pending = {} /\ attempt = NoAttempt)
      <4>1. Contains(deferred, a) => a \in ToSet(deferred)
        BY <1>1 DEF Contains, ToSet
      <4> QED
        BY <1>2, <1>5, <2>3, <3>2, <4>1 DEF AcceptReport, Queued
    <3> QED
      BY <3>1, <3>2
  <2> QED
    BY <2>1, <2>2, <2>3
<1> QED
  BY <1>3, <1>4, <1>5 DEF Queued

\* Opening an attempt keeps the candidates: they are attempted, or wait on.
LEMMA OpenedQueued ==
    ASSUME QueueInv, LoopAudits \/ FinishAudits
    PROVE  Queued \subseteq Queued'
<1>1. deferred \in Seq(Ids)
  BY DEF QueueInv, OutcomeInv, AttemptInv, WorkInv, TypeInv, TypeOK
<1>2. CASE attempt # NoAttempt
  <2>1. LoopAudits
    BY <1>2 DEF FinishAudits, GatesFirst, QueueInv, OutcomeInv, AttemptInv, Attempts, Finishing
  <2> QED
    BY <1>2, <2>1 DEF LoopAudits, BeginAudit, Queued, Gated
<1>3. CASE attempt = NoAttempt
  <2>1. PICK p : /\ attempted' = attempted \cup {p}
                 /\ deferred' = deferred \/ deferred' = Undeferred(p)
                 /\ p = pending \/ p = Ungated
    BY <1>3 DEF LoopAudits, FinishAudits, BeginAudit
  <2>2. pending = {} \/ p = pending
    BY <1>3, <2>1 DEF Ungated, QueueInv, OutcomeInv, AttemptInv, Attempts
  <2>3. ToSet(deferred) \subseteq ToSet(deferred') \cup p
    BY <1>1, <2>1, UndeferredFacts
  <2>4. Gated \subseteq Gated' /\ p \subseteq Gated'
    BY <2>1 DEF Gated
  <2> QED
    BY <2>2, <2>3, <2>4 DEF Queued
<1> QED
  BY <1>2, <1>3

LEMMA QueuedStep ==
    ASSUME QueueInv, [Next]_vars, raises' = 0, final' = "none", ~CollectOne
    PROVE  Queued \subseteq Queued'
<1> USE DEF candidates
<1>1. /\ Pending /\ (request => pending = {})
      /\ (pc = "coordinator" => request)
      /\ (pc = "finish" => goal # "none" /\ goal # "drained")
      /\ (pc \in {"evaluate", "settle"} => attempt # NoAttempt)
  <2>1. raises = 0
    BY RaisesStep DEF QueueInv, OutcomeInv, AttemptInv, WorkInv
  <2> QED
    BY <2>1 DEF QueueInv, Asking, Drained, OutcomeInv, AttemptInv, WorkInv, TypeInv, Positions,
       Attempts
<1>2. CASE UNCHANGED <<pending, deferred, attempted>>
  BY <1>2 DEF Queued, Gated
<1>3. CASE LoopAudits \/ FinishAudits
  BY <1>3, OpenedQueued
<1>4. CASE SettlePassed \/ SettleFailed
  <2>1. pending \in attempted /\ UNCHANGED <<deferred, attempted>>
    BY <1>1, <1>4 DEF SettlePassed, SettleFailed, Pending
  <2>2. pending \subseteq Gated /\ Gated' = Gated
    BY <2>1 DEF Gated
  <2> QED
    BY <2>1, <2>2 DEF Queued
<1>5. CASE CoordinatorDecides
  <2>1. pending = {} /\ UNCHANGED <<deferred, attempted>>
    BY <1>1, <1>5 DEF CoordinatorDecides
  <2> QED
    BY <2>1 DEF Queued, Gated
<1>6. ~FinishCommits
  BY <1>1 DEF FinishCommits
<1> QED
  <2>1. \/ UNCHANGED <<pending, deferred, attempted>> \/ LoopAudits \/ FinishAudits
        \/ SettlePassed \/ SettleFailed \/ CoordinatorDecides
    <3> USE <1>6
    <3>1. CASE Startup
      BY <3>1 DEF Startup, Start, Conclude, RequestInitial, Underfunded, Reconcile
    <3>2. CASE CollectOne
      BY <3>2
    <3>3. CASE Collection /\ ~CollectOne
      BY <3>3 DEF Collection, CollectedRaced, CollectedInLoop, CollectedDirected,
                  CollectedStop, CollectedFinish, CollectedPause, CollectedRaise,
                  CollectedDrain, Collected
    <3>4. CASE Arbitration
      BY <3>4 DEF Arbitration, Promote, ArbitrateNext, ArbitrateEnd
    <3>5. CASE Loop
      BY <3>5 DEF Loop, LoopRequests, LoopArbitrates, LoopStops, LoopAsks, LoopCollects,
                  LoopLaunches, WaitReturns, CollectRaced, Turn, Quiet
    <3>6. CASE Ending
      BY <3>6 DEF Ending, Drain
    <3>7. CASE Answers
      BY <3>7 DEF Answers, WorkerReturns, AuditReturns, AuditFails, EvaluationReturns,
                  AuditUnavailable
    <3>8. CASE Failure
      BY <3>8 DEF Failure, ContextExhausted, Raise, Exhausts, Refuse, Crash, Awaiting
    <3>9. CASE UNCHANGED vars
      BY <3>9 DEF vars
    <3> QED
      BY <3>1, <3>2, <3>3, <3>4, <3>5, <3>6, <3>7, <3>8, <3>9 DEF Next
  <2> QED
    BY <1>2, <1>3, <1>4, <1>5, <2>1

LEMMA KeptStep ==
    ASSUME QueueInv, [Next]_vars
    PROVE  CandidatesKept'
<1> SUFFICES ASSUME raises' = 0, final' = "none", NEW c \in Candidates'
             PROVE  c \in Queued'
  BY DEF CandidatesKept, NoCandidateDiscarded, Queued
<1>1. raises = 0 /\ WorkInv /\ TypeInv
  BY RaisesStep DEF QueueInv, OutcomeInv, AttemptInv, WorkInv
<1>2. final = "none"
  BY NewOutcome DEF QueueInv
<1>3. Candidates \subseteq Queued
  BY <1>1, <1>2 DEF QueueInv, CandidatesKept, NoCandidateDiscarded, Queued
<1>4. CASE ~CollectOne
  BY <1>1, <1>3, <1>4, CandidatesStep, QueuedStep
<1>5. CASE CollectOne
  <2>1. PICK a \in batch :
           /\ AcceptReport(a, task[a]) \/ UNCHANGED candidates
           /\ c \in Candidates \/ (c = a /\ AcceptReport(a, "candidate"))
    BY <1>1, <1>5, CandidatesStep
  <2>2. a \in Ids
    BY <1>1 DEF TypeInv, TypeOK
  <2>3. CASE UNCHANGED candidates /\ c \in Candidates
    BY <1>3, <2>3 DEF candidates, Queued, Gated
  <2>4. CASE c = a /\ AcceptReport(a, "candidate")
    BY <1>2, <2>2, <2>4, AcceptedQueued
  <2>5. CASE AcceptReport(a, task[a]) /\ c \in Candidates
    BY <1>3, <2>2, <2>5, AcceptedQueued
  <2> QED
    BY <2>1, <2>3, <2>4, <2>5
<1> QED
  BY <1>4, <1>5

LEMMA AfterGateStep ==
    ASSUME QueueInv, [Next]_vars
    PROVE  OutcomeAfterGate'
<1> SUFFICES ASSUME raises' = 0, final' \in {"partial", "budget_exhausted"}
             PROVE  Candidates' \subseteq Gated' \/ Unresolved' # {}
  BY DEF OutcomeAfterGate
<1>1. raises = 0 /\ WorkInv /\ TypeInv
  BY RaisesStep DEF QueueInv, OutcomeInv, AttemptInv, WorkInv
<1>2. Gated \subseteq Gated'
  BY AttemptedGrows DEF Gated
<1>3. CASE final # "none"
  <2>1. final \in {"partial", "budget_exhausted"}
    BY <1>3, NewOutcome DEF QueueInv
  <2>2. ~CollectOne /\ ~AuditReturns
    BY <2>1 DEF CollectOne, AuditReturns, QueueInv, OutcomeInv, Outcomes
  <2>3. Candidates' = Candidates /\ Unresolved' = Unresolved
    BY <1>1, <2>2, CandidatesStep, VerifiedStep
  <2> QED
    BY <1>1, <1>2, <2>1, <2>3 DEF QueueInv, OutcomeAfterGate
<1>4. CASE final = "none"
  <2>1. FinishCommits
    <3> USE <1>4 DEF outcome
    <3>1. CASE Startup
      BY <3>1 DEF Startup, Start, Conclude, RequestInitial, Underfunded, Reconcile
    <3>2. CASE CollectOne
      BY <3>2 DEF CollectOne, AcceptReport, DropCancelled, FailWorker
    <3>3. CASE Collection /\ ~CollectOne
      BY <3>3 DEF Collection, CollectedRaced, CollectedInLoop, CollectedDirected,
                  CollectedStop, CollectedFinish, CollectedPause, CollectedRaise,
                  CollectedDrain, Collected
    <3>4. CASE Arbitration
      BY <3>4 DEF Arbitration, Promote, ArbitrateNext, ArbitrateEnd
    <3>5. CASE Loop
      BY <3>5 DEF Loop, LoopRequests, LoopArbitrates, LoopAudits, LoopStops, LoopAsks,
                  LoopCollects, LoopLaunches, WaitReturns, CollectRaced, Turn, Quiet,
                  BeginAudit
    <3>6. CASE Ending
      BY <3>6 DEF Ending, SettlePassed, SettleFailed, FinishAudits, Drain, BeginAudit,
                  GatesFirst
    <3>7. CASE Answers
      BY <3>7 DEF Answers, WorkerReturns, AuditReturns, AuditFails, EvaluationReturns,
                  AuditUnavailable, CoordinatorDecides, Decide
    <3>8. CASE Failure
      BY <3>8 DEF Failure, ContextExhausted, Raise, Exhausts, Refuse, Crash, Awaiting
    <3>9. CASE UNCHANGED vars
      BY <3>9 DEF vars
    <3> QED
      BY <3>1, <3>2, <3>3, <3>4, <3>5, <3>6, <3>7, <3>8, <3>9 DEF Next
  <2>2. ~GatesFirst /\ pc = "finish" /\ final' = IF goal = "drained" THEN "budget_exhausted" ELSE goal
    BY <1>4, <2>1 DEF FinishCommits
  <2>3. goal \notin {"accepted", "drained"}
    BY <1>1, <1>4, <2>2 DEF TypeInv, Concluded, QueueInv, Drained
  <2>4. ~CollectOne /\ ~AuditReturns
    BY <1>1, <2>2 DEF CollectOne, AuditReturns, TypeInv, Concluded
  <2>5. Candidates' = Candidates /\ Unresolved' = Unresolved
    BY <1>1, <2>4, CandidatesStep, VerifiedStep
  <2>6. CASE Unresolved # {}
    BY <2>5, <2>6
  <2>7. CASE Ungated = {}
    <3>1. pending \subseteq Gated
      BY <2>7 DEF Ungated, Gated
    <3>2. NextWaiting = {}
      BY <2>7, <3>1 DEF Ungated
    <3>3. \A a \in ToSet(deferred) : {a} \in attempted
      BY <1>1, <3>2, NextWaitingFacts DEF TypeInv, TypeOK
    <3>4. ToSet(deferred) \subseteq Gated
      BY <3>3 DEF Gated
    <3>5. Candidates \subseteq Queued
      BY <1>1, <1>4 DEF QueueInv, CandidatesKept, NoCandidateDiscarded, Queued
    <3> QED
      BY <1>2, <2>5, <3>1, <3>4, <3>5 DEF Queued
  <2> QED
    BY <1>4, <2>2, <2>3, <2>6, <2>7 DEF GatesFirst
<1> QED
  BY <1>3, <1>4

LEMMA InitQueueInv == Init => QueueInv
<1> SUFFICES ASSUME Init PROVE QueueInv
    OBVIOUS
<1>1. Candidates = {}
  BY DEF Init, Candidates, Assignments
<1> QED
  BY <1>1, InitOutcomeInv DEF QueueInv, Drained, Pending, Asking, CandidatesKept,
     NoCandidateDiscarded, OutcomeAfterGate, Init

LEMMA QueueStep ==
    ASSUME QueueInv, [Next]_vars
    PROVE  QueueInv'
<1>1. OutcomeInv'
  BY AttemptStep, OutcomesStep DEF QueueInv, OutcomeInv
<1> QED
  BY <1>1, DrainedStep, PendingStep, AskingStep, KeptStep, AfterGateStep DEF QueueInv

LEMMA QueueHolds == Spec => []QueueInv
BY InitQueueInv, QueueStep, PTL DEF Spec

(* As long as no awaited call fails, no report that claims a complete proof  *)
(* is lost: not to a race with a decision or with another attempt, and not   *)
(* to any number of crashes (ARCHITECTURE.md item 6).                        *)
THEOREM SchedulerKeepsCandidates == Spec => []CandidatesKept
<1>1. QueueInv => CandidatesKept
  BY DEF QueueInv
<1> QED
  BY <1>1, QueueHolds, PTL

(* As long as no awaited call fails, an outcome short of acceptance and      *)
(* refutation is committed only when every claimed proof was gated, or a     *)
(* claimed refutation could not be audited (finish).                         *)
THEOREM SchedulerGatesFirst == Spec => []OutcomeAfterGate
<1>1. QueueInv => OutcomeAfterGate
  BY DEF QueueInv
<1> QED
  BY <1>1, QueueHolds, PTL


(* The refinement. -----------------------------------------------------------*)

\* Every step of the gate is a step of the loop, or none of its state changes.
LEMMA GateStep ==
    ASSUME [GateNext]_allvars
    PROVE  [Next]_vars
<1> USE DEF Next, Startup, Collection, Arbitration, Loop, Ending, Answers, Failure
<1>1. CASE LoopRuns
  BY <1>1 DEF LoopRuns, Opens, Returns, GateRefuses, GateAccepts, GateRejects, Commits,
              Collects, Gathers, Arbitrates, Loops, Drains, StartsUp, Follows
<1>2. CASE Evaluates
  BY <1>2 DEF Evaluates, Begin, PackagerAnswers, SourcesVerified, Review,
              AuditsIncomplete, AskJudge, JudgeAnswers, Elsewhere
<1>3. CASE AuditReplies
  BY <1>3 DEF AuditReplies, AuditAnswers, AuditBreaks, Elsewhere
<1>4. CASE WorkerDone \/ RefutationAudited \/ Decided \/ Fails
  BY <1>4 DEF WorkerDone, RefutationAudited, Decided, Fails, Follows
<1>5. CASE ResultRecorded \/ Starts \/ DiesUncommitted \/ Dies
  BY <1>5 DEF ResultRecorded, Starts, DiesUncommitted, Dies, Follows
<1>6. CASE UNCHANGED allvars
  BY <1>6 DEF allvars
<1> QED
  BY <1>1, <1>2, <1>3, <1>4, <1>5, <1>6 DEF GateNext, Runs

(* The loop with the gate in detail is the loop with one awaited answer: the *)
(* safety properties of ResearchScheduler hold of it.                        *)
THEOREM GateImplementsLoop == GateSpec => Spec
<1>1. GateInit => Init
  BY DEF GateInit
<1>2. [GateNext]_allvars => [Next]_vars
  BY GateStep
<1> QED
  BY <1>1, <1>2, PTL DEF GateSpec, Spec

(* What the loop keeps it keeps with the gate in detail: no candidate is lost *)
(* and none is decided outside the gate, work is accounted for, and nothing    *)
(* is decided after a stop.                                                    *)
THEOREM GateKeepsLoop ==
    GateSpec => [](WorkAccounted /\ CandidatesKept /\ OutcomeAfterGate /\ StopIsLastDecision)
<1>1. GateSpec => Spec
  BY GateImplementsLoop
<1>2. Spec => []WorkAccounted
  BY SchedulerWork
<1>3. Spec => []CandidatesKept
  BY SchedulerKeepsCandidates
<1>4. Spec => []OutcomeAfterGate
  BY SchedulerGatesFirst
<1>5. Spec => []StopIsLastDecision
  BY SchedulerStopIsLast
<1> QED
  BY <1>1, <1>2, <1>3, <1>4, <1>5, PTL

(* The loop. -----------------------------------------------------------------*)

(* Every step of the loop but the answer of the gate.                        *)
OtherStep ==
    \/ Startup \/ Collection \/ Arbitration \/ Loop \/ Ending \/ Failure
    \/ WorkerReturns \/ AuditReturns \/ AuditFails \/ AuditUnavailable
    \/ CoordinatorDecides \/ UNCHANGED vars

\* The loop awaits the gate, or collects meanwhile.
Evaluating == pc = "evaluate" \/ (pc = "collect" /\ aim = "evaluate")

\* The loop is on its way to the end of the process, and opens no attempt.
Abandoned ==
    \/ pc = "collect" /\ aim \in {"pause", "raise", "drain"}
    \/ /\ pc = "finish" \/ (pc = "collect" /\ aim = "finish")
       /\ goal = "drained" \/ final # "none"
    \/ pc = "drain" \/ (pc = "wait" /\ aim = "drain")

LEMMA AbandonedStep ==
    ASSUME Abandoned, [Next]_vars
    PROVE  Abandoned' \/ pc' \in Stopped
<1> USE DEF Abandoned, Stopped, outcome, candidates, volatile, work, Goto, Collect,
            EnterFinish, EnterPause, AskCoordinator
<1>1. CASE Startup
  BY <1>1 DEF Startup, Start, Conclude, RequestInitial, Underfunded, Reconcile
<1>2. CASE CollectOne
  BY <1>2 DEF CollectOne
<1>3. CASE Collection /\ ~CollectOne
  BY <1>3 DEF Collection, CollectedRaced, CollectedInLoop, CollectedDirected, CollectedStop,
              CollectedFinish, CollectedPause, CollectedRaise, CollectedDrain, Collected
<1>4. CASE Arbitration
  BY <1>4 DEF Arbitration, Promote, ArbitrateNext, ArbitrateEnd
<1>5. CASE Loop
  BY <1>5 DEF Loop, LoopRequests, LoopArbitrates, LoopAudits, LoopStops, LoopAsks,
              LoopCollects, LoopLaunches, WaitReturns, CollectRaced, Turn, Quiet
<1>6. CASE Ending
  BY <1>6 DEF Ending, SettlePassed, SettleFailed, FinishAudits, FinishCommits, Drain,
              GatesFirst
<1>7. CASE Answers
  BY <1>7 DEF Answers, WorkerReturns, AuditReturns, AuditFails, EvaluationReturns,
              AuditUnavailable, CoordinatorDecides
<1>8. CASE Failure
  BY <1>8 DEF Failure, ContextExhausted, Raise, Exhausts, Refuse, Crash
<1>9. CASE UNCHANGED vars
  BY <1>9 DEF vars
<1> QED
  BY <1>1, <1>2, <1>3, <1>4, <1>5, <1>6, <1>7, <1>8, <1>9 DEF Next

LEMMA EvaluatingStep ==
    ASSUME Evaluating, OtherStep
    PROVE  /\ attempt' = attempt
           /\ Evaluating' \/ Abandoned' \/ pc' \in Stopped
<1> USE DEF Evaluating, Abandoned, Stopped, outcome, candidates, volatile, work, Goto,
            Collect, EnterFinish, EnterPause, AskCoordinator
<1>1. CASE Startup
  BY <1>1 DEF Startup, Start, Conclude, RequestInitial, Underfunded, Reconcile
<1>2. CASE CollectOne
  BY <1>2 DEF CollectOne, AcceptReport, DropCancelled, FailWorker
<1>3. CASE Collection /\ ~CollectOne
  BY <1>3 DEF Collection, CollectedRaced, CollectedInLoop, CollectedDirected, CollectedStop,
              CollectedFinish, CollectedPause, CollectedRaise, CollectedDrain, Collected
<1>4. CASE Arbitration
  BY <1>4 DEF Arbitration, Promote, ArbitrateNext, ArbitrateEnd
<1>5. CASE Loop
  BY <1>5 DEF Loop, LoopRequests, LoopArbitrates, LoopAudits, LoopStops, LoopAsks,
              LoopCollects, LoopLaunches, WaitReturns, CollectRaced, Turn, Quiet
<1>6. CASE Ending
  BY <1>6 DEF Ending, SettlePassed, SettleFailed, FinishAudits, FinishCommits, Drain
<1>7. CASE WorkerReturns \/ AuditReturns \/ AuditFails \/ AuditUnavailable \/ CoordinatorDecides
  BY <1>7 DEF WorkerReturns, AuditReturns, AuditFails, AuditUnavailable, CoordinatorDecides
<1>8. CASE Failure
  BY <1>8 DEF Failure, ContextExhausted, Raise, Exhausts, Refuse, Crash
<1>9. CASE UNCHANGED vars
  BY <1>9 DEF vars
<1> QED
  BY <1>1, <1>2, <1>3, <1>4, <1>5, <1>6, <1>7, <1>8, <1>9 DEF OtherStep

\* Only the gate passes an attempt, and only a passed attempt is accepted.
LEMMA OutcomeStep ==
    ASSUME Concluded, OtherStep
    PROVE  /\ attempt'.result = "passed" => attempt.result = "passed"
           /\ final' = "accepted" => final = "accepted" \/ attempt.result = "passed"
<1> USE DEF Concluded, outcome, candidates, work, Goto, NoAttempt
<1>1. CASE Startup
  BY <1>1 DEF Startup, Start, Conclude, RequestInitial, Underfunded, Reconcile
<1>2. CASE CollectOne
  BY <1>2 DEF CollectOne, AcceptReport, DropCancelled, FailWorker
<1>3. CASE Collection /\ ~CollectOne
  BY <1>3 DEF Collection, CollectedRaced, CollectedInLoop, CollectedDirected, CollectedStop,
              CollectedFinish, CollectedPause, CollectedRaise, CollectedDrain, Collected
<1>4. CASE Arbitration
  BY <1>4 DEF Arbitration, Promote, ArbitrateNext, ArbitrateEnd
<1>5. CASE Loop
  BY <1>5 DEF Loop, LoopRequests, LoopArbitrates, LoopAudits, LoopStops, LoopAsks,
              LoopCollects, LoopLaunches, WaitReturns, CollectRaced, Turn, Quiet, BeginAudit
<1>6. CASE Ending
  BY <1>6 DEF Ending, SettlePassed, SettleFailed, FinishAudits, FinishCommits, Drain,
              BeginAudit, GatesFirst
<1>7. CASE WorkerReturns \/ AuditReturns \/ AuditFails \/ AuditUnavailable \/ CoordinatorDecides
  BY <1>7 DEF WorkerReturns, AuditReturns, AuditFails, AuditUnavailable, CoordinatorDecides,
              Decide
<1>8. CASE Failure
  BY <1>8 DEF Failure, ContextExhausted, Raise, Exhausts, Refuse, Crash
<1>9. CASE UNCHANGED vars
  BY <1>9 DEF vars
<1> QED
  BY <1>1, <1>2, <1>3, <1>4, <1>5, <1>6, <1>7, <1>8, <1>9 DEF OtherStep

(* The invariant of the gate. ------------------------------------------------*)

\* The evaluation is under way only while the loop awaits it, and audit tasks
\* outlive it only on the way to the end of the process.
Placed ==
    /\ at # "none" => Evaluating /\ attempt.result = "open"
    /\ asking # {} => at = "audits" \/ Abandoned

\* What is being asked is registered.
Asked ==
    /\ at = "packager" => Registered("package", "packager")
    /\ at = "judge" => Registered("verdict", "judge")
    /\ \A a \in asking : Registered(a, "auditor")

\* A registered request has the settings of its role, and an audit is one of
\* the mandatory ones.
Settled ==
    \A k \in keys :
        /\ k[1] = "package" => k[2] = gate.policy["packager"]
        /\ k[1] = "verdict" => k[2] = gate.policy["judge"]
        /\ k[1] \in Mandatable => k[2] = gate.policy["auditor"] /\ k[1] \in gate.mandatory

\* Answers are to registered requests, one each.
Answered ==
    /\ \A x \in answers : x.key \in keys
    /\ \A x, y \in answers : x.key = y.key => x = y

\* The audits are registered together, after the package, and with them a slot
\* for the judge.
AuditsAsked == \E a \in Mandatable : Registered(a, "auditor")

Funded ==
    /\ at \in {"review", "audits", "judge"} => gate.packaged
    /\ AuditsAsked =>
          /\ gate.packaged
          /\ \A a \in gate.mandatory : Registered(a, "auditor")
          /\ gate.reserved \/ Registered("verdict", "judge")
    /\ FundedToTheEnd

\* What the attempt has committed was answered, and an attempt that passed has
\* everything it needs.
Sufficient ==
    /\ gate.evidence = "sound" /\ Audits \subseteq gate.mandatory
    /\ \A a \in gate.mandatory : gate.audits[a] = "pass"
    /\ gate.verdict = "accepted"

Backed ==
    /\ \A a \in Mandatable : gate.audits[a] # "none" =>
          [key |-> Key(a, "auditor"), says |-> gate.audits[a]] \in answers
    /\ gate.verdict # "none" =>
          [key |-> Key("verdict", "judge"), says |-> gate.verdict] \in answers
    /\ at \in {"audits", "judge"} => gate.evidence = "sound" /\ Audits \subseteq gate.mandatory
    /\ at = "passed" \/ attempt.result = "passed" \/ final = "accepted" => Sufficient

GateInv == /\ Concluded /\ GateType /\ Placed /\ Asked /\ Settled
           /\ Answered /\ Funded /\ Backed

LEMMA InitGateInv == GateInit => GateInv
<1> SUFFICES ASSUME GateInit PROVE GateInv
    OBVIOUS
<1> USE GateAssumption DEF GateInit, Init
<1>1. Concluded
  BY InitConcluded
<1>2. GateType
  BY DEF GateType, Gate, NoGate, Mandatable
<1>3. Placed /\ Asked /\ Settled /\ Answered
  BY DEF Placed, Asked, Settled, Answered
<1>4. Funded /\ Backed
  BY DEF Funded, AuditsAsked, Registered, FundedToTheEnd, Backed, NoGate, NoAttempt
<1> QED
  BY <1>1, <1>2, <1>3, <1>4 DEF GateInv

\* The loop moves, and the attempt stays as it is.
LEMMA QuietStep ==
    ASSUME GateInv, OtherStep, TaskFollows, UNCHANGED <<config, gate, keys, answers>>,
           drifted' \in BOOLEAN
    PROVE  GateInv'
<1> USE DEF GateInv
<1>1. [Next]_vars
  BY DEF OtherStep, Next, Answers
<1>2. Concluded'
  BY <1>1, ConcludedStep
<1>3. at' \in {at, "none"} /\ asking' \subseteq asking
  BY DEF TaskFollows
<1>4. GateType'
  BY <1>3 DEF GateType
<1>5. Placed'
  <2>1. ASSUME at' # "none"
        PROVE  Evaluating' /\ attempt'.result = "open"
    BY <2>1, EvaluatingStep DEF TaskFollows, Evaluating, Placed
  <2>2. ASSUME asking' # {}
        PROVE  at' = "audits" \/ Abandoned'
    <3>1. pc' \notin Stopped /\ asking # {}
      BY <2>2 DEF TaskFollows
    <3>2. CASE Abandoned
      BY <1>1, <3>1, <3>2, AbandonedStep
    <3>3. CASE at = "audits"
      <4>1. Evaluating' \/ Abandoned'
        BY <3>1, <3>3, EvaluatingStep DEF Placed
      <4> QED
        BY <3>3, <4>1 DEF TaskFollows, Evaluating
    <3> QED
      BY <3>1, <3>2, <3>3 DEF Placed
  <2> QED
    BY <2>1, <2>2 DEF Placed
<1>6. Asked' /\ Settled' /\ Answered'
  BY <1>3 DEF Asked, Settled, Answered, Registered, Key
<1>7. Funded'
  BY <1>3 DEF Funded, AuditsAsked, Registered, Key, FundedToTheEnd
<1>8. Backed'
  BY <1>3, OutcomeStep DEF Backed, Sufficient, Key
<1> QED
  BY <1>2, <1>4, <1>5, <1>6, <1>7, <1>8

(* The steps of the evaluation. ----------------------------------------------*)

\* They leave the loop where it is.
LEMMA ElsewhereStep ==
    ASSUME GateInv, Elsewhere
    PROVE  /\ Concluded' /\ config' = config /\ drifted' = drifted
           /\ attempt' = attempt /\ final' = final
           /\ Evaluating' = Evaluating /\ Abandoned' = Abandoned
<1>1. UNCHANGED vars /\ config' = config /\ drifted' = drifted
  BY DEF Elsewhere
<1>2. Concluded'
  BY <1>1, ConcludedStep DEF GateInv
<1> QED
  BY <1>1, <1>2 DEF vars, candidates, outcome, volatile, Evaluating, Abandoned

\* A paid answer is one more, or a known one.
LEMMA PaysStep ==
    ASSUME Answered, NEW k \in keys, NEW v, Pays(k, v), keys' = keys
    PROVE  /\ Answered' /\ answers \subseteq answers'
           /\ answers' \subseteq answers \cup {[key |-> k, says |-> v]}
           /\ [key |-> k, says |-> v] \in answers'
<1>1. CASE Replied(k) = {}
  BY <1>1 DEF Pays, Replied, Answered
<1>2. CASE Replied(k) # {}
  BY <1>2 DEF Pays, Answered
<1> QED
  BY <1>1, <1>2

\* The registered requests are typed pairs.
LEMMA KeyFacts ==
    ASSUME GateType
    PROVE  /\ \A role \in Role : gate.policy[role] \in Policies
           /\ config.policy \in Policies
           /\ \A k \in keys : k = <<k[1], k[2]>>
           /\ "package" \notin Mandatable /\ "verdict" \notin Mandatable
BY GateAssumption DEF GateType, Gate, Request_, Mandatable

\* New settings for one role leave the rest of the attempt as it is.
LEMMA RenewedFacts ==
    ASSUME GateType, NEW role \in Role
    PROVE  LET g == Renewed(role) IN
           /\ g \in Gate
           /\ g.owed = gate.owed /\ g.evidence = gate.evidence /\ g.packaged = gate.packaged
           /\ g.mandatory = gate.mandatory /\ g.audits = gate.audits
           /\ g.reserved = gate.reserved /\ g.verdict = gate.verdict
           /\ g.policy[role] = config.policy
           /\ \A other \in Role \ {role} : g.policy[other] = gate.policy[other]
BY KeyFacts DEF Renewed, GateType, Gate

\* An audit that is registered at all is registered with the frozen settings.
LEMMA NotAsked ==
    ASSUME GateType, Settled, ~AuditsAsked
    PROVE  \A a \in Mandatable, p \in Policies : <<a, p>> \notin keys
<1> SUFFICES ASSUME NEW a \in Mandatable, NEW p \in Policies, <<a, p>> \in keys
             PROVE  FALSE
    OBVIOUS
<1>1. p = gate.policy["auditor"]
  BY DEF Settled
<1> QED
  BY <1>1 DEF AuditsAsked, Registered, Key

LEMMA BeginStep ==
    ASSUME GateInv, Begin
    PROVE  GateInv'
<1> DEFINE fresh == ~gate.packaged /\ ~Registered("package", "packager")
           g == IF fresh THEN Renewed("packager") ELSE gate
           Onward ==
               \/ gate.packaged /\ at' = "review" /\ UNCHANGED keys
               \/ fresh /\ Limited /\ at' = "budget" /\ UNCHANGED keys
               \/ /\ ~gate.packaged
                  /\ keys' = keys \cup {<<"package", g.policy["packager"]>>}
                  /\ at' = "packager"
<1> USE DEF GateInv
<1>1. /\ Concluded' /\ config' = config /\ drifted' = drifted
      /\ attempt' = attempt /\ final' = final
      /\ Evaluating' = Evaluating /\ Abandoned' = Abandoned
  BY ElsewhereStep DEF Begin
<1>2. /\ at = "begin" /\ answers' = answers /\ asking' = asking
  BY DEF Begin, Running
<1>3. CASE UNCHANGED <<gate, keys>> /\ at' \in {"refused", "paused"}
  BY <1>1, <1>2, <1>3 DEF GateType, Placed, Asked, Settled, Answered, Funded, Backed,
     Registered, Key, Results, AuditsAsked, FundedToTheEnd, Sufficient
<1>4. CASE gate' = g /\ Onward
  <2>1. g \in Gate
    BY RenewedFacts DEF GateType, Role
  <2>2. /\ g.owed = gate.owed /\ g.evidence = gate.evidence /\ g.packaged = gate.packaged
        /\ g.mandatory = gate.mandatory /\ g.audits = gate.audits
        /\ g.reserved = gate.reserved /\ g.verdict = gate.verdict
        /\ g.policy["auditor"] = gate.policy["auditor"]
        /\ g.policy["judge"] = gate.policy["judge"]
        /\ ~fresh => g.policy["packager"] = gate.policy["packager"]
    BY RenewedFacts DEF Role
  <2> HIDE DEF g
  <2>3. GateType'
    BY <1>1, <1>2, <1>4, <2>1, KeyFacts DEF GateType, Request_, Results, Gate, Role
  <2>4. Placed'
    BY <1>1, <1>2, <1>4 DEF Placed
  <2>5. Asked' /\ Settled' /\ Answered'
    BY <1>2, <1>4, <2>2, KeyFacts DEF Asked, Settled, Answered, Registered, Key
  <2>6. Funded'
    <3>1. AuditsAsked' => AuditsAsked
      BY <1>4, <2>2, KeyFacts DEF AuditsAsked, Registered, Key
    <3>2. FundedToTheEnd'
      BY <1>4, NotAsked DEF Funded, FundedToTheEnd
    <3> QED
      BY <1>2, <1>4, <2>2, <3>1, <3>2 DEF Funded, Registered, Key
  <2>7. Backed'
    BY <1>1, <1>2, <1>4, <2>2 DEF Backed, Key, Sufficient
  <2> QED
    BY <1>1, <2>3, <2>4, <2>5, <2>6, <2>7
<1>5. \/ UNCHANGED <<gate, keys>> /\ at' \in {"refused", "paused"}
      \/ gate' = g /\ Onward
  BY DEF Begin
<1> QED
  BY <1>3, <1>4, <1>5

LEMMA PackagerStep ==
    ASSUME GateInv, PackagerAnswers
    PROVE  GateInv'
<1> DEFINE k == Key("package", "packager")
<1> USE DEF GateInv
<1>1. /\ Concluded' /\ config' = config /\ drifted' = drifted
      /\ attempt' = attempt /\ final' = final
      /\ Evaluating' = Evaluating /\ Abandoned' = Abandoned
  BY ElsewhereStep DEF PackagerAnswers
<1>2. /\ at = "packager" /\ at' = "sources" /\ UNCHANGED <<gate, keys, asking>>
      /\ Pays(k, "package") /\ k \in keys
  BY DEF PackagerAnswers, Running, Asked, Registered
<1>3. /\ Answered' /\ answers \subseteq answers'
      /\ answers' \subseteq answers \cup {[key |-> k, says |-> "package"]}
  BY <1>2, PaysStep
<1>4. GateType'
  <2>1. [key |-> k, says |-> "package"] \in [key : Request_, says : Answer_]
    BY <1>2 DEF GateType, Answer_
  <2> QED
    BY <1>1, <1>2, <1>3, <2>1 DEF GateType
<1>5. Placed' /\ Asked' /\ Settled'
  BY <1>1, <1>2 DEF Placed, Asked, Settled, Registered, Key
<1>6. Funded'
  BY <1>2 DEF Funded, AuditsAsked, FundedToTheEnd, Registered, Key
<1>7. Backed'
  BY <1>1, <1>2, <1>3 DEF Backed, Key, Sufficient
<1> QED
  BY <1>1, <1>3, <1>4, <1>5, <1>6, <1>7

LEMMA SourcesStep ==
    ASSUME GateInv, SourcesVerified
    PROVE  GateInv'
<1> USE DEF GateInv
<1>1. /\ Concluded' /\ config' = config /\ drifted' = drifted
      /\ attempt' = attempt /\ final' = final
      /\ Evaluating' = Evaluating /\ Abandoned' = Abandoned
  BY ElsewhereStep DEF SourcesVerified
<1>2. /\ at = "sources" /\ at' = "review" /\ UNCHANGED <<keys, answers, asking>>
      /\ Evaluating /\ attempt.result = "open"
  BY DEF SourcesVerified, Running, Placed
<1>3. /\ gate' \in Gate /\ gate'.packaged
      /\ gate'.policy = gate.policy /\ gate'.mandatory = gate.mandatory
      /\ gate'.audits = gate.audits /\ gate'.reserved = gate.reserved
      /\ gate'.verdict = gate.verdict
  BY DEF SourcesVerified, GateType, Gate
<1>4. final # "accepted"
  BY <1>2 DEF Concluded, Evaluating, Stopped
<1>5. GateType' /\ Placed'
  BY <1>1, <1>2, <1>3 DEF GateType, Placed
<1>6. Asked' /\ Settled' /\ Answered'
  BY <1>2, <1>3 DEF Asked, Settled, Answered, Registered, Key
<1>7. Funded'
  BY <1>2, <1>3 DEF Funded, AuditsAsked, FundedToTheEnd, Registered, Key
<1>8. Backed'
  BY <1>1, <1>2, <1>3, <1>4 DEF Backed, Key, Sufficient
<1> QED
  BY <1>1, <1>5, <1>6, <1>7, <1>8

LEMMA IncompleteStep ==
    ASSUME GateInv, AuditsIncomplete
    PROVE  GateInv'
<1> USE DEF GateInv
<1>1. /\ Concluded' /\ config' = config /\ drifted' = drifted
      /\ attempt' = attempt /\ final' = final
      /\ Evaluating' = Evaluating /\ Abandoned' = Abandoned
  BY ElsewhereStep DEF AuditsIncomplete
<1>2. at = "audits" /\ asking = {} /\ at' = "paused" /\ UNCHANGED durable /\ asking' = asking
  BY <1>1 DEF AuditsIncomplete, Running, durable
<1>3. GateType' /\ Placed'
  BY <1>1, <1>2 DEF GateType, Placed, Results, durable
<1>4. Asked' /\ Settled' /\ Answered'
  BY <1>2 DEF Asked, Settled, Answered, Registered, Key, durable
<1>5. Funded'
  BY <1>2 DEF Funded, AuditsAsked, FundedToTheEnd, Registered, Key, durable
<1>6. Backed'
  BY <1>1, <1>2 DEF Backed, Key, Sufficient, durable
<1> QED
  BY <1>1, <1>3, <1>4, <1>5, <1>6

LEMMA AuditAnswersStep ==
    ASSUME GateInv, NEW a \in asking, AuditAnswers(a)
    PROVE  GateInv'
<1> DEFINE k == Key(a, "auditor")
<1> USE DEF GateInv
<1>1. /\ Concluded' /\ config' = config /\ drifted' = drifted
      /\ attempt' = attempt /\ final' = final
      /\ Evaluating' = Evaluating /\ Abandoned' = Abandoned
  BY ElsewhereStep DEF AuditAnswers
<1>2. PICK v \in {"pass", "fail"} :
        /\ Pays(k, v)
        /\ gate' = IF Running("audits") THEN [gate EXCEPT !.audits[a] = v] ELSE gate
  BY DEF AuditAnswers
<1>3. /\ UNCHANGED <<keys, at>> /\ asking' = asking \ {a}
      /\ k \in keys /\ a \in Mandatable
  BY DEF AuditAnswers, Asked, Registered, GateType
<1>4. /\ Answered' /\ answers \subseteq answers'
      /\ answers' \subseteq answers \cup {[key |-> k, says |-> v]}
      /\ [key |-> k, says |-> v] \in answers'
  BY <1>2, <1>3, PaysStep
<1>5. /\ gate' \in Gate /\ gate'.packaged = gate.packaged
      /\ gate'.policy = gate.policy /\ gate'.mandatory = gate.mandatory
      /\ gate'.reserved = gate.reserved /\ gate'.verdict = gate.verdict
      /\ gate'.evidence = gate.evidence
      /\ \A b \in Mandatable : gate'.audits[b] = gate.audits[b] \/ (b = a /\ gate'.audits[b] = v)
  <2>1. CASE Running("audits")
    BY <1>2, <1>3, <2>1 DEF GateType, Gate
  <2>2. CASE ~Running("audits")
    BY <1>2, <2>2 DEF GateType
  <2> QED
    BY <2>1, <2>2
<1>6. GateType'
  <2>1. [key |-> k, says |-> v] \in [key : Request_, says : Answer_]
    BY <1>3 DEF GateType, Answer_
  <2> QED
    BY <1>1, <1>3, <1>4, <1>5, <2>1 DEF GateType
<1>7. Placed'
  BY <1>1, <1>3 DEF Placed
<1>8. Asked' /\ Settled'
  BY <1>3, <1>5 DEF Asked, Settled, Registered, Key
<1>9. Funded'
  BY <1>3, <1>5 DEF Funded, AuditsAsked, FundedToTheEnd, Registered, Key
<1>10. Backed'
  <2>1. \A b \in Mandatable : gate'.audits[b] # "none" =>
           [key |-> Key(b, "auditor")', says |-> gate'.audits[b]] \in answers'
    BY <1>4, <1>5 DEF Backed, Key
  <2>2. gate'.verdict # "none" =>
           [key |-> Key("verdict", "judge")', says |-> gate'.verdict] \in answers'
    BY <1>4, <1>5 DEF Backed, Key
  <2>3. CASE Running("audits")
    <3>1. at = "audits" /\ attempt.result = "open" /\ final # "accepted"
      BY <2>3 DEF Running, Placed, Concluded, Evaluating, Stopped
    <3> QED
      BY <1>1, <1>3, <1>5, <2>1, <2>2, <3>1 DEF Backed
  <2>4. CASE ~Running("audits")
    <3>1. gate' = gate
      BY <1>2, <2>4
    <3> QED
      BY <1>1, <1>3, <2>1, <2>2, <3>1 DEF Backed, Sufficient
  <2> QED
    BY <2>3, <2>4
<1> QED
  BY <1>1, <1>4, <1>6, <1>7, <1>8, <1>9, <1>10

LEMMA AuditBreaksStep ==
    ASSUME GateInv, NEW a \in asking, AuditBreaks(a)
    PROVE  GateInv'
<1> USE DEF GateInv
<1>1. /\ asking' = asking \ {a} /\ UNCHANGED <<config, durable, at>>
      /\ UNCHANGED vars \/ AuditUnavailable
  BY DEF AuditBreaks
<1>2. /\ [Next]_vars /\ attempt' = attempt /\ final' = final
      /\ Evaluating' = Evaluating /\ Abandoned' = Abandoned
  BY <1>1 DEF AuditUnavailable, Next, Answers, vars, candidates, outcome, volatile,
              Evaluating, Abandoned
<1>3. Concluded'
  BY <1>2, ConcludedStep
<1>4. GateType' /\ Placed'
  BY <1>1, <1>2 DEF GateType, Placed, durable
<1>5. Asked' /\ Settled' /\ Answered'
  BY <1>1 DEF Asked, Settled, Answered, Registered, Key, durable
<1>6. Funded'
  BY <1>1 DEF Funded, AuditsAsked, FundedToTheEnd, Registered, Key, durable
<1>7. Backed'
  BY <1>1, <1>2 DEF Backed, Key, Sufficient, durable
<1> QED
  BY <1>3, <1>4, <1>5, <1>6, <1>7

\* The settings of the audits are renewed only before the first is asked.
LEMMA AuditorPolicyFacts ==
    ASSUME GateInv, gate.mandatory \in {{}, Required}
    PROVE  /\ AuditorPolicy \in Policies
           /\ Required \in {Audits, Mandatable} /\ Required # {}
           /\ AuditsAsked => /\ AuditorPolicy = gate.policy["auditor"]
                             /\ gate.mandatory = Required
           /\ \A a \in Mandatable : gate.audits[a] # "none" => AuditsAsked
<1> USE DEF GateInv
<1>1. Required \in {Audits, Mandatable} /\ Required # {} /\ Required \subseteq Mandatable
  BY GateAssumption DEF Required, Mandatable
<1>2. \A a \in Mandatable : gate.audits[a] # "none" => AuditsAsked
  BY DEF Backed, Answered, AuditsAsked, Registered
<1>3. AuditsAsked => /\ AuditorPolicy = gate.policy["auditor"]
                     /\ gate.mandatory = Required
  <2> SUFFICES ASSUME AuditsAsked
               PROVE  /\ AuditorPolicy = gate.policy["auditor"]
                      /\ gate.mandatory = Required
    OBVIOUS
  <2>1. PICK a \in Mandatable : Registered(a, "auditor")
    BY DEF AuditsAsked
  <2>2. a \in gate.mandatory
    BY <2>1 DEF Settled, Registered, Key
  <2> QED
    BY <2>1, <2>2 DEF AuditorPolicy
<1>4. AuditorPolicy \in Policies
  BY KeyFacts DEF AuditorPolicy, Role
<1> QED
  BY <1>1, <1>2, <1>3, <1>4

LEMMA ReviewStep ==
    ASSUME GateInv, Review
    PROVE  GateInv'
<1> DEFINE missing == {a \in Required : gate.audits[a] = "none"}
           new == {<<a, Admitting.policy["auditor"]>> : a \in missing} \ keys
<1> USE DEF GateInv
<1>1. /\ Concluded' /\ config' = config /\ drifted' = drifted
      /\ attempt' = attempt /\ final' = final
      /\ Evaluating' = Evaluating /\ Abandoned' = Abandoned
  BY ElsewhereStep DEF Review
<1>2. /\ at = "review" /\ answers' = answers /\ gate.packaged
      /\ Evaluating /\ attempt.result = "open" /\ final # "accepted" /\ asking = {}
  BY DEF Review, Running, Placed, Funded, Concluded, Evaluating, Abandoned, Stopped
<1>3. CASE UNCHANGED <<gate, keys, asking>> /\ at' \in {"failed", "refused"}
  BY <1>1, <1>2, <1>3 DEF GateType, Placed, Asked, Settled, Answered, Funded, Backed,
     Registered, Key, Results, AuditsAsked, FundedToTheEnd, Sufficient
<1>4. CASE gate.evidence = "sound" /\ gate.mandatory \in {{}, Required}
           /\ new # {} /\ gate' = Admitting /\ at' = "budget" /\ UNCHANGED <<keys, asking>>
  <2>1. /\ Admitting \in Gate
        /\ Admitting.packaged = gate.packaged /\ Admitting.mandatory = Required
        /\ Admitting.audits = gate.audits /\ Admitting.reserved = gate.reserved
        /\ Admitting.verdict = gate.verdict /\ Admitting.evidence = gate.evidence
        /\ Admitting.policy["auditor"] = AuditorPolicy
        /\ Admitting.policy["judge"] = gate.policy["judge"]
        /\ Admitting.policy["packager"] = gate.policy["packager"]
    BY <1>4, AuditorPolicyFacts DEF Admitting, GateType, Gate, Role
  <2>2. ~AuditsAsked
    <3> SUFFICES ASSUME AuditsAsked PROVE FALSE
      OBVIOUS
    <3>1. \A a \in Required : <<a, AuditorPolicy>> \in keys
      BY <1>4, AuditorPolicyFacts DEF Funded, Registered, Key
    <3> QED
      BY <1>4, <2>1, <3>1
  <2>3. \A a \in Mandatable, p \in Policies : <<a, p>> \notin keys
    BY <2>2, NotAsked
  <2>4. GateType' /\ Placed'
    BY <1>1, <1>2, <1>4, <2>1 DEF GateType, Placed, Results
  <2>5. ~AuditsAsked'
    BY <1>4, <2>1, <2>3, AuditorPolicyFacts DEF AuditsAsked, Registered, Key
  <2>6. \A k \in keys : k[1] \notin Mandatable
    BY <2>3, KeyFacts DEF GateType, Request_
  <2>7. Asked' /\ Settled' /\ Answered'
    BY <1>2, <1>4, <2>1, <2>6 DEF Asked, Settled, Answered, Registered, Key
  <2>8. Funded'
    BY <1>4, <2>1, <2>3, <2>5 DEF Funded, FundedToTheEnd
  <2>9. Backed'
    BY <1>1, <1>2, <1>4, <2>1, <2>2, AuditorPolicyFacts DEF Backed, Key
  <2> QED
    BY <1>1, <2>4, <2>7, <2>8, <2>9
<1>5. CASE /\ gate.evidence = "sound" /\ gate.mandatory \in {{}, Required}
           /\ gate' = [Admitting EXCEPT !.reserved = JudgeSlot(new)]
           /\ keys' = keys \cup new /\ asking' = missing /\ at' = "audits"
  <2>1. /\ gate' \in Gate
        /\ gate'.packaged = gate.packaged /\ gate'.mandatory = Required
        /\ gate'.audits = gate.audits /\ gate'.reserved = JudgeSlot(new)
        /\ gate'.verdict = gate.verdict /\ gate'.evidence = gate.evidence
        /\ gate'.policy["auditor"] = AuditorPolicy
        /\ gate'.policy["judge"] = gate.policy["judge"]
        /\ gate'.policy["packager"] = gate.policy["packager"]
        /\ Admitting.policy["auditor"] = AuditorPolicy
    BY <1>5, AuditorPolicyFacts DEF Admitting, GateType, Gate, Role, JudgeSlot
  <2>2. missing \subseteq Required /\ Required \subseteq Mandatable
    BY DEF Required, Mandatable
  <2>3. \A a \in missing : <<a, AuditorPolicy>> \in keys'
    BY <1>5, <2>1
  <2>4. \A k \in keys' : k \in keys \/ \E a \in missing : k = <<a, AuditorPolicy>>
    BY <1>5, <2>1
  <2>5. keys \subseteq keys'
    BY <1>5
  <2>6. /\ \A a \in Required : <<a, AuditorPolicy>> \in keys'
        /\ JudgeSlot(new) \/ Registered("verdict", "judge")
    <3>1. CASE AuditsAsked
      BY <1>5, <2>5, <3>1, AuditorPolicyFacts DEF Funded, Registered, Key, JudgeSlot
    <3>2. CASE ~AuditsAsked
      <4>1. missing = Required
        BY <1>5, <2>2, <3>2, AuditorPolicyFacts
      <4>2. \A a \in Required : <<a, AuditorPolicy>> \notin keys
        BY <1>5, <2>2, <3>2, NotAsked, AuditorPolicyFacts
      <4> HIDE DEF missing
      <4>3. new # {}
        BY <1>5, <2>1, <4>1, <4>2, AuditorPolicyFacts
      <4> QED
        BY <2>3, <4>1, <4>3 DEF JudgeSlot
    <3> QED
      BY <3>1, <3>2
  <2> HIDE DEF missing, new
  <2>7. GateType'
    <3>1. \A a \in missing : <<a, AuditorPolicy>> \in Request_
      BY <1>5, <2>2, AuditorPolicyFacts DEF Request_
    <3> QED
      BY <1>1, <1>2, <1>5, <2>1, <2>2, <2>4, <3>1 DEF GateType
  <2>8. Placed'
    BY <1>1, <1>2, <1>5 DEF Placed
  <2>9. Asked' /\ Answered'
    BY <1>2, <1>5, <2>1, <2>3, <2>5 DEF Asked, Answered, Registered, Key
  <2>10. Settled'
    <3> SUFFICES ASSUME NEW k \in keys'
                 PROVE  /\ k[1] = "package" => k[2] = gate'.policy["packager"]
                        /\ k[1] = "verdict" => k[2] = gate'.policy["judge"]
                        /\ k[1] \in Mandatable => /\ k[2] = gate'.policy["auditor"]
                                                  /\ k[1] \in gate'.mandatory
      BY DEF Settled
    <3>1. CASE k \in keys
      <4>1. ASSUME k[1] \in Mandatable
            PROVE  k[2] = AuditorPolicy /\ k[1] \in Required
        <5>1. AuditsAsked
          BY <3>1, <4>1, KeyFacts DEF Settled, AuditsAsked, Registered, Key
        <5> QED
          BY <1>5, <3>1, <4>1, <5>1, AuditorPolicyFacts DEF Settled
      <4> QED
        BY <2>1, <3>1, <4>1 DEF Settled
    <3>2. CASE \E a \in missing : k = <<a, AuditorPolicy>>
      BY <2>1, <2>2, <3>2, KeyFacts
    <3> QED
      BY <2>4, <3>1, <3>2
  <2>11. Funded'
    BY <1>2, <1>5, <2>1, <2>5, <2>6 DEF Funded, FundedToTheEnd, Registered, Key
  <2>12. Backed'
    <3>1. ASSUME NEW a \in Mandatable, gate.audits[a] # "none"
          PROVE  [key |-> <<a, AuditorPolicy>>, says |-> gate.audits[a]] \in answers
      BY <1>5, <3>1, AuditorPolicyFacts DEF Backed, Key
    <3>2. Audits \subseteq Required
      BY DEF Required
    <3> QED
      BY <1>1, <1>2, <1>5, <2>1, <3>1, <3>2 DEF Backed, Key
  <2> QED
    BY <1>1, <2>7, <2>8, <2>9, <2>10, <2>11, <2>12
<1> QED
  BY <1>3, <1>4, <1>5 DEF Review

LEMMA AskJudgeStep ==
    ASSUME GateInv, AskJudge
    PROVE  GateInv'
<1> DEFINE asked == gate.verdict # "none" \/ Registered("verdict", "judge")
           g == IF asked THEN gate ELSE Renewed("judge")
           call == <<"verdict", g.policy["judge"]>>
<1> USE DEF GateInv
<1>1. /\ Concluded' /\ config' = config /\ drifted' = drifted
      /\ attempt' = attempt /\ final' = final
      /\ Evaluating' = Evaluating /\ Abandoned' = Abandoned
  BY ElsewhereStep DEF AskJudge
<1>2. /\ at = "audits" /\ UNCHANGED <<answers, asking>> /\ asking = {}
      /\ Evaluating /\ attempt.result = "open" /\ final # "accepted"
      /\ gate.packaged /\ gate.evidence = "sound" /\ Audits \subseteq gate.mandatory
      /\ \A a \in gate.mandatory : gate.audits[a] # "none"
  BY DEF AskJudge, Running, Placed, Funded, Backed, Concluded, Evaluating, Stopped
<1>3. CASE gate.verdict # "none" /\ at' = Judged(gate) /\ UNCHANGED <<gate, keys>>
  <2>1. at' \in {"passed", "failed"} /\ (at' = "passed" => Sufficient)
    BY <1>2, <1>3 DEF Judged, Sufficient
  <2> QED
    BY <1>1, <1>2, <1>3, <2>1 DEF GateType, Placed, Asked, Settled, Answered, Funded, Backed,
       Registered, Key, Results, AuditsAsked, FundedToTheEnd, Sufficient
<1>4. /\ g \in Gate /\ call \in Request_
      /\ g.evidence = gate.evidence /\ g.packaged = gate.packaged
      /\ g.mandatory = gate.mandatory /\ g.audits = gate.audits
      /\ g.reserved = gate.reserved /\ g.verdict = gate.verdict
      /\ g.policy["auditor"] = gate.policy["auditor"]
      /\ g.policy["packager"] = gate.policy["packager"]
      /\ asked => g.policy["judge"] = gate.policy["judge"]
  BY RenewedFacts, KeyFacts DEF GateType, Role, Request_
<1>5. \A k \in keys : k[1] = "verdict" => Registered("verdict", "judge")
  BY KeyFacts DEF Settled, Registered, Key
<1>6. CASE gate.verdict = "none" /\ Limited /\ call \notin keys /\ ~gate.reserved
           /\ gate' = g /\ at' = "budget" /\ UNCHANGED keys
  <2>1. ~Registered("verdict", "judge")
    BY <1>4, <1>6 DEF Registered, Key
  <2>2. ~AuditsAsked
    BY <1>6, <2>1 DEF Funded
  <2>3. \A a \in Mandatable, p \in Policies : <<a, p>> \notin keys
    BY <2>2, NotAsked
  <2> HIDE DEF g
  <2>4. ~AuditsAsked'
    BY <1>4, <1>6, <2>2 DEF AuditsAsked, Registered, Key
  <2>5. GateType' /\ Placed'
    BY <1>1, <1>2, <1>4, <1>6 DEF GateType, Placed, Results
  <2>6. Asked' /\ Settled' /\ Answered'
    BY <1>2, <1>4, <1>5, <1>6, <2>1 DEF Asked, Settled, Answered, Registered, Key
  <2>7. Funded'
    BY <1>6, <2>3, <2>4 DEF Funded, FundedToTheEnd
  <2>8. Backed'
    BY <1>1, <1>2, <1>4, <1>6 DEF Backed, Key
  <2> QED
    BY <1>1, <2>5, <2>6, <2>7, <2>8
<1>7. CASE /\ gate.verdict = "none" /\ gate' = [g EXCEPT !.reserved = FALSE]
           /\ keys' = keys \cup {call} /\ at' = "judge"
  <2>1. /\ gate' \in Gate /\ call = <<"verdict", gate'.policy["judge"]>>
        /\ gate'.evidence = gate.evidence /\ gate'.packaged = gate.packaged
        /\ gate'.mandatory = gate.mandatory /\ gate'.audits = gate.audits
        /\ gate'.verdict = "none"
        /\ gate'.policy["auditor"] = gate.policy["auditor"]
        /\ gate'.policy["packager"] = gate.policy["packager"]
        /\ asked => gate'.policy["judge"] = gate.policy["judge"]
    BY <1>4, <1>7 DEF Gate
  <2> HIDE DEF g, call
  <2>2. GateType' /\ Placed'
    BY <1>1, <1>2, <1>4, <1>7, <2>1 DEF GateType, Placed
  <2>3. Asked' /\ Settled' /\ Answered'
    BY <1>2, <1>5, <1>7, <2>1, KeyFacts DEF Asked, Settled, Answered, Registered, Key
  <2>4. Funded'
    <3>1. AuditsAsked' => AuditsAsked
      BY <1>7, <2>1, KeyFacts DEF AuditsAsked, Registered, Key
    <3>2. Registered("verdict", "judge")'
      BY <1>7, <2>1 DEF Registered, Key
    <3>3. AuditsAsked => \A a \in gate'.mandatory : Registered(a, "auditor")'
      BY <1>7, <2>1 DEF Funded, Registered, Key
    <3> QED
      BY <1>2, <1>7, <2>1, <3>1, <3>2, <3>3 DEF Funded, FundedToTheEnd
  <2>5. Backed'
    BY <1>1, <1>2, <1>7, <2>1 DEF Backed, Key
  <2> QED
    BY <1>1, <2>2, <2>3, <2>4, <2>5
<1> QED
  BY <1>3, <1>6, <1>7 DEF AskJudge

LEMMA JudgeStep ==
    ASSUME GateInv, JudgeAnswers
    PROVE  GateInv'
<1> DEFINE k == Key("verdict", "judge")
<1> USE DEF GateInv
<1>1. /\ Concluded' /\ config' = config /\ drifted' = drifted
      /\ attempt' = attempt /\ final' = final
      /\ Evaluating' = Evaluating /\ Abandoned' = Abandoned
  BY ElsewhereStep DEF JudgeAnswers
<1>2. PICK v \in {"accepted", "rejected"} :
        Pays(k, v) /\ gate' = [gate EXCEPT !.verdict = v] /\ at' = Judged(gate')
  BY DEF JudgeAnswers
<1>3. /\ at = "judge" /\ UNCHANGED <<keys, asking>> /\ k \in keys
      /\ Evaluating /\ attempt.result = "open" /\ final # "accepted" /\ asking = {}
      /\ gate.evidence = "sound" /\ Audits \subseteq gate.mandatory
  BY DEF JudgeAnswers, Running, Asked, Registered, Placed, Backed, Concluded, Evaluating,
         Abandoned, Stopped
<1>4. /\ Answered' /\ answers \subseteq answers'
      /\ answers' \subseteq answers \cup {[key |-> k, says |-> v]}
      /\ [key |-> k, says |-> v] \in answers'
  BY <1>2, <1>3, PaysStep
<1>5. /\ gate' \in Gate /\ gate'.packaged = gate.packaged
      /\ gate'.policy = gate.policy /\ gate'.mandatory = gate.mandatory
      /\ gate'.reserved = gate.reserved /\ gate'.audits = gate.audits
      /\ gate'.evidence = gate.evidence /\ gate'.verdict = v
  BY <1>2 DEF GateType, Gate
<1>6. at' \in {"passed", "failed"} /\ (at' = "passed" => Sufficient')
  BY <1>2, <1>3, <1>5 DEF Judged, Sufficient
<1>7. GateType'
  <2>1. [key |-> k, says |-> v] \in [key : Request_, says : Answer_]
    BY <1>3 DEF GateType, Answer_
  <2> QED
    BY <1>1, <1>3, <1>4, <1>5, <1>6, <2>1 DEF GateType, Results
<1>8. Placed' /\ Asked' /\ Settled'
  BY <1>1, <1>3, <1>5, <1>6 DEF Placed, Asked, Settled, Registered, Key
<1>9. Funded'
  BY <1>3, <1>5, <1>6 DEF Funded, AuditsAsked, FundedToTheEnd, Registered, Key
<1>10. Backed'
  BY <1>1, <1>3, <1>4, <1>5, <1>6 DEF Backed, Key
<1> QED
  BY <1>1, <1>4, <1>7, <1>8, <1>9, <1>10

LEMMA ReturnsStep ==
    ASSUME GateInv, Returns
    PROVE  GateInv'
<1> USE DEF GateInv
<1>1. Concluded'
  BY ConcludedStep DEF Returns, Next, Answers
<1>2. /\ at \in Results /\ at' = "none" /\ UNCHANGED <<config, keys, answers, drifted, asking>>
      /\ pc = "evaluate" /\ final' = final /\ final # "accepted" /\ asking = {}
      /\ attempt'.result = "passed" => at = "passed"
  BY DEF Returns, EvaluationReturns, outcome, Concluded, Stopped, Placed, Abandoned, Results
<1>3. /\ gate' \in Gate /\ gate'.packaged = gate.packaged
      /\ gate'.policy = gate.policy /\ gate'.mandatory = gate.mandatory
      /\ gate'.audits = gate.audits /\ gate'.verdict = gate.verdict
      /\ gate'.evidence = gate.evidence
      /\ gate'.reserved = gate.reserved \/ at = "budget"
  BY DEF Returns, GateType, Gate
<1>4. at = "budget" => ~AuditsAsked
  BY KeyFacts DEF Funded, FundedToTheEnd, AuditsAsked, Registered, Key, Role
<1>5. GateType' /\ Placed'
  BY <1>2, <1>3 DEF GateType, Placed
<1>6. Asked' /\ Settled' /\ Answered'
  BY <1>2, <1>3 DEF Asked, Settled, Answered, Registered, Key
<1>7. Funded'
  BY <1>2, <1>3, <1>4 DEF Funded, AuditsAsked, FundedToTheEnd, Registered, Key
<1>8. Backed'
  BY <1>2, <1>3 DEF Backed, Key, Sufficient
<1> QED
  BY <1>1, <1>5, <1>6, <1>7, <1>8

(* The steps that open, forget or leave an attempt. --------------------------*)

LEMMA ForgottenStep ==
    ASSUME GateInv, Forgotten, Concluded', config' = config, at' = "none", asking' = {},
           attempt'.result # "passed", final' # "accepted"
    PROVE  GateInv'
<1> USE GateAssumption DEF GateInv, Forgotten
<1>1. GateType' /\ Placed'
  BY DEF GateType, Placed, Gate, NoGate, Mandatable
<1>2. Asked' /\ Settled' /\ Answered'
  BY DEF Asked, Settled, Answered
<1>3. Funded' /\ Backed'
  BY DEF Funded, AuditsAsked, Registered, FundedToTheEnd, Backed, NoGate
<1> QED
  BY <1>1, <1>2, <1>3

LEMMA OpensStep ==
    ASSUME GateInv, Opens
    PROVE  GateInv'
<1> USE DEF GateInv
<1>1. Concluded'
  BY ConcludedStep DEF Opens, Next, Loop, Ending
<1>2. /\ pc = "loop" \/ (pc = "finish" /\ final = "none" /\ goal # "drained")
      /\ final' = final /\ UNCHANGED <<config, asking>>
      /\ at' \in {"begin", "none"} /\ (at' = "begin" => pc' = "evaluate")
  BY DEF Opens, LoopAudits, FinishAudits, GatesFirst, Turn, outcome
<1>3. at = "none" /\ asking = {} /\ final # "accepted"
  BY <1>2 DEF Placed, Evaluating, Abandoned, Concluded, Stopped
<1>4. /\ attempt # NoAttempt => attempt' = attempt
      /\ attempt = NoAttempt => attempt'.result = "open"
      /\ pc' = "evaluate" => attempt'.result = "open"
  <2>1. PICK p : BeginAudit(p)
    BY DEF Opens, LoopAudits, FinishAudits
  <2> QED
    BY <2>1 DEF BeginAudit, Goto
<1>5. Placed'
  BY <1>2, <1>3, <1>4 DEF Placed, Evaluating
<1>6. CASE attempt # NoAttempt
  <2>1. UNCHANGED durable
    BY <1>6 DEF Opens
  <2> QED
    BY <1>1, <1>2, <1>3, <1>4, <1>5, <1>6, <2>1 DEF GateType, Asked, Settled, Answered,
       Funded, Backed, Registered, Key, AuditsAsked, FundedToTheEnd, Sufficient, durable
<1>7. CASE attempt = NoAttempt
  <2>1. PICK owed \in BOOLEAN :
          gate' = [NoGate EXCEPT !.owed = owed, !.policy = [r \in Role |-> config.policy]]
    BY <1>7 DEF Opens
  <2>2. keys' = {} /\ answers' = {} /\ drifted' = FALSE
    BY <1>7 DEF Opens
  <2>3. /\ gate' \in Gate /\ \A a \in Mandatable : gate'.audits[a] = "none"
        /\ gate'.verdict = "none"
    BY <2>1, KeyFacts DEF NoGate, Gate, Mandatable
  <2>4. GateType'
    BY <1>2, <2>2, <2>3 DEF GateType
  <2>5. Asked' /\ Settled' /\ Answered'
    BY <1>2, <1>3, <2>2 DEF Asked, Settled, Answered
  <2>6. Funded' /\ Backed'
    BY <1>2, <1>3, <1>4, <1>7, <2>2, <2>3
       DEF Funded, AuditsAsked, Registered, FundedToTheEnd, Backed
  <2> QED
    BY <1>1, <1>5, <2>4, <2>5, <2>6
<1> QED
  BY <1>6, <1>7

LEMMA RejectsStep ==
    ASSUME GateInv, GateRejects
    PROVE  GateInv'
<1> USE DEF GateInv
<1>1. Concluded'
  BY ConcludedStep DEF GateRejects, Next, Ending
<1>2. /\ pc = "settle" /\ Forgotten /\ UNCHANGED <<config, at, asking>>
      /\ attempt'.result = "none" /\ final' = final
  BY DEF GateRejects, SettleFailed, NoAttempt, outcome
<1>3. at = "none" /\ asking = {} /\ final # "accepted"
  BY <1>2 DEF Placed, Evaluating, Abandoned, Concluded, Stopped
<1> QED
  BY <1>1, <1>2, <1>3, ForgottenStep

LEMMA CommitsStep ==
    ASSUME GateInv, Commits
    PROVE  GateInv'
<1>1. CASE final' = "accepted"
  BY <1>1, QuietStep DEF Commits, durable, OtherStep, Ending, GateInv, GateType
<1>2. CASE final' # "accepted"
  <2>1. Concluded'
    BY ConcludedStep DEF Commits, Next, Ending, GateInv
  <2>2. /\ Forgotten /\ config' = config /\ at' = "none" /\ asking' = {}
        /\ attempt'.result = "none"
    BY <1>2 DEF Commits, FinishCommits, TaskFollows, Goto, Stopped, NoAttempt
  <2> QED
    BY <1>2, <2>1, <2>2, ForgottenStep
<1> QED
  BY <1>1, <1>2

LEMMA StartsStep ==
    ASSUME GateInv, Starts
    PROVE  GateInv'
<1> USE DEF GateInv
<1>1. Concluded'
  BY ConcludedStep DEF Starts, Next, Startup
<1>2. /\ config' \in Configurations /\ at' = "none" /\ asking' = {} /\ UNCHANGED durable
      /\ attempt' = attempt /\ final' = final
  BY DEF Starts, Start, candidates, outcome, GateType
<1> QED
  BY <1>1, <1>2 DEF GateType, Placed, Asked, Settled, Answered, Funded, Backed, Registered,
     Key, AuditsAsked, FundedToTheEnd, Sufficient, durable

LEMMA DiesStep ==
    ASSUME GateInv, DiesUncommitted
    PROVE  GateInv'
<1> USE DEF GateInv
<1>1. Concluded'
  BY ConcludedStep DEF DiesUncommitted, Next, Failure
<1>2. /\ at' = "none" /\ asking' = {} /\ UNCHANGED <<config, keys, drifted>>
      /\ attempt' = attempt /\ final' = final
  BY DEF DiesUncommitted, Crash, TaskFollows, Stopped, candidates, outcome
<1>3. CASE gate' = gate /\ \E k \in keys, v \in Answer_ : Pays(k, v)
  <2>1. PICK k \in keys, v \in Answer_ : Pays(k, v)
    BY <1>3
  <2>2. /\ Answered' /\ answers \subseteq answers'
        /\ answers' \subseteq answers \cup {[key |-> k, says |-> v]}
    BY <1>2, <2>1, PaysStep
  <2>3. GateType'
    <3>1. [key |-> k, says |-> v] \in [key : Request_, says : Answer_]
      BY DEF GateType
    <3> QED
      BY <1>2, <1>3, <2>2, <3>1 DEF GateType
  <2> QED
    BY <1>1, <1>2, <1>3, <2>2, <2>3 DEF Placed, Asked, Settled, Funded, Backed, Registered,
       Key, AuditsAsked, FundedToTheEnd, Sufficient
<1>4. CASE /\ at = "sources" /\ UNCHANGED answers
           /\ \E e \in {"sound", "flawed"} : gate' = [gate EXCEPT !.evidence = e]
  <2>1. attempt.result = "open" /\ final # "accepted"
    BY <1>4 DEF Placed, Evaluating, Concluded, Stopped
  <2>2. /\ gate' \in Gate /\ gate'.packaged = gate.packaged
        /\ gate'.policy = gate.policy /\ gate'.mandatory = gate.mandatory
        /\ gate'.audits = gate.audits /\ gate'.reserved = gate.reserved
        /\ gate'.verdict = gate.verdict
    BY <1>4 DEF GateType, Gate
  <2> QED
    BY <1>1, <1>2, <1>4, <2>1, <2>2 DEF GateType, Placed, Asked, Settled, Answered, Funded,
       Backed, Registered, Key, AuditsAsked, FundedToTheEnd
<1> QED
  BY <1>3, <1>4 DEF DiesUncommitted, Asked, Registered, Answer_

(* The theorems. -------------------------------------------------------------*)

LEMMA LoopRunsStep ==
    ASSUME GateInv, LoopRuns
    PROVE  GateInv'
<1>1. CASE Opens
  BY <1>1, OpensStep
<1>2. CASE Returns
  BY <1>2, ReturnsStep
<1>3. CASE GateRejects
  BY <1>3, RejectsStep
<1>4. CASE Commits
  BY <1>4, CommitsStep
<1>5. CASE \/ GateRefuses \/ GateAccepts \/ Collects \/ Gathers \/ Arbitrates \/ Loops
           \/ Drains \/ StartsUp
  <2>1. OtherStep
    BY <1>5 DEF GateRefuses, GateAccepts, Collects, Gathers, Arbitrates, Loops, Drains,
       StartsUp, Follows, OtherStep, Startup, Collection, Arbitration, Loop, Ending, Failure
  <2>2. TaskFollows /\ UNCHANGED <<config, gate, keys, answers>> /\ drifted' \in BOOLEAN
    BY <1>5 DEF GateRefuses, GateAccepts, Collects, Gathers, Arbitrates, Loops, Drains,
       StartsUp, Follows, Stays, durable, GateInv, GateType
  <2> QED
    BY <2>1, <2>2, QuietStep
<1> QED
  BY <1>1, <1>2, <1>3, <1>4, <1>5 DEF LoopRuns

LEMMA GateInvStep ==
    ASSUME GateInv, [GateNext]_allvars
    PROVE  GateInv'
<1>1. CASE LoopRuns
  BY <1>1, LoopRunsStep
<1>2. CASE Evaluates
  BY <1>2, BeginStep, PackagerStep, SourcesStep, ReviewStep, IncompleteStep, AskJudgeStep,
     JudgeStep DEF Evaluates
<1>3. CASE AuditReplies
  BY <1>3, AuditAnswersStep, AuditBreaksStep DEF AuditReplies
<1>4. CASE WorkerDone \/ RefutationAudited \/ Decided \/ Fails \/ Dies
  <2>1. OtherStep
    BY <1>4 DEF WorkerDone, RefutationAudited, Decided, Fails, Dies, Follows, OtherStep, Failure
  <2>2. TaskFollows /\ UNCHANGED <<config, gate, keys, answers>> /\ drifted' \in BOOLEAN
    BY <1>4 DEF WorkerDone, RefutationAudited, Decided, Fails, Dies, Follows, Stays, durable,
       GateInv, GateType
  <2> QED
    BY <2>1, <2>2, QuietStep
<1>5. CASE ResultRecorded \/ UNCHANGED allvars
  <2>1. UNCHANGED <<vars, config, gate, keys, answers, at, asking>> /\ drifted' \in BOOLEAN
    BY <1>5 DEF ResultRecorded, allvars, durable, GateInv, GateType
  <2>2. Concluded' /\ Evaluating' = Evaluating /\ Abandoned' = Abandoned
    BY <2>1, ConcludedStep DEF GateInv, vars, volatile, outcome, Evaluating, Abandoned
  <2> QED
    BY <2>1, <2>2 DEF GateInv, GateType, Placed, Asked, Settled, Answered, Funded, Backed,
       Registered, Key, AuditsAsked, FundedToTheEnd, Sufficient, vars, candidates, outcome
<1>6. CASE Starts
  BY <1>6, StartsStep
<1>7. CASE DiesUncommitted
  BY <1>7, DiesStep
<1> QED
  BY <1>1, <1>2, <1>3, <1>4, <1>5, <1>6, <1>7 DEF GateNext, Runs

LEMMA GateInvariant == GateSpec => []GateInv
BY InitGateInv, GateInvStep, PTL DEF GateSpec

(* The gate's state keeps its types.                                         *)
THEOREM GateTypes == GateSpec => []GateType
BY GateInvariant, PTL DEF GateInv

(* No call of an attempt is bought twice, for any number of restarts and     *)
(* whatever each process is configured with (evaluate_candidate: "a          *)
(* registered request retains exact replay settings").                       *)
THEOREM GateBuysOnce == GateSpec => []BoughtOnce
<1>1. GateInv => BoughtOnce
  <2> SUFFICES ASSUME GateInv, NEW x \in answers, NEW y \in answers, x.key[1] = y.key[1]
               PROVE  x = y
    BY DEF BoughtOnce
  <2>1. x.key \in keys /\ y.key \in keys
    BY DEF GateInv, Answered
  <2>2. x.key[2] = y.key[2]
    BY <2>1 DEF GateInv, Settled, GateType, Request_
  <2>3. x.key = y.key
    BY <2>1, <2>2, KeyFacts DEF GateInv
  <2> QED
    BY <2>3 DEF GateInv, Answered
<1> QED
  BY <1>1, GateInvariant, PTL

(* An attempt whose audits were admitted never runs out of budget: the       *)
(* judge's slot is reserved with them and kept until the judge is asked.     *)
THEOREM GateFunded == GateSpec => []FundedToTheEnd
<1>1. GateInv => FundedToTheEnd
  BY DEF GateInv, Funded
<1> QED
  BY <1>1, GateInvariant, PTL

(* What is accepted rests on a sound package, on a passing answer for every  *)
(* audit frozen as mandatory and on the judge's acceptance, each of them the *)
(* paid answer to the request that the attempt records.                      *)
THEOREM GateBacked == GateSpec => []AcceptedIsBacked
<1>1. GateInv => AcceptedIsBacked
  <2> SUFFICES ASSUME GateInv, attempt.result = "passed" \/ final = "accepted"
               PROVE  /\ gate.evidence = "sound" /\ Audits \subseteq gate.mandatory
                      /\ \A a \in gate.mandatory :
                            [key |-> Key(a, "auditor"), says |-> "pass"] \in answers
                      /\ [key |-> Key("verdict", "judge"), says |-> "accepted"] \in answers
    BY DEF AcceptedIsBacked
  <2>1. Sufficient
    BY DEF GateInv, Backed
  <2>2. gate.mandatory \subseteq Mandatable
    BY DEF GateInv, GateType, Gate, Mandatable
  <2> QED
    BY <2>1, <2>2 DEF GateInv, Backed, Sufficient
<1> QED
  BY <1>1, GateInvariant, PTL
=============================================================================
