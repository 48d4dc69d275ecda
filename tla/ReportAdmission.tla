---------------------------- MODULE ReportAdmission ----------------------------
(*****************************************************************************)
(* How one research run puts tasks and worker reports on record: it composes  *)
(* the typed graph of the run (GraphStore), the project's vault of findings   *)
(* (SemanticVault), the immutable files of stages/research.py and the durable *)
(* events that admit a decision and accept a report. Each of these is written *)
(* on its own, the process may die between any two, and a resume repeats      *)
(* whatever has no durable event yet: the coordinator's answer and the worker *)
(* reports are frozen before, so that a replay starts from the same content.  *)
(*****************************************************************************)
EXTENDS GraphStore, SemanticVault

CONSTANTS
    Assignment,     \* the assignments of the decision, 1..n
    Problem,        \* the problem node
    Task,           \* [Assignment -> its task node]
    Result,         \* [Assignment -> the nodes its report creates]
    TaskTitle,      \* [Assignment -> the title the coordinator gave it]
    FindingTitles,  \* titles a worker may give a finding
    Reports,        \* the lists of findings a worker may report, by their titles
    Admissible,     \* [Assignment -> the sets of present nodes its report goes with]
    MaxUpsets,      \* bound on human edits and admissions by another run
    MaxStarts       \* bound on starts of the process

\* The bases of the titles of this run, and of all notes of the vault.
RunBases  == FindingTitles \cup {TaskTitle[a] : a \in Assignment}
Bases     == RunBases \cup OtherTitles
RunTitles == Titles(RunBases)

ASSUME AdmissionConstants ==
    /\ Assignment \subseteq Nat
    /\ Problem \in Note
    /\ Task \in [Assignment -> Note]
    /\ Result \in [Assignment -> SUBSET Note]
    /\ DOMAIN TaskTitle = Assignment
    /\ \A a, b \in Assignment : TaskTitle[a] = TaskTitle[b] => a = b
    /\ Reports \subseteq Seq(FindingTitles) \ {<<>>}
    /\ Admissible \in [Assignment -> SUBSET (SUBSET Note)]
    /\ OtherTasks \subseteq Titles(OtherTitles)
    /\ MaxUpsets \in Nat /\ MaxStarts \in Nat

\* A note that links to a node that will not be there is refused before anything
\* is written: the targets of an assignment (service.py:5615-5623), and, as one of the
\* checks Admissible stands for, the relations of what a report adds (6410-6427).
ASSUME LinksInOrder ==
    /\ Links \in [Note -> SUBSET Note]
    /\ Links[Problem] \subseteq {Problem}
    /\ \A a \in Assignment :
          /\ Links[Task[a]] \subseteq {Problem} \cup {Task[b] : b \in Assignment}
          /\ \A n \in Result[a] : \A have \in Admissible[a] :
                Links[n] \subseteq have \cup {Task[a]} \cup Result[a]

\* What stands for nothing is none of the values.
ASSUME NothingIsNoValue ==
    /\ None \notin Assignment /\ None \notin Outcome
    /\ None \notin [Assignment -> RunTitles]
    /\ \A n \in Note : None \notin Text(n) /\ None \notin [path : Place, text : Text(n)]
    /\ Absent # Raised
    /\ Absent \notin Titles(Bases) /\ Raised \notin Titles(Bases)
    /\ Absent \notin Staged(Bases)

VARIABLES
    pc,         \* where the run is
    asked,      \* [Assignment -> the titles of the findings of its frozen report]
    meta,       \* whether the run's metadata names the problem node
    admitted,   \* titles the vault returned for the tasks, in memory
    frozen,     \* the immutable decision file, or None
    decided,    \* the titles of the durable decision event, or None
    current,    \* the assignment whose report is being accepted, or None
    told,       \* findings of that report admitted so far, in memory
    patch,      \* [Assignment -> the immutable graph-patch file, or None]
    accepted,   \* assignments with a durable worker_report_accepted
    starts,     \* starts of the process so far
    refused     \* what stopped the process, "nothing" if it was not stopped

runVars == <<pc, asked, meta, admitted, frozen, decided, current, told, patch,
             accepted, starts, refused>>
vars    == <<graphVars, vaultVars, runVars>>

NoTitles == [a \in {} |-> None]

(* The operations on the typed graph. ----------------------------------------*)

OpenOp      == [kind |-> "open"]
ReconcileOp == [kind |-> "reconcile"]

\* initialize_problem, record_assignment_tasks and integrate_worker_report.
RunStartOp ==
    [kind |-> "write", id |-> <<"run-start", 0>>, early |-> FALSE,
     touch |-> {Problem}, needs |-> {}, again |-> {Problem}, fits |-> SUBSET Note]

TasksOp ==
    [kind |-> "write", id |-> <<"coordinator-tasks", 0>>, early |-> FALSE,
     touch |-> {Task[a] : a \in Assignment}, needs |-> {Problem}, again |-> {Problem},
     fits |-> SUBSET Note]

ReportOp(a) ==
    [kind |-> "write", id |-> <<"worker-report", a>>, early |-> TRUE,
     touch |-> {Task[a]} \cup Result[a], needs |-> {Problem, Task[a]}, again |-> {},
     fits |-> Admissible[a]]

GraphCalls == {OpenOp, ReconcileOp, RunStartOp, TasksOp} \cup {ReportOp(a) : a \in Assignment}

(* Init and the process. ------------------------------------------------------*)

Init ==
    /\ GraphInit /\ VaultInit
    /\ pc = "down"
    /\ asked \in [Assignment -> Reports]
    /\ meta = FALSE
    /\ admitted = NoTitles
    /\ frozen = None /\ decided = None
    /\ current = None
    /\ told = 0
    /\ patch = [a \in Assignment |-> None]
    /\ accepted = {}
    /\ starts = 0
    /\ refused = "nothing"

\* matek run, or matek resume: the vault is opened, then the graph.
Start ==
    /\ pc = "down"
    /\ starts < MaxStarts
    /\ starts' = starts + 1
    /\ IF Unrecoverable
       THEN refused' = "vault" /\ UNCHANGED <<pc, vault, txn>>
       ELSE /\ refused' = "nothing"
            /\ pc' = IF meta THEN "reconcile" ELSE "open"
            /\ vault' = Recovered
            /\ txn' = Absent
    /\ UNCHANGED <<graphVars, vpc, vret, edits, foreign, asked, meta, admitted, frozen,
                   decided, current, told, patch, accepted>>

\* What a process that is gone had in memory.
Gone ==
    /\ pc' = "down"
    /\ admitted' = NoTitles
    /\ current' = None
    /\ told' = 0
    /\ Forget /\ UNCHANGED <<disk, durableGraph, hands>>
    /\ VaultForget /\ UNCHANGED <<vault, txn, edits, foreign>>
    /\ UNCHANGED <<asked, meta, frozen, decided, patch, accepted, starts>>

Crash == pc \notin {"down", "done"} /\ starts < MaxStarts /\ Gone /\ UNCHANGED refused

\* An error no handler absorbs ends the run; a resume starts over.
Refuse(what) == Gone /\ refused' = what

(* Calls and their returns. --------------------------------------------------*)

Free == gpc = "idle" /\ vpc = "idle" /\ ret = NoReturn /\ vret = Absent

\* Where the graph is called, and with what.
GraphCall ==
    /\ Free
    /\ \/ pc = "open"      /\ Call(OpenOp)
       \/ pc = "reconcile" /\ Call(ReconcileOp)
       \/ pc = "run-start" /\ Call(RunStartOp)
       \/ pc = "tasks"     /\ Call(TasksOp)
       \/ pc = "integrate" /\ Call(ReportOp(current))
    /\ UNCHANGED <<vaultVars, runVars>>

Go(stage) ==
    /\ pc' = stage
    /\ Forget /\ UNCHANGED <<disk, durableGraph, hands>>
    /\ VaultForget /\ UNCHANGED <<vault, txn, edits, foreign>>
    /\ UNCHANGED <<asked, starts, refused>>

Keep == UNCHANGED <<meta, admitted, frozen, decided, current, told, patch, accepted>>

GraphReturn ==
    /\ gpc = "idle" /\ ret # NoReturn
    /\ pc \in {"open", "reconcile", "run-start", "tasks"}
    /\ IF ret = "raised" THEN Refuse("graph")
       ELSE /\ Go(CASE pc = "open"      -> "reconcile"
                       [] pc = "reconcile" -> IF meta THEN "validate" ELSE "run-start"
                       [] pc = "run-start" -> "validate"
                       [] pc = "tasks"     -> "decide")
            /\ Keep

\* validate: the managed notes are there with the fields MATEK gave them, and the
\* state's revision is published. The metadata is saved.
Validate ==
    /\ pc = "validate" /\ Free
    /\ IF Duplicate \/ Conflicts \/ snapshot.rev # Rev(state) THEN Refuse("graph")
       ELSE /\ Go(IF decided = None THEN "admit"
                  ELSE IF accepted = Assignment THEN "done" ELSE "collect")
            /\ meta' = TRUE
            /\ UNCHANGED <<admitted, frozen, decided, current, told, patch, accepted>>

(* The coordinator's decision. -------------------------------------------------*)

Unadmitted == Assignment \ DOMAIN admitted
NextTask   == CHOOSE a \in Unadmitted : \A b \in Unadmitted : a <= b

AdmitTask ==
    /\ pc = "admit" /\ Free /\ Unadmitted # {}
    /\ Admit(<<"task", NextTask, 0>>, TaskTitle[NextTask], {RunMark, CoordinatorMark})
    /\ UNCHANGED <<graphVars, runVars>>

TaskAdmitted ==
    /\ pc = "admit" /\ vpc = "idle" /\ vret # Absent
    /\ IF vret = Raised THEN Refuse("vault")
       ELSE /\ Go("admit")
            /\ admitted' = [a \in DOMAIN admitted \cup {NextTask} |->
                                IF a = NextTask THEN vret ELSE admitted[a]]
            /\ UNCHANGED <<meta, frozen, decided, current, told, patch, accepted>>

\* _atomic_write_immutable_json of the decision: a replay must write the same.
Freeze ==
    /\ pc = "admit" /\ Free /\ Unadmitted = {}
    /\ IF frozen \notin {None, admitted} THEN Refuse("decision")
       ELSE /\ Go("tasks")
            /\ frozen' = admitted
            /\ UNCHANGED <<meta, admitted, decided, current, told, patch, accepted>>

Decide ==
    /\ pc = "decide" /\ Free
    /\ Go("collect")
    /\ decided' = admitted
    /\ UNCHANGED <<meta, admitted, frozen, current, told, patch, accepted>>

(* accept_worker_result. --------------------------------------------------------*)

Collect ==
    /\ pc = "collect" /\ Free
    /\ \E a \in Assignment \ accepted : current' = a
    /\ told' = 0
    /\ Go("finding")
    /\ UNCHANGED <<meta, admitted, frozen, decided, patch, accepted>>

\* admit_worker_report: the findings one after the other, each under a lock of its own.
AdmitReport ==
    /\ pc = "finding" /\ Free
    /\ Admit(<<"finding", current, told + 1>>, asked[current][told + 1],
             {RunMark} \cup FindingMarks(decided[current]))
    /\ UNCHANGED <<graphVars, runVars>>

FindingAdmitted ==
    /\ pc = "finding" /\ vpc = "idle" /\ vret # Absent
    /\ IF vret = Raised THEN Refuse("vault")
       ELSE /\ Go(IF told + 1 < Len(asked[current]) THEN "finding" ELSE "status")
            /\ told' = told + 1
            /\ UNCHANGED <<meta, admitted, frozen, decided, current, patch, accepted>>

CloseTask ==
    /\ pc = "status" /\ Free
    /\ UpdateStatus(decided[current], {RunMark, CompletedMark})
    /\ UNCHANGED <<graphVars, runVars>>

TaskClosed ==
    /\ pc = "status" /\ vpc = "idle" /\ vret # Absent
    /\ IF vret = Raised THEN Refuse("vault") ELSE Go("integrate") /\ Keep

\* What integrate_worker_report returned, an exception included, goes into the
\* immutable patch file; a replay must write the same.
Record ==
    /\ pc = "integrate" /\ gpc = "idle" /\ ret # NoReturn
    /\ IF patch[current] \notin {None, ret} THEN Refuse("patch")
       ELSE /\ Go("accept")
            /\ patch' = [patch EXCEPT ![current] = ret]
            /\ UNCHANGED <<meta, admitted, frozen, decided, current, told, accepted>>

Accept ==
    /\ pc = "accept" /\ Free
    /\ Go(IF accepted \cup {current} = Assignment THEN "done" ELSE "collect")
    /\ accepted' = accepted \cup {current}
    /\ current' = None
    /\ UNCHANGED <<meta, admitted, frozen, decided, told, patch>>

RunStep ==
    \/ GraphCall \/ GraphReturn \/ Validate
    \/ AdmitTask \/ TaskAdmitted \/ Freeze \/ Decide
    \/ Collect \/ AdmitReport \/ FindingAdmitted \/ CloseTask \/ TaskClosed \/ Record \/ Accept

\* Humans and another run interfere at any time before the run is over.
Upset ==
    /\ pc # "done"
    /\ hands + edits + foreign < MaxUpsets
    /\ \/ Hand /\ UNCHANGED <<vaultVars, runVars>>
       \/ (ForeignAdmit \/ VaultHand) /\ UNCHANGED <<graphVars, runVars>>

Next ==
    \/ Start \/ Crash \/ RunStep
    \/ GraphStep /\ UNCHANGED <<vaultVars, runVars>>
    \/ VaultStep /\ UNCHANGED <<graphVars, runVars>>
    \/ Upset

Spec == Init /\ [][Next]_vars

(* Properties. ------------------------------------------------------------------*)

\* The shape of every variable; a transaction of the vault is staged or replaced
\* exactly as far as the operation that owns it has come (semantic.py:843-897).
TypeOK ==
    /\ GraphTypeOK /\ VaultTypeOK(Bases)
    /\ pc \in {"down", "open", "reconcile", "run-start", "validate", "admit", "tasks",
               "decide", "collect", "finding", "status", "integrate", "accept", "done"}
    /\ asked \in [Assignment -> Reports]
    /\ meta \in BOOLEAN
    /\ DOMAIN admitted \subseteq Assignment /\ admitted \in [DOMAIN admitted -> RunTitles]
    /\ frozen \in [Assignment -> RunTitles] \cup {None}
    /\ decided \in [Assignment -> RunTitles] \cup {None}
    /\ current \in Assignment \cup {None}
    /\ told \in Nat /\ (pc = "finding" => told < Len(asked[current]))
    /\ patch \in [Assignment -> Outcome \cup {None}]
    /\ accepted \subseteq Assignment
    /\ gpc # "idle" => call \in GraphCalls
    /\ starts \in 0..MaxStarts
    /\ refused \in {"nothing", "graph", "vault", "decision", "patch"}

Revisions == INSTANCE GraphRevisions WITH chain <- Chain, published <- snapshot.rev

\* Across crashes, replays and human edits the graph has one history: every
\* operation is a revision at most once, from its pending file on, and revisions
\* are published in order, none skipped (service.py:2397-2564, 1622-1673;
\* snapshots.py:800-973).
ImplementsRevisions == Revisions!RevisionsSpec

\* What can stop a run for good. A crash anywhere in a graph transaction or in a
\* vault admission never does: the graph refuses only what a human edited or a
\* graph whose first snapshot was lost, the vault only after a human edit, the
\* decision file only when a title had to be set apart from another run's, and the
\* patch file only in a replay of a merge it already records
\* (service.py:1622-1673, semantic.py:441-493, research.py:2373-2385).
RefusalHasCause ==
    /\ refused = "graph"    => hands > 0 \/ snapshot.rev = -1
    /\ refused = "vault"    => edits > 0
    /\ refused = "decision" => foreign > 0
    /\ refused = "patch"    => \E a \in Assignment \ accepted : patch[a] # None

Published(id) == \E i \in 1..snapshot.rev : Chain[i] = id

\* The problem and every task of the decision.
Given == {Problem} \cup {Task[a] : a \in Assignment}

\* The content of this report does not go with a graph the run has published: the
\* problem, the tasks and the results of some other reports.
Clashes(a) ==
    \E others \in SUBSET (Assignment \ {a}) :
        /\ \A b \in others : Published(ReportOp(b).id)
        /\ Given \cup UNION {Result[b] : b \in others} \notin Admissible[a]

\* An accepted report is in the published graph, unless the graph refused it: then a
\* human edited the graph, or what the report says does not go with what the other
\* published reports say. Each of its findings is in the vault, unless a human edited
\* the vault or a note under the same title takes its place, which shares with it the
\* mark of the run or a mark of the task's title; those marks name no run, so the
\* note may be another run's (research.py:8461-8658, semantic.py:957-971, 1049-1081).
AcceptedIsKept ==
    \A a \in accepted :
        /\ patch[a] = "raised" => hands > 0 \/ Clashes(a)
        /\ patch[a] # "raised" => Published(ReportOp(a).id)
        /\ edits = 0 =>
            \A i \in 1..Len(asked[a]) : \E note \in vault :
                \/ note.what = <<"finding", a, i>>
                \/ /\ note.title = Title(asked[a][i])
                   /\ \/ RunMark \in note.marks
                      \/ OtherMark \in note.marks /\ note.marks \cap FindingMarks(decided[a]) # {}
===============================================================================
