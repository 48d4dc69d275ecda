------------------------------ MODULE LeanPipeline ------------------------------
(*****************************************************************************)
(* The Lean stage (stages/lean.py, application.py): the paper's theorem is    *)
(* stated, the statement is put into challenge.lean, Codex works on it for a  *)
(* bounded number of iterations, each is checked and recorded, and a later    *)
(* attempt goes on from the records.                                          *)
(*                                                                            *)
(* The tree stands for the generated sources: the statement they hold, how    *)
(* far its proof is, and whether a scratch file of the checker was left       *)
(* behind; two trees have the same hashes if they are equal. The paid answers *)
(* about a statement are one answer to one question, which names the paper    *)
(* and the graph revision. Codex is asked anew each time. Left out: logs, the *)
(* project outside the tree, redaction, and which axioms are approved.        *)
(*****************************************************************************)
EXTENDS ManuscriptDrafts

CONSTANTS
    Statements,      \* formal statements of the theorem
    Limits,          \* iterations an attempt may be allowed by the configuration and the budget
    MaxIdle          \* maximum_no_progress_iterations

ASSUME LeanAssumption ==
    Limits \subseteq Nat /\ MaxIdle \in Nat \ {0} /\ {"none", "changed"} \cap Statements = {}

VARIABLES
    tree,      \* the Lean sources of the run
    records,   \* iterations/<n>/record.json
    lean,      \* lean/result.json
    stated,    \* the paid answers about a statement on file, to the last question: as
               \* revision and generation only grow, an older one is not asked again
    task       \* the attempt of the stage: what dies with the process

leanVars == <<tree, records, lean, stated, task>>

\* How far the proof is; an alias is an entry that is no regular file.
Texts   == {"none", "hole", "work", "proof", "alias"}
Classes == {"infeasible", "misaligned", "plan", "goal"}

NoAnswer == [class |-> "infeasible", statement |-> "none"]
NoLean   == [outcome |-> "none", statement |-> "none", paper |-> 0]
NoQuestion == [paper |-> 0, revision |-> 0, generation |-> 0]
NoTask   == [question |-> NoQuestion, answer |-> NoAnswer,
             limit |-> 0, at |-> 1, idle |-> 0, progress |-> FALSE, again |-> FALSE,
             passed |-> FALSE, refused |-> FALSE]

(* ---- the attempt begins -------------------------------------------------- *)
BeginLean(s) ==
    /\ run' = With(s, "feasibility", "running")
    /\ \E limit \in Limits :
          task' = [NoTask EXCEPT !.limit = limit,
                                 !.question = [paper |-> shelf.result.paper, revision |-> Revision,
                                               generation |-> s.generation]]
    /\ pc' = IF tree.text = "alias" THEN "raising" ELSE "stating"
    /\ UNCHANGED <<tree, records, lean, stated>>

SkipLean(s) ==
    /\ run' = SkipPending(s, LeanStage)
    /\ pc' = "reporting"
    /\ UNCHANGED leanVars

\* A draft with a terminating failure is not formalized, nor is any without consent.
Formalize(s) == IF shelf.result.hard = "none" /\ s.formal THEN BeginLean(s) ELSE SkipLean(s)

(* ---- the statement ------------------------------------------------------- *)
Answers == [class : {"infeasible", "misaligned"}, statement : {"none"}]
           \cup [class : {"plan", "goal"}, statement : Statements]

\* Mutant of Filed: the paid answer does not outlive the process.
FiledNowhere(answer) == stated

Filed(answer) == [question |-> task.question, answer |-> answer]

Concluded(outcome) ==
    /\ lean' = [outcome |-> outcome, statement |-> task.answer.statement,
                paper |-> task.question.paper]
    /\ pc' = "noting lean"

\* Feasibility, statement and alignment.
State ==
    /\ pc = "stating"
    /\ \E answer \in Answers :
          /\ task.question = stated.question => answer = stated.answer
          /\ task' = [task EXCEPT !.answer = answer]
          /\ stated' = Filed(answer)
          /\ pc' = "placing"
    /\ UNCHANGED <<tree, records, lean>>


\* Sources of the same statement are kept, all others give way to the new one.
Placed(statement) ==
    IF tree.statement = statement THEN tree
    ELSE [tree EXCEPT !.statement = statement, !.text = "hole"]

Place ==
    /\ pc = "placing"
    /\ \/ /\ task.answer.class \in {"infeasible", "misaligned"}
          /\ Concluded(task.answer.class)
          /\ UNCHANGED tree
       \/ /\ task.answer.class \in {"plan", "goal"}
          /\ tree' = Placed(task.answer.statement)
          /\ IF task.answer.class = "plan" THEN Concluded("statement_only")
             ELSE IF task.limit = 0 THEN Concluded("unproved")
             ELSE pc' = "reading" /\ UNCHANGED lean
    /\ UNCHANGED <<records, stated, task>>

(* ---- the iterations ------------------------------------------------------ *)
Advanced(t) == [t EXCEPT !.at = @ + 1]

IdleAfter(progress) == IF progress THEN 0 ELSE task.idle + 1

\* A record of another statement stops the attempt; a proof recorded for these
\* very sources is checked again; other records only count.
Read ==
    /\ pc = "reading" /\ task.at <= task.limit /\ task.at <= Len(records)
    /\ LET record == records[task.at]
           here == record.tree = tree
           t == [task EXCEPT !.idle = IdleAfter(record.progress)]
       IN IF record.statement # task.answer.statement
          THEN task' = [task EXCEPT !.refused = TRUE] /\ pc' = "raising" /\ UNCHANGED lean
          ELSE IF here /\ record.passed
          THEN task' = [t EXCEPT !.again = TRUE] /\ pc' = "checking" /\ UNCHANGED lean
          ELSE IF here /\ t.idle >= MaxIdle
          THEN task' = t /\ Concluded("unverified")
          ELSE task' = Advanced(t) /\ pc' = "reading" /\ UNCHANGED lean
    /\ UNCHANGED <<tree, records, stated>>

AskCodex ==
    /\ pc = "reading" /\ task.at <= task.limit /\ task.at > Len(records)
    /\ task' = [task EXCEPT !.again = FALSE]
    /\ pc' = "coding"
    /\ UNCHANGED <<tree, records, lean, stated>>

\* Codex leaves any sources behind; aliases are refused at once.
Codex ==
    /\ pc = "coding"
    /\ \E text \in Texts \ {"none"}, statement \in {task.answer.statement, "changed"} :
          tree' = [tree EXCEPT !.text = text, !.statement = statement]
    /\ task' = [task EXCEPT !.progress = tree' # tree, !.idle = IdleAfter(tree' # tree)]
    /\ pc' = IF tree'.text = "alias" THEN "raising" ELSE "checking"
    /\ UNCHANGED <<records, lean, stated>>

\* The build; if it succeeds, a scratch file is written that asks for the axioms.
CheckBuild ==
    /\ pc = "checking"
    /\ \E built \in BOOLEAN :
          /\ tree' = [tree EXCEPT !.scratch = built]
          /\ pc' = IF built THEN "asking axioms" ELSE "judged"
    /\ task' = [task EXCEPT !.passed = FALSE]
    /\ UNCHANGED <<records, lean, stated>>

\* Mutant of Proved: the header of the theorem is not compared.
ProvedSomething == tree.text = "proof"

Proved == tree.text = "proof" /\ tree.statement = task.answer.statement

CheckAxioms ==
    /\ pc = "asking axioms"
    /\ \E answered \in BOOLEAN : task' = [task EXCEPT !.passed = answered /\ Proved]
    /\ tree' = [tree EXCEPT !.scratch = FALSE]
    /\ pc' = "judged"
    /\ UNCHANGED <<records, lean, stated>>

\* Mutant of Recorded: a second check does not update the record.
RecordedOnce ==
    IF task.again THEN records
    ELSE Append(records, [statement |-> task.answer.statement, passed |-> task.passed,
                          progress |-> task.progress, tree |-> tree, made |-> task.question])

Recorded ==
    IF task.again
    THEN [records EXCEPT ![task.at].passed = task.passed, ![task.at].tree = tree]
    ELSE Append(records, [statement |-> task.answer.statement, passed |-> task.passed,
                          progress |-> task.progress, tree |-> tree, made |-> task.question])

\* The record, and then the verdict: verified, given up, or another iteration.
RecordIteration ==
    /\ pc = "judged"
    /\ records' = Recorded
    /\ \/ task.passed /\ Concluded("verified") /\ UNCHANGED task
       \/ ~task.passed /\ ~task.again /\ Concluded("unverified") /\ UNCHANGED task
       \/ /\ ~task.passed
          /\ IF task.idle >= MaxIdle
             THEN Concluded("unverified") /\ UNCHANGED task
             ELSE task' = Advanced(task) /\ pc' = "reading" /\ UNCHANGED lean
    /\ UNCHANGED <<tree, stated>>

Exhausted ==
    /\ pc = "reading" /\ task.at > task.limit
    /\ Concluded("unverified")
    /\ UNCHANGED <<tree, records, stated, task>>

(* ---- the runner's checkpoints -------------------------------------------- *)
NoteLean ==
    /\ pc = "noting lean"
    /\ graph' = graph \cup {"lean"}
    /\ pc' = "recording lean"
    /\ UNCHANGED <<run, tree, records, lean, stated, task>>

\* What becomes of alignment, formalization and verification.
Fates(outcome) ==
    CASE outcome = "infeasible"     -> <<"skipped", "skipped", "skipped">>
      [] outcome = "misaligned"     -> <<"failed", "skipped", "skipped">>
      [] outcome = "statement_only" -> <<"succeeded", "skipped", "skipped">>
      [] outcome = "verified"       -> <<"succeeded", "succeeded", "succeeded">>
      [] outcome = "unverified"     -> <<"succeeded", "failed", "failed">>
      [] outcome = "unproved"       -> <<"succeeded", "failed", "skipped">>

Settled(s, fates) ==
    With(With(With(s, "alignment", fates[1]), "formalization", fates[2]), "verification", fates[3])

\* _apply_lean_result: the first of the later stages to begin saves the state.
RecordLean ==
    /\ pc = "recording lean"
    /\ LET s == Succeeded(run, "feasibility", lean.paper)
       IN IF lean.outcome = "infeasible"
          THEN run' = SkipPending(s, LeanStage) /\ pc' = "reporting"
          ELSE run' = With(s, "alignment", "running") /\ pc' = "settling"
    /\ UNCHANGED <<graph, leanVars>>

SettleLean ==
    /\ pc = "settling"
    /\ run' = Settled(run, Fates(lean.outcome))
    /\ pc' = "reporting"
    /\ UNCHANGED <<graph, leanVars>>

LeanInit ==
    /\ tree = [statement |-> "none", text |-> "none", scratch |-> FALSE]
    /\ records = <<>> /\ lean = NoLean /\ task = NoTask
    /\ stated = [question |-> NoQuestion, answer |-> NoAnswer]

LeanNext ==
    \/ State /\ UNCHANGED <<run, graph>>
    \/ Place /\ UNCHANGED <<run, graph>>
    \/ Read /\ UNCHANGED <<run, graph>>
    \/ AskCodex /\ UNCHANGED <<run, graph>>
    \/ Codex /\ UNCHANGED <<run, graph>>
    \/ CheckBuild /\ UNCHANGED <<run, graph>>
    \/ CheckAxioms /\ UNCHANGED <<run, graph>>
    \/ RecordIteration /\ UNCHANGED <<run, graph>>
    \/ Exhausted /\ UNCHANGED <<run, graph>>
    \/ NoteLean \/ RecordLean \/ SettleLean
=============================================================================
