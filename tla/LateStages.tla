------------------------------- MODULE LateStages -------------------------------
(*****************************************************************************)
(* The manuscript and the Lean stage of one run under the runner's commands   *)
(* (application.py): the first run, plain resumes, forced stages, and what    *)
(* goes wrong in between. The stages before have succeeded, the user wants    *)
(* Lean and consents or does not, and the record of the report stage is left  *)
(* out.                                                                       *)
(*****************************************************************************)
EXTENDS LeanPipeline

CONSTANTS
    Forceable,       \* stages a command may force
    MaxCommands,     \* bound: commands given to a run, if it wants Lean (TRUE) or not
    MaxUpsets        \* bound: exceptions, cancellations and crashes

ASSUME LateAssumption ==
    /\ Forceable \subseteq {"manuscript", "bibliography"} \cup LeanStage
    /\ MaxCommands \in [BOOLEAN -> Nat] /\ MaxUpsets \in Nat

VARIABLES
    commands,  \* how many commands were given
    upsets     \* how much went wrong so far

lateVars == <<run, graph, pc, manuscriptVars, leanVars, commands, upsets>>

Pending == [x \in Stage |-> IF Position(x) < Position("manuscript") THEN "succeeded" ELSE "pending"]

Init ==
    /\ ManuscriptInit /\ LeanInit
    /\ \E formal \in BOOLEAN :
          run = [st |-> [Pending EXCEPT !["manuscript"] = "running"],
                 rec |-> [x \in Stage |-> 0], correct |-> FALSE, generation |-> 0,
                 formal |-> formal]
    /\ graph = {} /\ pc = "writing" /\ commands = 1 /\ upsets = 0

(* ---- commands ------------------------------------------------------------ *)
Command == pc = "off" /\ commands < MaxCommands[run.formal] /\ commands' = commands + 1 /\ UNCHANGED upsets

\* The runner enters the first stage that is not complete.
Enters(s) ==
    LET stage == FirstIncomplete(s.st)
    IN IF stage = "manuscript"
       THEN BeginManuscript(s) /\ UNCHANGED <<graph, leanVars>>
       ELSE stage = "feasibility" /\ Formalize(s) /\ UNCHANGED <<graph, manuscriptVars>>

Resume == Command /\ Enters(Prepared(run))

Boundary(stage) == IF stage = "bibliography" THEN "manuscript"
                   ELSE IF stage \in LeanStage THEN "feasibility" ELSE stage

\* A forced stage gets a new generation of paid answers; a bibliography that
\* was not verified is corrected, any other is written anew.
Forced(stage) ==
    LET s == [run EXCEPT !.generation = @ + 1,
                         !.correct = \/ @
                                       \/ /\ stage = "bibliography" /\ Correctable
                                          /\ shelf.result.plan.gate # "clean"]
    IN InvalidateFrom(s, Boundary(stage))

ForceStage ==
    /\ Command
    /\ \E stage \in Forceable : Enters(Forced(stage))

(* ---- how an attempt ends ------------------------------------------------- *)
\* After the draft the runner goes on to Lean.
GoOn ==
    /\ pc = "formalizing"
    /\ Formalize(run)
    /\ UNCHANGED <<graph, manuscriptVars, commands, upsets>>

Running == {x \in Stage : run.st[x] = "running"}

\* The stage under way fails, or is interrupted, which a resume does not tell apart,
\* and the state is saved.
StageFails ==
    /\ pc = "raising"
    /\ run' = [run EXCEPT !.st = [x \in Stage |-> IF x \in Running THEN "failed" ELSE @[x]]]
    /\ pc' = "reporting"
    /\ UNCHANGED <<graph, manuscriptVars, leanVars, commands, upsets>>

Open == \E x \in Stage \ {"report"} : run.st[x] \in {"pending", "running"}

\* The report notes the status of the run in the graph, once per status.
Report ==
    /\ pc = "reporting"
    /\ graph' = graph \cup {IF Open THEN "open" ELSE "closed"}
    /\ pc' = "off" /\ work' = Idle /\ task' = NoTask
    /\ UNCHANGED <<run, papers, written, shelf, tree, records, lean, stated, commands, upsets>>

Upset == upsets < MaxUpsets /\ upsets' = upsets + 1 /\ UNCHANGED commands

Awaits == {"writing", "auditing", "building", "stating", "coding", "checking", "asking axioms"}

Cleaned == [tree EXCEPT !.scratch = FALSE]

\* An exception the stage does not handle, or Ctrl-C, at an await; the checker
\* removes a scratch file before the build, and its own on the way out.
Raise ==
    /\ pc \in Awaits
    /\ tree' = IF pc \in {"checking", "asking axioms"} THEN Cleaned ELSE tree
    /\ pc' = "raising"
    /\ Upset
    /\ UNCHANGED <<run, graph, manuscriptVars, records, lean, stated, task>>

Crash ==
    /\ pc # "off"
    /\ pc' = "off" /\ work' = Idle /\ task' = NoTask
    /\ tree' = tree \/ (pc = "checking" /\ tree' = Cleaned)
    /\ Upset
    /\ UNCHANGED <<run, graph, papers, written, shelf, records, lean, stated>>

Next ==
    \/ ManuscriptNext /\ UNCHANGED <<leanVars, commands, upsets>>
    \/ LeanNext /\ UNCHANGED <<manuscriptVars, commands, upsets>>
    \/ GoOn \/ StageFails \/ Report \/ Resume \/ ForceStage \/ Raise \/ Crash

Spec == Init /\ [][Next]_lateVars

(* ---- properties ---------------------------------------------------------- *)
Done(stage) == run.st[stage] = "succeeded"

\* What a finished manuscript stage publishes is the draft its result names, and
\* where the result says that it was built, the PDF is of that draft, whichever
\* round it is from (manuscript.py 1562-1615). No revision makes things worse: if a
\* draft of the attempt had no terminating finding, the published one has none.
PublishedAsBuilt ==
    /\ Done("manuscript") =>
           /\ shelf.tex = shelf.result.paper /\ shelf.tex = run.rec["manuscript"]
           /\ shelf.result.plan.build = "passed" => shelf.pdf = shelf.tex
    /\ pc = "noting" /\ shelf.result.hard = "integrity" =>
           \A i \in DOMAIN work.drafts : Hard(work.drafts[i])

\* The run calls its theorem verified only while its sources prove the aligned
\* statement of the paper it publishes (application.py 2663-2745).
VerifiedIsProof ==
    Done("verification") =>
        /\ tree.text = "proof" /\ ~tree.scratch
        /\ tree.statement = lean.statement /\ lean.outcome = "verified"
        /\ lean.paper = shelf.tex

\* Records are refused only by an attempt that asked another question than the
\* one they were made for: the same question brings back the same statement, also
\* after a crash (lean.py 590-614).
SameQuestionResumes ==
    task.refused => \E i \in DOMAIN records : records[i].made # task.question

\* A later check rejected the very sources of the record.
Disproved(i) == \E j \in DOMAIN records : records[j].tree = records[i].tree /\ ~records[j].passed

\* A proof on record is neither worked on nor given up while it is on disk, unless
\* it was checked again and rejected; but a scratch file that a crash left behind
\* hides it (lean.py 626, 1095-1160).
RecordedProofIsUsed ==
    pc = "coding" \/ (pc = "noting lean" /\ lean.outcome = "unverified") =>
        \A i \in DOMAIN records :
            /\ i <= task.limit /\ records[i].passed /\ ~Disproved(i)
            /\ records[i].tree = [tree EXCEPT !.scratch = FALSE]
            => tree.scratch
=============================================================================
