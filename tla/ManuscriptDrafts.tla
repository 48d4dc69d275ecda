---------------------------- MODULE ManuscriptDrafts ----------------------------
(*****************************************************************************)
(* The manuscript stage (stages/manuscript.py, application.py): a paper is    *)
(* written, audited and built, revised while it can be repaired, and the best *)
(* draft is published; a later command may correct the published draft.       *)
(*                                                                            *)
(* A paper is a number; papers[p] is what is wrong with it. A step ends at an *)
(* await or at a write of a file the next process can see, so the process may *)
(* die between any two of them. Paid answers are on file: the same question   *)
(* in the same cache generation gets the same answer. A question to the       *)
(* writer names the graph revision, which is the number of operations the     *)
(* graph has recorded. Left out: the other files of a draft, wording, and the *)
(* publication status a reader derives from the findings.                     *)
(*****************************************************************************)
EXTENDS StageRecords, Integers, FiniteSets

CONSTANTS
    Rounds,          \* manuscript.maximum_revision_rounds
    MaxPapers,       \* bound: papers written in a run, if it wants Lean (TRUE) or not
    Faults           \* bound: what may be wrong with a paper, if the run wants Lean or not

VARIABLES
    run,       \* state.json: the stage records, and of the metadata whether Lean is
               \* wanted, whether the bibliography is corrected, and the generation
    graph,     \* the operations the knowledge graph has recorded
    pc,        \* where the process is; "off" when there is none
    papers,    \* what is wrong with each paper written so far
    written,   \* the writer's answers on file, by question
    shelf,     \* the directory manuscript/
    work       \* the attempt of the stage: what dies with the process

manuscriptVars == <<papers, written, shelf, work>>

\* What is found in a paper whenever one looks: nothing, not even when it is built;
\* nothing by validation; something to repair; a fabricated citation; TeX that must
\* not be executed.
Fault  == {"flawless", "none", "rough", "fabricated", "unsafe"}
Builds == {"passed", "marred", "failed", "refused"}   \* marred: a PDF, but with errors

ASSUME ManuscriptAssumption ==
    /\ Rounds \in Nat
    /\ MaxPapers \in [BOOLEAN -> Nat] /\ Faults \in [BOOLEAN -> SUBSET Fault]

NoPlan   == [gate |-> "clean", build |-> "passed", broken |-> FALSE]
NoResult == [paper |-> 0, cycle |-> 0, plan |-> NoPlan, hard |-> "none"]
Idle     == [cycle |-> 0, limit |-> 0, after |-> 0, plan |-> NoPlan, revision |-> 0,
             paper |-> 0, gate |-> "clean", drafts |-> <<>>, broken |-> FALSE]

Revision == Cardinality(graph)
WithKey(f, key, value) == [x \in DOMAIN f \cup {key} |-> IF x = key THEN value ELSE f[x]]

(* ---- the attempt begins -------------------------------------------------- *)
\* A result with a terminating failure, and a missing one, cannot be corrected.
Correctable == shelf.result.paper # 0 /\ shelf.result.hard = "none"

Larger(a, b) == IF a > b THEN a ELSE b

\* A correction counts on from the result it corrects.
Attempt(s) ==
    IF s.correct
    THEN [Idle EXCEPT !.cycle = shelf.result.cycle + 1,
                      !.limit = shelf.result.cycle + Larger(1, Rounds),
                      !.after = shelf.result.paper, !.plan = shelf.result.plan,
                      !.revision = Revision]
    ELSE [Idle EXCEPT !.limit = Rounds, !.revision = Revision]

BeginManuscript(s) ==
    /\ run' = With(s, "manuscript", "running")
    /\ work' = Attempt(s)
    /\ pc' = IF s.correct /\ ~Correctable THEN "raising" ELSE "writing"
    /\ UNCHANGED <<papers, written, shelf>>

(* ---- one round ----------------------------------------------------------- *)
Question == [after |-> work.after, plan |-> work.plan, revision |-> work.revision,
             generation |-> run.generation]

Drafted(paper) ==
    /\ shelf' = [shelf EXCEPT !.tex = paper]
    /\ work' = [work EXCEPT !.paper = paper]
    /\ pc' = "auditing"

\* write_draft, and the draft is published before it is examined.
Write ==
    /\ pc = "writing"
    /\ IF Question \in DOMAIN written
       THEN Drafted(written[Question]) /\ UNCHANGED <<papers, written>>
       ELSE /\ Len(papers) < MaxPapers[run.formal]
            /\ \E fault \in Faults[run.formal] : papers' = Append(papers, fault)
            /\ written' = WithKey(written, Question, Len(papers) + 1)
            /\ Drafted(Len(papers) + 1)
    /\ UNCHANGED <<run, graph>>

\* A revision that fails ends the rounds; a first draft that fails, the stage.
WriterFails ==
    /\ pc = "writing" /\ work.drafts # <<>>
    /\ work' = [work EXCEPT !.broken = TRUE]
    /\ pc' = "selecting"
    /\ UNCHANGED <<run, graph, papers, written, shelf>>

\* The auditor's answer is paid for and so the same each time; the look-up of
\* identifiers is not, and the audit may be unavailable.
GatesOf(paper) ==
    CASE papers[paper] = "flawless"   -> {"clean"}
      [] papers[paper] = "fabricated" -> {"fabricated", "unavailable"}
      [] OTHER                        -> {"clean", "disputed", "unavailable"}

Audit ==
    /\ pc = "auditing"
    /\ \E gate \in GatesOf(work.paper) : work' = [work EXCEPT !.gate = gate]
    /\ pc' = "building"
    /\ UNCHANGED <<run, graph, papers, written, shelf>>

Hard(draft) == papers[draft.paper] = "unsafe" \/ draft.gate = "fabricated"

\* An audit that was unavailable is a finding, but none the writer could repair.
NeedsRevision(draft) ==
    papers[draft.paper] = "rough" \/ draft.gate = "disputed" \/ draft.build # "passed"

Final(draft) == Hard(draft) \/ ~NeedsRevision(draft) \/ work.cycle >= work.limit

\* The PDF that lies there is moved away first, unless nothing is executed.
Compiled(build) ==
    IF build = "refused" THEN shelf
    ELSE IF build = "failed" THEN [shelf EXCEPT !.pdf = 0]
    ELSE [shelf EXCEPT !.pdf = work.paper, !.copies = WithKey(@, work.cycle, work.paper)]

BuildsOf(paper) ==
    CASE papers[paper] = "flawless" -> {"passed"}
      [] papers[paper] = "unsafe"   -> {"refused"}
      [] OTHER                      -> Builds \ {"refused"}

\* build_draft, and the decision between another round and the end.
Build ==
    /\ pc = "building"
    /\ \E build \in BuildsOf(work.paper) :
          LET draft == [cycle |-> work.cycle, paper |-> work.paper, gate |-> work.gate,
                        build |-> build]
              kept  == [work EXCEPT !.drafts = Append(@, draft)]
          IN /\ shelf' = Compiled(build)
             /\ IF Final(draft)
                THEN work' = kept /\ pc' = "selecting"
                ELSE /\ work' = [kept EXCEPT !.cycle = @ + 1, !.after = work.paper,
                                             !.plan = [gate |-> work.gate, build |-> build,
                                                       broken |-> FALSE]]
                     /\ pc' = "writing"
    /\ UNCHANGED <<run, graph, papers, written>>

(* ---- the best draft ------------------------------------------------------ *)
Count(conditions) == Cardinality({i \in DOMAIN conditions : conditions[i]})

\* record_score; a gate issue counts as itself and as a finding.
Score(draft) ==
    LET hard == Count(<<papers[draft.paper] = "unsafe", draft.gate = "fabricated">>)
        gate == IF draft.gate = "clean" THEN 0 ELSE 1
        repairs == Count(<<papers[draft.paper] = "rough", draft.gate \in {"disputed", "unavailable"},
                           draft.build \in {"marred", "failed"}>>)
    IN <<hard, repairs + gate, IF draft.build = "passed" THEN 0 ELSE 1, hard + repairs, -draft.cycle>>

Precedes(s, t) == \E i \in DOMAIN s : s[i] < t[i] /\ \A j \in 1..(i - 1) : s[j] = t[j]

\* The draft with the smallest score.
Best ==
    CHOOSE draft \in ToSet(work.drafts) :
        \A other \in ToSet(work.drafts) \ {draft} : Precedes(Score(draft), Score(other))

\* Mutant of Selected: the PDF of the last build stays, whichever draft it is of.
SelectedTex == [shelf EXCEPT !.tex = Best.paper]

\* The PDF published is the copy in the directory of the selected round.
Selected ==
    [shelf EXCEPT !.tex = Best.paper,
                  !.pdf = IF Best.cycle \in DOMAIN shelf.copies THEN shelf.copies[Best.cycle] ELSE 0]

Publish ==
    /\ pc = "selecting"
    /\ shelf' = Selected
    /\ pc' = "filing"
    /\ UNCHANGED <<run, graph, papers, written, work>>

\* A draft that does not build is blocked once the rounds are exhausted.
Blocked(draft) ==
    IF Hard(draft) THEN "integrity"
    ELSE IF draft.build # "passed" /\ work.cycle >= work.limit THEN "latex"
    ELSE "none"

\* result.json
File ==
    /\ pc = "filing"
    /\ shelf' = [shelf EXCEPT !.result =
                    [paper |-> Best.paper, cycle |-> work.cycle, hard |-> Blocked(Best),
                     plan |-> [gate |-> Best.gate, build |-> Best.build, broken |-> work.broken]]]
    /\ pc' = "noting"
    /\ UNCHANGED <<run, graph, papers, written, work>>

(* ---- the runner's checkpoints -------------------------------------------- *)
NoteDraft ==
    /\ pc = "noting"
    /\ graph' = graph \cup {"draft"}
    /\ pc' = "recording draft"
    /\ UNCHANGED <<run, papers, written, shelf, work>>

\* The save with which the bibliography stage begins.
RecordDraft ==
    /\ pc = "recording draft"
    /\ run' = With(Succeeded(run, "manuscript", shelf.result.paper), "bibliography", "running")
    /\ pc' = "closing"
    /\ UNCHANGED <<graph, papers, written, shelf, work>>

Forgotten == work' = Idle

CloseDraft ==
    /\ pc = "closing"
    /\ run' = [With(run, "bibliography", "succeeded") EXCEPT !.correct = FALSE]
    /\ pc' = "formalizing"
    /\ Forgotten
    /\ UNCHANGED <<graph, papers, written, shelf>>

ManuscriptInit ==
    /\ papers = <<>> /\ written = <<>>
    /\ shelf = [tex |-> 0, pdf |-> 0, copies |-> <<>>, result |-> NoResult]
    /\ work = Idle

ManuscriptNext ==
    \/ Write \/ WriterFails \/ Audit \/ Build \/ Publish \/ File
    \/ NoteDraft \/ RecordDraft \/ CloseDraft
=============================================================================
