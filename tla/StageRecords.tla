------------------------------ MODULE StageRecords ------------------------------
(*****************************************************************************)
(* The stage records of a run (state.py): the order of the stages, the legal  *)
(* changes of a status, and the pure operations on a run state that resume    *)
(* and the workflow runner are built from. A run state is a record with at    *)
(* least st (the statuses) and rec (the version of the artifact each stage    *)
(* has recorded, 0 for none). Intake always has succeeded and is left out.    *)
(*****************************************************************************)
EXTENDS Naturals, Sequences, SequencesExt

StageOrder ==
    <<"prompt", "research", "audit", "manuscript", "bibliography",
      "feasibility", "alignment", "formalization", "verification", "report">>

Stage     == ToSet(StageOrder)
LeanStage == {"feasibility", "alignment", "formalization", "verification"}

\* LEGAL_STAGE_TRANSITIONS
Legal == [pending     |-> {"running", "skipped"},
          running     |-> {"succeeded", "failed", "interrupted"},
          failed      |-> {"running"},
          interrupted |-> {"running"},
          succeeded   |-> {},
          skipped     |-> {}]

Status    == DOMAIN Legal
Complete  == {"succeeded", "skipped"}
Startable == {status \in Status : "running" \in Legal[status]}

Position(stage) == CHOOSE i \in DOMAIN StageOrder : StageOrder[i] = stage
Downstream(stage) == {x \in Stage : Position(x) >= Position(stage)}

Unfinished(st) == {x \in Stage : st[x] \notin Complete}

\* The first stage that is neither successful nor skipped, or "none".
FirstIncomplete(st) ==
    IF Unfinished(st) = {} THEN "none"
    ELSE CHOOSE x \in Unfinished(st) : \A y \in Unfinished(st) : Position(x) <= Position(y)

With(s, stage, status) == [s EXCEPT !.st[stage] = status]

\* interrupt_running_stages, of prepare_for_resume and of a cancelled workflow
Interrupted(s) ==
    [s EXCEPT !.st = [x \in Stage |-> IF @[x] = "running" THEN "interrupted" ELSE @[x]]]

SkipPending(s, stages) ==
    [s EXCEPT !.st = [x \in Stage |-> IF x \in stages /\ @[x] = "pending" THEN "skipped" ELSE @[x]]]

\* Mutant of InvalidateFrom: the stages downstream keep their checkpoints.
InvalidateOnly(s, stage) ==
    [s EXCEPT !.st[stage] = "pending", !.rec[stage] = 0]

InvalidateFrom(s, stage) ==
    [s EXCEPT !.st = [x \in Stage |-> IF x \in Downstream(stage) THEN "pending" ELSE @[x]],
              !.rec = [x \in Stage |-> IF x \in Downstream(stage) THEN 0 ELSE @[x]]]

Succeeded(s, stage, version) ==
    [s EXCEPT !.st[stage] = "succeeded", !.rec[stage] = version]

\* Mutant of Prepared: a stage left running stays so.
PreparedAsSaved(s) == s

\* A plain resume: composite stages restart whole, and a report of a state that
\* is going to change is withdrawn.
Prepared(s) ==
    LET t == Interrupted(s)
        first == FirstIncomplete(t.st)
    IN IF first = "bibliography"
       THEN [InvalidateFrom(t, "manuscript") EXCEPT !.correct = TRUE]
       ELSE IF first \in LeanStage \ {"feasibility"} THEN InvalidateFrom(t, "feasibility")
       ELSE IF first # "report" /\ t.st["report"] = "succeeded" THEN InvalidateFrom(t, "report")
       ELSE t
=============================================================================
