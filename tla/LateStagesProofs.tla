--------------------------- MODULE LateStagesProofs ---------------------------
(*****************************************************************************)
(* For any number of revision rounds, papers, statements, iterations and      *)
(* commands: what the manuscript stage publishes is as built, what is called  *)
(* verified is proved on disk, and paid statements and recorded proofs are    *)
(* found again.                                                               *)
(*****************************************************************************)
EXTENDS LateStages, FiniteSetTheorems, SequenceTheorems, WellFoundedInduction, TLAPS

(* ---- the stage records ---------------------------------------------------- *)
LEMMA StageFacts ==
    /\ Stage = {"prompt", "research", "audit", "manuscript", "bibliography",
                "feasibility", "alignment", "formalization", "verification", "report"}
    /\ Status = {"pending", "running", "failed", "interrupted", "succeeded", "skipped"}
    /\ DOMAIN StageOrder = 1..10
BY DEF Stage, StageOrder, ToSet, Status, Legal

LEMMA Positions ==
    /\ Position("prompt") = 1 /\ Position("research") = 2 /\ Position("audit") = 3
    /\ Position("manuscript") = 4 /\ Position("bibliography") = 5
    /\ Position("feasibility") = 6 /\ Position("alignment") = 7
    /\ Position("formalization") = 8 /\ Position("verification") = 9 /\ Position("report") = 10
<1>1. ASSUME NEW n \in 1..10 PROVE Position(StageOrder[n]) = n
  <2>1. \A i \in 1..10 : StageOrder[i] = StageOrder[n] => i = n
    BY DEF StageOrder
  <2> QED BY <2>1, StageFacts DEF Position
<1>2. /\ StageOrder[1] = "prompt" /\ StageOrder[2] = "research" /\ StageOrder[3] = "audit"
      /\ StageOrder[4] = "manuscript" /\ StageOrder[5] = "bibliography"
      /\ StageOrder[6] = "feasibility" /\ StageOrder[7] = "alignment"
      /\ StageOrder[8] = "formalization" /\ StageOrder[9] = "verification"
      /\ StageOrder[10] = "report"
  BY DEF StageOrder
<1>3. /\ 1 \in 1..10 /\ 2 \in 1..10 /\ 3 \in 1..10 /\ 4 \in 1..10 /\ 5 \in 1..10
      /\ 6 \in 1..10 /\ 7 \in 1..10 /\ 8 \in 1..10 /\ 9 \in 1..10 /\ 10 \in 1..10
  OBVIOUS
<1> QED BY <1>1, <1>2, <1>3

LEMMA Downstreams ==
    /\ Downstream("manuscript") = {"manuscript", "bibliography", "report"} \cup LeanStage
    /\ Downstream("feasibility") = {"report"} \cup LeanStage
    /\ Downstream("report") = {"report"}
BY StageFacts, Positions DEF Downstream, LeanStage

LEMMA Least ==
    ASSUME NEW S \in SUBSET Nat, S # {}
    PROVE  \E a \in S : \A b \in S : a <= b
<1> DEFINE R == {ss \in Nat \X Nat : ss[1] < ss[2]}
<1>1. IsWellFoundedOn(R, Nat)
  BY NatLessThanWellFounded DEF OpToRel
<1> HIDE DEF R
<1>2. PICK a \in S : \A b \in S : <<b, a>> \notin R
  BY <1>1, WFMin
<1>3. \A b \in S : ~(b < a)
  BY <1>2 DEF R
<1> QED BY <1>3

\* The first stage that is not complete, by its position.
LEMMA FirstIsUnfinished ==
    ASSUME NEW st, FirstIncomplete(st) # "none"
    PROVE  /\ FirstIncomplete(st) \in Unfinished(st)
           /\ \A y \in Unfinished(st) : Position(FirstIncomplete(st)) <= Position(y)
<1> DEFINE U == Unfinished(st)
           first == CHOOSE x \in U : \A y \in U : Position(x) <= Position(y)
           P == {Position(x) : x \in U}
<1>1. U \subseteq Stage /\ U # {}
  BY DEF Unfinished, FirstIncomplete
<1>2. \A x \in Stage : Position(x) \in Nat
  BY StageFacts, Positions
<1>3. P \in SUBSET Nat /\ P # {}
  BY <1>1, <1>2
<1>4. PICK n \in P : \A m \in P : n <= m
  BY <1>3, Least
<1>5. \E x \in U : \A y \in U : Position(x) <= Position(y)
  BY <1>4
<1>6. first \in U /\ \A y \in U : Position(first) <= Position(y)
  BY <1>5
<1>7. FirstIncomplete(st) = first
  BY <1>1 DEF FirstIncomplete
<1> QED BY <1>6, <1>7

\* The stage a command enters: everything before it is complete.
LEMMA FirstIs ==
    ASSUME NEW st
    PROVE  /\ FirstIncomplete(st) = "manuscript" => st["manuscript"] \notin Complete
           /\ FirstIncomplete(st) = "feasibility" =>
                 /\ st["manuscript"] \in Complete /\ st["bibliography"] \in Complete
                 /\ st["feasibility"] \notin Complete
<1>1. \A x \in Stage : x \notin Unfinished(st) => st[x] \in Complete
  BY DEF Unfinished
<1>2. ASSUME FirstIncomplete(st) = "feasibility"
      PROVE  "manuscript" \notin Unfinished(st) /\ "bibliography" \notin Unfinished(st)
  BY <1>2, FirstIsUnfinished, Positions
<1> QED BY <1>1, <1>2, FirstIsUnfinished, StageFacts DEF Unfinished

RunType == [st : [Stage -> Status], rec : [Stage -> Nat], correct : BOOLEAN,
            generation : Nat, formal : BOOLEAN]

LEMMA WithIs ==
    ASSUME NEW s \in RunType, NEW x \in Stage, NEW v \in Status
    PROVE  /\ With(s, x, v) \in RunType
           /\ With(s, x, v).st = [s.st EXCEPT ![x] = v]
           /\ With(s, x, v).rec = s.rec /\ With(s, x, v).generation = s.generation
           /\ With(s, x, v).formal = s.formal /\ With(s, x, v).correct = s.correct
BY DEF With, RunType

LEMMA SucceededIs ==
    ASSUME NEW s \in RunType, NEW x \in Stage, NEW n \in Nat
    PROVE  /\ Succeeded(s, x, n) \in RunType
           /\ Succeeded(s, x, n).st = [s.st EXCEPT ![x] = "succeeded"]
           /\ Succeeded(s, x, n).rec = [s.rec EXCEPT ![x] = n]
           /\ Succeeded(s, x, n).generation = s.generation
           /\ Succeeded(s, x, n).formal = s.formal /\ Succeeded(s, x, n).correct = s.correct
<1>1. "succeeded" \in Status
  BY StageFacts
<1> QED BY <1>1 DEF Succeeded, RunType

LEMMA SkipPendingIs ==
    ASSUME NEW s \in RunType, NEW stages
    PROVE  /\ SkipPending(s, stages) \in RunType
           /\ \A x \in Stage : SkipPending(s, stages).st[x] =
                 IF x \in stages /\ s.st[x] = "pending" THEN "skipped" ELSE s.st[x]
           /\ SkipPending(s, stages).rec = s.rec /\ SkipPending(s, stages).generation = s.generation
           /\ SkipPending(s, stages).formal = s.formal
<1>1. "skipped" \in Status
  BY StageFacts
<1> QED BY <1>1 DEF SkipPending, RunType

LEMMA InterruptedIs ==
    ASSUME NEW s \in RunType
    PROVE  /\ Interrupted(s) \in RunType
           /\ \A x \in Stage : Interrupted(s).st[x] = IF s.st[x] = "running" THEN "interrupted" ELSE s.st[x]
           /\ Interrupted(s).rec = s.rec /\ Interrupted(s).generation = s.generation
           /\ Interrupted(s).formal = s.formal
<1>1. "interrupted" \in Status
  BY StageFacts
<1> QED BY <1>1 DEF Interrupted, RunType

LEMMA InvalidateIs ==
    ASSUME NEW s \in RunType, NEW stage
    PROVE  /\ InvalidateFrom(s, stage) \in RunType
           /\ \A x \in Stage : InvalidateFrom(s, stage).st[x] =
                 IF x \in Downstream(stage) THEN "pending" ELSE s.st[x]
           /\ \A x \in Stage : InvalidateFrom(s, stage).rec[x] =
                 IF x \in Downstream(stage) THEN 0 ELSE s.rec[x]
           /\ InvalidateFrom(s, stage).generation = s.generation
           /\ InvalidateFrom(s, stage).formal = s.formal
<1>1. "pending" \in Status
  BY StageFacts
<1> QED BY <1>1 DEF InvalidateFrom, RunType

\* The stages this part of a run consists of succeed in order, and only the Lean
\* stages are ever skipped.
InOrder(st) ==
    /\ st["verification"] = "succeeded" => st["feasibility"] = "succeeded"
    /\ st["feasibility"] = "succeeded" => st["bibliography"] = "succeeded"
    /\ st["bibliography"] = "succeeded" => st["manuscript"] = "succeeded"
    /\ st["manuscript"] # "skipped" /\ st["bibliography"] # "skipped"

\* What a command makes of the run before it enters a stage: nothing new has
\* succeeded, and without a forced stage the bibliography still has.
Entry(s) ==
    /\ s \in RunType /\ s.formal = run.formal /\ s.generation >= run.generation
    /\ \A x \in Stage : s.st[x] = "succeeded" => run.st[x] = "succeeded" /\ s.rec[x] = run.rec[x]
    /\ InOrder(s.st)
    /\ s.generation = run.generation /\ run.st["bibliography"] = "succeeded"
          => s.st["bibliography"] = "succeeded"

LEMMA PreparedEntry == run \in RunType /\ InOrder(run.st) => Entry(Prepared(run))
<1> SUFFICES ASSUME run \in RunType, InOrder(run.st) PROVE Entry(Prepared(run))
  OBVIOUS
<1> DEFINE t == Interrupted(run)
           first == FirstIncomplete(t.st)
<1>1. /\ t \in RunType
      /\ \A x \in Stage : t.st[x] = IF run.st[x] = "running" THEN "interrupted" ELSE run.st[x]
      /\ t.rec = run.rec /\ t.generation = run.generation /\ t.formal = run.formal
  BY InterruptedIs
<1> HIDE DEF t
<1>2. /\ {"manuscript", "bibliography", "feasibility", "verification", "report"} \subseteq Stage
      /\ run.generation \in Nat
  BY StageFacts DEF RunType
<1>3. InOrder(t.st)
  BY <1>1, <1>2 DEF InOrder
<1>4. ASSUME NEW u, u \in RunType, u.formal = t.formal, u.generation = t.generation,
             \A x \in Stage : u.st[x] = "succeeded" => t.st[x] = "succeeded" /\ u.rec[x] = t.rec[x],
             InOrder(u.st), t.st["bibliography"] = "succeeded" => u.st["bibliography"] = "succeeded"
      PROVE  Entry(u)
  BY <1>1, <1>2, <1>4 DEF Entry
<1>5. CASE first = "bibliography"
  <2> DEFINE v == InvalidateFrom(t, "manuscript")
             u == [v EXCEPT !.correct = TRUE]
  <2>1. Prepared(run) = u
    BY <1>5 DEF Prepared, t
  <2>2. /\ v \in RunType
        /\ \A x \in Stage : v.st[x] = IF x \in Downstream("manuscript") THEN "pending" ELSE t.st[x]
        /\ \A x \in Stage : v.rec[x] = IF x \in Downstream("manuscript") THEN 0 ELSE t.rec[x]
        /\ v.generation = t.generation /\ v.formal = t.formal
    BY <1>1, InvalidateIs
  <2> HIDE DEF v
  <2>3. u \in RunType /\ u.st = v.st /\ u.rec = v.rec /\ u.generation = v.generation /\ u.formal = v.formal
    BY <2>2 DEF RunType
  <2>4. t.st["bibliography"] # "succeeded"
    <3>1. first # "none" /\ first \in Unfinished(t.st)
      BY <1>5, FirstIsUnfinished
    <3> QED BY <1>5, <3>1 DEF Unfinished, Complete
  <2>5. InOrder(v.st)
    BY <1>2, <2>2, Downstreams DEF InOrder, LeanStage
  <2> HIDE DEF u
  <2> QED BY <1>4, <2>1, <2>2, <2>3, <2>4, <2>5
<1>6. ASSUME NEW x \in {"feasibility", "report"} PROVE Entry(InvalidateFrom(t, x))
  <2> DEFINE v == InvalidateFrom(t, x)
  <2>2. /\ v \in RunType
        /\ \A y \in Stage : v.st[y] = IF y \in Downstream(x) THEN "pending" ELSE t.st[y]
        /\ \A y \in Stage : v.rec[y] = IF y \in Downstream(x) THEN 0 ELSE t.rec[y]
        /\ v.generation = t.generation /\ v.formal = t.formal
    BY <1>1, InvalidateIs
  <2> HIDE DEF v
  <2>3. Downstream(x) \subseteq {"report"} \cup LeanStage /\ (x = "feasibility" => LeanStage \subseteq Downstream(x))
        /\ (x = "report" => Downstream(x) = {"report"})
    BY Downstreams
  <2>4. InOrder(v.st) /\ (t.st["bibliography"] = "succeeded" => v.st["bibliography"] = "succeeded")
    BY <1>2, <1>3, <2>2, <2>3 DEF InOrder, LeanStage
  <2> QED BY <1>4, <2>2, <2>4 DEF v
<1>7. Entry(t)
  BY <1>1, <1>3, <1>4
<1>8. \/ Prepared(run) = InvalidateFrom(t, "feasibility") \/ Prepared(run) = InvalidateFrom(t, "report")
      \/ Prepared(run) = t \/ first = "bibliography"
  BY DEF Prepared, t
<1> QED BY <1>5, <1>6, <1>7, <1>8

LEMMA ForcedEntry ==
    ASSUME run \in RunType, InOrder(run.st), NEW stage \in Forceable
    PROVE  Entry(Forced(stage)) /\ Forced(stage).generation > run.generation
<1> DEFINE t == [run EXCEPT !.generation = @ + 1,
                            !.correct = \/ @
                                          \/ /\ stage = "bibliography" /\ Correctable
                                             /\ shelf.result.plan.gate # "clean"]
           b == Boundary(stage)
           v == InvalidateFrom(t, b)
<1>1. /\ t \in RunType /\ t.st = run.st /\ t.rec = run.rec /\ t.generation = run.generation + 1
      /\ t.formal = run.formal
  <2> DEFINE c == \/ run.correct
                  \/ /\ stage = "bibliography" /\ Correctable
                     /\ shelf.result.plan.gate # "clean"
  <2>1. t = [run EXCEPT !.generation = run.generation + 1, !.correct = c]
    OBVIOUS
  <2>2. c \in BOOLEAN
    BY DEF RunType
  <2> HIDE DEF c
  <2>3. PICK d \in BOOLEAN : d = c
    BY <2>2
  <2>4. t = [run EXCEPT !.generation = run.generation + 1, !.correct = d]
    BY <2>1, <2>3
  <2> HIDE DEF t
  <2>5. run = [st |-> run.st, rec |-> run.rec, correct |-> run.correct,
               generation |-> run.generation, formal |-> run.formal]
    BY DEF RunType
  <2>6. t = [st |-> run.st, rec |-> run.rec, correct |-> d,
             generation |-> run.generation + 1, formal |-> run.formal]
    BY <2>4, <2>5
  <2> QED BY <2>6 DEF RunType
<1> HIDE DEF t
<1>2. Forced(stage) = v
  BY DEF Forced, t
<1>3. b \in {"manuscript", "feasibility"}
  BY LateAssumption DEF Boundary
<1>4. /\ v \in RunType
      /\ \A y \in Stage : v.st[y] = IF y \in Downstream(b) THEN "pending" ELSE t.st[y]
      /\ \A y \in Stage : v.rec[y] = IF y \in Downstream(b) THEN 0 ELSE t.rec[y]
      /\ v.generation = t.generation /\ v.formal = t.formal
  BY <1>1, InvalidateIs
<1> HIDE DEF b, v
<1>5. /\ {"manuscript", "bibliography", "feasibility", "verification", "report"} \subseteq Stage
      /\ run.generation \in Nat
  BY StageFacts DEF RunType
<1>6. InOrder(v.st)
  BY <1>1, <1>3, <1>4, <1>5, Downstreams DEF InOrder, LeanStage
<1>7. v.generation > run.generation /\ v.generation >= run.generation /\ v.generation # run.generation
  BY <1>1, <1>4, <1>5
<1>8. \A x \in Stage : v.st[x] = "succeeded" => run.st[x] = "succeeded" /\ v.rec[x] = run.rec[x]
  BY <1>1, <1>4
<1> QED BY <1>1, <1>2, <1>4, <1>6, <1>7, <1>8 DEF Entry

(* ---- the best draft -------------------------------------------------------- *)
Gates      == {"clean", "disputed", "unavailable", "fabricated"}
PlanType   == [gate : Gates, build : Builds, broken : BOOLEAN]
ResultType == [paper : Nat, cycle : Nat, plan : PlanType, hard : {"none", "integrity", "latex"}]
DraftType  == [cycle : Nat, paper : Nat \ {0}, gate : Gates, build : Builds]

\* An element whose measure is smallest.
LEMMA LeastBy ==
    ASSUME NEW D, D # {}, NEW f, \A d \in D : f[d] \in Nat
    PROVE  \E a \in D : \A b \in D : f[a] <= f[b]
<1> DEFINE P == {f[d] : d \in D}
<1>1. P \in SUBSET Nat /\ P # {}
  OBVIOUS
<1>2. PICK n \in P : \A m \in P : n <= m
  BY <1>1, Least
<1> QED BY <1>2

LEMMA TwoCounted ==
    ASSUME NEW a \in BOOLEAN, NEW b \in BOOLEAN
    PROVE  Count(<<a, b>>) \in Nat /\ (Count(<<a, b>>) = 0 <=> ~a /\ ~b)
<1> DEFINE S == {i \in DOMAIN <<a, b>> : <<a, b>>[i]}
<1>1. 1 \in Int /\ 2 \in Int => IsFiniteSet(1..2)
  BY FS_Interval
<1>2. DOMAIN <<a, b>> = 1..2 /\ <<a, b>>[1] = a /\ <<a, b>>[2] = b
  OBVIOUS
<1>3. S \subseteq 1..2
  BY <1>2
<1>4. IsFiniteSet(S)
  BY <1>1, <1>3, FS_Subset
<1>5. Cardinality(S) \in Nat /\ (Cardinality(S) = 0 <=> S = {})
  BY <1>4, FS_CardinalityType, FS_EmptySet
<1>6. 1 \in S <=> a
  BY <1>2
<1>7. 2 \in S <=> b
  BY <1>2
<1>8. S = {} <=> ~a /\ ~b
  <2>1. S = {} => ~a /\ ~b
    BY <1>6, <1>7
  <2>2. ASSUME NEW x \in S PROVE a \/ b
    <3>1. x = 1 \/ x = 2
      BY <1>3
    <3> QED BY <1>6, <1>7, <3>1
  <2> QED BY <2>1, <2>2
<1> QED BY <1>5, <1>8 DEF Count

LEMMA ThreeCounted ==
    ASSUME NEW a \in BOOLEAN, NEW b \in BOOLEAN, NEW c \in BOOLEAN
    PROVE  Count(<<a, b, c>>) \in Nat
<1> DEFINE S == {i \in DOMAIN <<a, b, c>> : <<a, b, c>>[i]}
<1>1. 1 \in Int /\ 3 \in Int => IsFiniteSet(1..3)
  BY FS_Interval
<1>2. S \subseteq 1..3
  OBVIOUS
<1>3. Cardinality(S) \in Nat
  BY <1>1, <1>2, FS_Subset, FS_CardinalityType
<1> QED BY <1>3 DEF Count

\* The parts of a score; the first counts the terminating findings.
LEMMA ScoreIs ==
    ASSUME NEW d \in DraftType
    PROVE  \E a, b, c, e \in Nat :
               /\ Score(d) = <<a, b, c, e, -d.cycle>>
               /\ a = 0 <=> ~Hard(d)
<1> DEFINE u == papers[d.paper] = "unsafe"
           v == d.gate = "fabricated"
           hard == Count(<<u, v>>)
           gate == IF d.gate = "clean" THEN 0 ELSE 1
           p == papers[d.paper] = "rough"
           q == d.gate \in {"disputed", "unavailable"}
           r == d.build \in {"marred", "failed"}
           repairs == Count(<<p, q, r>>)
<1>1. hard \in Nat /\ (hard = 0 <=> ~u /\ ~v)
  BY TwoCounted
<1>2. repairs \in Nat
  <2>1. p \in BOOLEAN /\ q \in BOOLEAN /\ r \in BOOLEAN
    OBVIOUS
  <2> HIDE DEF p, q, r
  <2> QED BY <2>1, ThreeCounted
<1>3. Score(d) = <<hard, repairs + gate, IF d.build = "passed" THEN 0 ELSE 1, hard + repairs, -d.cycle>>
  BY DEF Score
<1>4. Hard(d) <=> u \/ v
  BY DEF Hard
<1> HIDE DEF hard, repairs
<1>5. /\ repairs + gate \in Nat /\ (IF d.build = "passed" THEN 0 ELSE 1) \in Nat
      /\ hard + repairs \in Nat
  BY <1>1, <1>2
<1>6. hard = 0 <=> ~Hard(d)
  BY <1>1, <1>4
<1> QED BY <1>1, <1>3, <1>5, <1>6

\* One draft of an attempt is the best: no two are of the same round. It has no
\* terminating finding if any of them has none.
LEMMA BestIs ==
    ASSUME work.drafts \in Seq(DraftType), work.drafts # <<>>, work.cycle \in Nat,
           \A i \in DOMAIN work.drafts : work.drafts[i].cycle <= work.cycle,
           \A i, j \in DOMAIN work.drafts :
               work.drafts[i].cycle = work.drafts[j].cycle => i = j
    PROVE  /\ Best \in DraftType /\ \E i \in DOMAIN work.drafts : Best = work.drafts[i]
           /\ Hard(Best) => \A i \in DOMAIN work.drafts : Hard(work.drafts[i])
<1> DEFINE D == ToSet(work.drafts)
           f == [k \in 1..4 |-> [d \in D |-> Score(d)[k]]]
           g == [d \in D |-> work.cycle - d.cycle]
<1>1. D = {work.drafts[i] : i \in DOMAIN work.drafts} /\ DOMAIN work.drafts = 1..Len(work.drafts)
  BY DEF ToSet
<1>2. D \subseteq DraftType /\ D # {}
  <2>1. Len(work.drafts) \in Nat \ {0} /\ 1 \in 1..Len(work.drafts)
    OBVIOUS
  <2>2. \A i \in 1..Len(work.drafts) : work.drafts[i] \in DraftType
    OBVIOUS
  <2>3. \A d \in D : \E i \in 1..Len(work.drafts) : d = work.drafts[i]
    BY <1>1
  <2>4. work.drafts[1] \in D
    BY <1>1, <2>1
  <2> HIDE DEF D
  <2> QED BY <2>2, <2>3, <2>4
<1>3. \A d, e \in D : d # e => d.cycle # e.cycle
  BY <1>1
<1>4. \A d \in D : d.cycle \in Nat /\ g[d] \in Nat /\ g[d] = work.cycle - d.cycle
  <2> SUFFICES ASSUME NEW d \in D
               PROVE  d.cycle \in Nat /\ g[d] \in Nat /\ g[d] = work.cycle - d.cycle
    OBVIOUS
  <2>1. g[d] = work.cycle - d.cycle
    OBVIOUS
  <2>2. d \in DraftType
    BY <1>2
  <2> HIDE DEF D, g
  <2>3. d.cycle \in Nat /\ d.cycle <= work.cycle
    BY <1>1, <2>2 DEF DraftType
  <2> QED BY <2>1, <2>3
<1>5. \A d \in D : /\ Score(d) = <<f[1][d], f[2][d], f[3][d], f[4][d], -d.cycle>>
                   /\ f[1][d] \in Nat /\ f[2][d] \in Nat /\ f[3][d] \in Nat /\ f[4][d] \in Nat
                   /\ f[1][d] = 0 <=> ~Hard(d)
  <2> SUFFICES ASSUME NEW d \in D
               PROVE  /\ Score(d) = <<f[1][d], f[2][d], f[3][d], f[4][d], -d.cycle>>
                      /\ f[1][d] \in Nat /\ f[2][d] \in Nat /\ f[3][d] \in Nat /\ f[4][d] \in Nat
                      /\ f[1][d] = 0 <=> ~Hard(d)
    OBVIOUS
  <2>1. d \in DraftType
    BY <1>2
  <2>2. PICK a, b, c, e \in Nat : Score(d) = <<a, b, c, e, -d.cycle>> /\ (a = 0 <=> ~Hard(d))
    BY <2>1, ScoreIs
  <2>3. f[1][d] = Score(d)[1] /\ f[2][d] = Score(d)[2] /\ f[3][d] = Score(d)[3] /\ f[4][d] = Score(d)[4]
    OBVIOUS
  <2> HIDE DEF f
  <2> QED BY <2>2, <2>3
<1> HIDE DEF D, f, g
<1>6. PICK a1 \in D : \A d \in D : f[1][a1] <= f[1][d]
  <2> DEFINE h == f[1]
  <2>1. \A d \in D : h[d] \in Nat
    BY <1>5
  <2> HIDE DEF h
  <2>2. \E a \in D : \A b \in D : h[a] <= h[b]
    BY <1>2, <2>1, LeastBy
  <2> QED BY <2>2 DEF h
<1> DEFINE D1 == {d \in D : f[1][d] = f[1][a1]}
<1>7. PICK a2 \in D1 : \A d \in D1 : f[2][a2] <= f[2][d]
  <2> DEFINE h == f[2]
  <2>1. \A d \in D1 : h[d] \in Nat
    BY <1>5
  <2>2. D1 # {}
    BY <1>6
  <2> HIDE DEF h, D1
  <2>3. \E a \in D1 : \A b \in D1 : h[a] <= h[b]
    BY <2>2, <2>1, LeastBy
  <2> QED BY <2>3 DEF h
<1> DEFINE D2 == {d \in D1 : f[2][d] = f[2][a2]}
<1>8. PICK a3 \in D2 : \A d \in D2 : f[3][a3] <= f[3][d]
  <2> DEFINE h == f[3]
  <2>1. \A d \in D2 : h[d] \in Nat
    BY <1>5
  <2>2. D2 # {}
    BY <1>7
  <2> HIDE DEF h, D2
  <2>3. \E a \in D2 : \A b \in D2 : h[a] <= h[b]
    BY <2>2, <2>1, LeastBy
  <2> QED BY <2>3 DEF h
<1> DEFINE D3 == {d \in D2 : f[3][d] = f[3][a3]}
<1>9. PICK a4 \in D3 : \A d \in D3 : f[4][a4] <= f[4][d]
  <2> DEFINE h == f[4]
  <2>1. \A d \in D3 : h[d] \in Nat
    BY <1>5
  <2>2. D3 # {}
    BY <1>8
  <2> HIDE DEF h, D3
  <2>3. \E a \in D3 : \A b \in D3 : h[a] <= h[b]
    BY <2>2, <2>1, LeastBy
  <2> QED BY <2>3 DEF h
<1> DEFINE D4 == {d \in D3 : f[4][d] = f[4][a4]}
<1>10. PICK best \in D4 : \A d \in D4 : g[best] <= g[d]
  <2>1. \A d \in D4 : g[d] \in Nat
    BY <1>4
  <2>2. D4 # {}
    BY <1>9
  <2> HIDE DEF D4
  <2> QED BY <2>2, <2>1, LeastBy
<1>11. ASSUME NEW s, NEW t, NEW i \in 1..5, DOMAIN s = 1..5,
              s[i] < t[i], \A j \in 1..(i - 1) : s[j] = t[j]
       PROVE  Precedes(s, t)
  BY <1>11 DEF Precedes
<1>12. ASSUME NEW d \in D, d # best PROVE Precedes(Score(best), Score(d))
  <2>1. /\ Score(d) = <<f[1][d], f[2][d], f[3][d], f[4][d], -d.cycle>>
        /\ Score(best) = <<f[1][best], f[2][best], f[3][best], f[4][best], -best.cycle>>
        /\ best \in D
    BY <1>5
  <2>2. DOMAIN Score(best) = 1..5
    BY <2>1
  <2>3. CASE f[1][d] # f[1][best]
    <3>1. f[1][best] < f[1][d]
      BY <1>5, <1>6, <2>1, <2>3
    <3>2. Score(best)[1] < Score(d)[1]
      BY <2>1, <3>1
    <3> QED BY <1>11, <2>2, <3>2
  <2>4. CASE f[1][d] = f[1][best] /\ f[2][d] # f[2][best]
    <3>1. d \in D1 /\ f[2][best] < f[2][d]
      BY <1>5, <1>7, <2>1, <2>4
    <3>2. Score(best)[2] < Score(d)[2] /\ Score(best)[1] = Score(d)[1]
      BY <2>1, <2>4, <3>1
    <3> QED BY <1>11, <2>2, <3>2
  <2>5. CASE f[1][d] = f[1][best] /\ f[2][d] = f[2][best] /\ f[3][d] # f[3][best]
    <3>1. d \in D2 /\ f[3][best] < f[3][d]
      BY <1>5, <1>8, <2>1, <2>5
    <3>2. /\ Score(best)[3] < Score(d)[3] /\ Score(best)[1] = Score(d)[1]
          /\ Score(best)[2] = Score(d)[2]
      BY <2>1, <2>5, <3>1
    <3> QED BY <1>11, <2>2, <3>2
  <2>6. CASE /\ f[1][d] = f[1][best] /\ f[2][d] = f[2][best] /\ f[3][d] = f[3][best]
             /\ f[4][d] # f[4][best]
    <3>1. d \in D3 /\ f[4][best] < f[4][d]
      BY <1>5, <1>9, <2>1, <2>6
    <3>2. /\ Score(best)[4] < Score(d)[4] /\ Score(best)[1] = Score(d)[1]
          /\ Score(best)[2] = Score(d)[2] /\ Score(best)[3] = Score(d)[3]
      BY <2>1, <2>6, <3>1
    <3> QED BY <1>11, <2>2, <3>2
  <2>7. CASE /\ f[1][d] = f[1][best] /\ f[2][d] = f[2][best] /\ f[3][d] = f[3][best]
             /\ f[4][d] = f[4][best]
    <3>1. d \in D4
      BY <2>1, <2>7
    <3>2. g[best] <= g[d] /\ d.cycle # best.cycle
      BY <1>3, <1>10, <1>12, <2>1, <3>1
    <3>3. -best.cycle < -d.cycle
      BY <1>4, <2>1, <3>2
    <3>4. /\ Score(best)[5] < Score(d)[5] /\ Score(best)[1] = Score(d)[1]
          /\ Score(best)[2] = Score(d)[2] /\ Score(best)[3] = Score(d)[3]
          /\ Score(best)[4] = Score(d)[4]
      BY <2>1, <2>7, <3>3
    <3> QED BY <1>11, <2>2, <3>4
  <2> QED BY <2>3, <2>4, <2>5, <2>6, <2>7
<1>13. Best \in D /\ \A other \in D \ {Best} : Precedes(Score(Best), Score(other))
  <2>1. \E d \in D : \A other \in D \ {d} : Precedes(Score(d), Score(other))
    BY <1>12
  <2> QED BY <2>1 DEF Best, D
<1>14. ASSUME NEW d \in D, Hard(Best) PROVE Hard(d)
  <2>1. CASE d = Best
    BY <1>14, <2>1
  <2>2. CASE d # Best
    <3>1. PICK i \in DOMAIN Score(Best) :
              /\ Score(Best)[i] < Score(d)[i]
              /\ \A j \in 1..(i - 1) : Score(Best)[j] = Score(d)[j]
      BY <1>13, <2>2 DEF Precedes
    <3>2. /\ Score(d) = <<f[1][d], f[2][d], f[3][d], f[4][d], -d.cycle>>
          /\ Score(Best) = <<f[1][Best], f[2][Best], f[3][Best], f[4][Best], -Best.cycle>>
          /\ f[1][d] \in Nat /\ f[1][Best] \in Nat
      BY <1>5, <1>13
    <3>3. i \in 1..5 /\ Score(Best)[1] = f[1][Best] /\ Score(d)[1] = f[1][d]
      BY <3>1, <3>2
    <3>4. f[1][Best] <= f[1][d]
      <4>1. CASE i = 1
        BY <3>1, <3>2, <3>3, <4>1
      <4>2. CASE i # 1
        BY <3>1, <3>2, <3>3, <4>2
      <4> QED BY <4>1, <4>2
    <3>5. f[1][Best] # 0
      BY <1>5, <1>13, <1>14
    <3> QED BY <1>5, <3>2, <3>4, <3>5
  <2> QED BY <2>1, <2>2
<1>15. \A i \in DOMAIN work.drafts : work.drafts[i] \in D
  BY <1>1
<1> QED BY <1>1, <1>2, <1>13, <1>14, <1>15

(* ---- types ----------------------------------------------------------------- *)
Copies    == UNION {[S -> Nat] : S \in SUBSET Nat}
ShelfType == [tex : Nat, pdf : Nat, copies : Copies, result : ResultType]
WorkType  == [cycle : Nat, limit : Nat, after : Nat, plan : PlanType, revision : Nat,
              paper : Nat, gate : Gates, drafts : Seq(DraftType), broken : BOOLEAN]

RunOK == run \in RunType /\ IsFiniteSet(graph)

\* A round is under way.
Round == {"writing", "auditing", "building"}

\* The drafts of an attempt are of different rounds, and of none still to come.
DraftsOK ==
    /\ \A i \in DOMAIN work.drafts : work.drafts[i].cycle <= work.cycle
    /\ pc \in Round => \A i \in DOMAIN work.drafts : work.drafts[i].cycle < work.cycle
    /\ \A i, j \in DOMAIN work.drafts : work.drafts[i].cycle = work.drafts[j].cycle => i = j

ManuscriptOK ==
    /\ papers \in Seq(Fault)
    /\ \A q \in DOMAIN written : written[q] \in Nat \ {0}
    /\ shelf \in ShelfType /\ work \in WorkType
    /\ pc \in {"auditing", "building"} => work.paper # 0
    /\ pc \in {"selecting", "filing"} => work.drafts # <<>>
    /\ DraftsOK

LEMMA CopiesIs ==
    ASSUME NEW f \in Copies, NEW k \in Nat, NEW v \in Nat
    PROVE  WithKey(f, k, v) \in Copies
<1>1. PICK S \in SUBSET Nat : f \in [S -> Nat]
  BY DEF Copies
<1>2. WithKey(f, k, v) \in [S \cup {k} -> Nat]
  BY <1>1 DEF WithKey
<1>3. S \cup {k} \in SUBSET Nat
  OBVIOUS
<1> QED BY <1>2, <1>3 DEF Copies

LEMMA BestHere ==
    ManuscriptOK /\ work.drafts # <<>> =>
        /\ Best \in DraftType /\ \E i \in DOMAIN work.drafts : Best = work.drafts[i]
        /\ Hard(Best) => \A i \in DOMAIN work.drafts : Hard(work.drafts[i])
<1> SUFFICES ASSUME ManuscriptOK, work.drafts # <<>>
             PROVE  /\ Best \in DraftType /\ \E i \in DOMAIN work.drafts : Best = work.drafts[i]
                    /\ Hard(Best) => \A i \in DOMAIN work.drafts : Hard(work.drafts[i])
  OBVIOUS
<1>1. /\ work.drafts \in Seq(DraftType) /\ work.cycle \in Nat
      /\ \A i \in DOMAIN work.drafts : work.drafts[i].cycle <= work.cycle
      /\ \A i, j \in DOMAIN work.drafts : work.drafts[i].cycle = work.drafts[j].cycle => i = j
  BY DEF ManuscriptOK, DraftsOK, WorkType
<1> QED BY <1>1, BestIs

LEMMA SelectedIs ==
    ManuscriptOK /\ work.drafts # <<>> =>
        /\ Selected \in ShelfType /\ Selected.tex = Best.paper
        /\ Selected.copies = shelf.copies /\ Selected.result = shelf.result
        /\ Best.cycle \in DOMAIN shelf.copies => Selected.pdf = shelf.copies[Best.cycle]
<1> SUFFICES ASSUME ManuscriptOK, work.drafts # <<>>
             PROVE  /\ Selected \in ShelfType /\ Selected.tex = Best.paper
                    /\ Selected.copies = shelf.copies /\ Selected.result = shelf.result
                    /\ Best.cycle \in DOMAIN shelf.copies => Selected.pdf = shelf.copies[Best.cycle]
  OBVIOUS
<1>1. Best \in DraftType
  BY BestHere
<1>2. shelf \in ShelfType /\ Best.paper \in Nat
  BY <1>1 DEF ManuscriptOK, DraftType
<1>3. Best.cycle \in DOMAIN shelf.copies => shelf.copies[Best.cycle] \in Nat
  <2>1. shelf.copies \in Copies
    BY <1>2 DEF ShelfType
  <2>2. PICK S \in SUBSET Nat : shelf.copies \in [S -> Nat]
    BY <2>1 DEF Copies
  <2> QED BY <2>2
<1>4. PICK n \in Nat : n = IF Best.cycle \in DOMAIN shelf.copies THEN shelf.copies[Best.cycle] ELSE 0
  BY <1>3
<1>5. Selected = [shelf EXCEPT !.tex = Best.paper, !.pdf = n]
  BY <1>4 DEF Selected
<1> QED BY <1>2, <1>4, <1>5 DEF ShelfType

\* An attempt of the stage starts with no draft.
LEMMA AttemptIs ==
    ASSUME RunOK, ManuscriptOK, NEW s \in RunType
    PROVE  Attempt(s) \in WorkType /\ Attempt(s).drafts = <<>>
<1>1. IsFiniteSet(graph) => Revision \in Nat
  BY FS_CardinalityType DEF Revision
<1>2. Larger(1, Rounds) \in Nat
  BY ManuscriptAssumption DEF Larger
<1>3. Idle \in WorkType /\ Idle.drafts = <<>>
  BY DEF Idle, WorkType, NoPlan, PlanType, Gates, Builds
<1>4. /\ shelf.result.cycle \in Nat /\ shelf.result.paper \in Nat
      /\ shelf.result.plan \in PlanType
  BY DEF ManuscriptOK, ShelfType, ResultType
<1>5. CASE s.correct
  <2> DEFINE n == shelf.result.cycle + 1
             m == shelf.result.cycle + Larger(1, Rounds)
  <2>1. n \in Nat /\ m \in Nat
    BY <1>2, <1>4
  <2>2. Attempt(s) = [Idle EXCEPT !.cycle = n, !.limit = m, !.after = shelf.result.paper,
                                  !.plan = shelf.result.plan, !.revision = Revision]
    BY <1>5 DEF Attempt
  <2> HIDE DEF n, m
  <2> QED BY <1>1, <1>3, <1>4, <2>1, <2>2 DEF WorkType, RunOK
<1>6. CASE ~s.correct
  BY <1>1, <1>3, <1>6, ManuscriptAssumption DEF Attempt, WorkType, RunOK
<1> QED BY <1>5, <1>6

Words        == Statements \cup {"none", "changed"}
QuestionType == [paper : Nat, revision : Nat, generation : Nat]
AnswerType   == [class : Classes, statement : Words]
TreeType     == [statement : Words, text : Texts, scratch : BOOLEAN]
RecordType   == [statement : Words, passed : BOOLEAN, progress : BOOLEAN, tree : TreeType,
                 made : QuestionType]
Outcomes     == {"infeasible", "misaligned", "statement_only", "unproved", "unverified", "verified"}
LeanType     == [outcome : Outcomes \cup {"none"}, statement : Words, paper : Nat]
TaskType     == [question : QuestionType, answer : AnswerType, limit : Nat, at : Nat \ {0},
                 idle : Nat, progress : BOOLEAN, again : BOOLEAN, passed : BOOLEAN,
                 refused : BOOLEAN]

LeanOK ==
    /\ tree \in TreeType /\ records \in Seq(RecordType) /\ lean \in LeanType
    /\ stated \in [question : QuestionType, answer : AnswerType]
    /\ task \in TaskType

Drafting == Round \cup {"selecting", "filing", "noting", "recording draft"}
Proving  == {"stating", "placing", "reading", "coding", "checking", "asking axioms", "judged"}
Leaning  == Proving \cup {"noting lean", "recording lean"}

\* Where the process is agrees with the stage records.
Places ==
    /\ InOrder(run.st)
    /\ pc \in Drafting => run.st["manuscript"] = "running"
    /\ pc = "closing" => Done("manuscript") /\ run.st["bibliography"] = "running"
    /\ pc \in Leaning \cup {"formalizing", "settling"} => Done("bibliography")
    /\ pc \in Leaning => run.st["feasibility"] = "running"
    /\ pc = "formalizing" => ~Done("feasibility")
    /\ pc = "settling" => Done("feasibility")
    /\ pc \in {"noting lean", "recording lean", "settling"} => lean.outcome # "none"
    /\ Done("verification") => pc \in {"reporting", "off"}
    /\ Done("manuscript") => run.rec["manuscript"] = shelf.result.paper

TypesAndPlaces == RunOK /\ ManuscriptOK /\ LeanOK /\ Places

\* The steps of the Lean stage and of the runner that leave the manuscript alone.
Elsewhere ==
    \/ LeanNext /\ UNCHANGED <<manuscriptVars, commands, upsets>>
    \/ GoOn \/ StageFails \/ Raise

LEMMA ElsewhereIs ==
    Elsewhere => /\ UNCHANGED manuscriptVars
                 /\ pc' \in Leaning \cup {"settling", "reporting", "raising"}
<1>1. ASSUME LeanNext
      PROVE  pc' \in Leaning \cup {"settling", "reporting", "raising"}
  <2>1. CASE State
    BY <2>1 DEF State, Leaning, Proving
  <2>2. CASE Place
    BY <2>2 DEF Place, Concluded, Leaning, Proving
  <2>3. CASE Read
    BY <2>3 DEF Read, Concluded, Leaning, Proving
  <2>4. CASE AskCodex
    BY <2>4 DEF AskCodex, Leaning, Proving
  <2>5. CASE Codex
    BY <2>5 DEF Codex, Leaning, Proving
  <2>6. CASE CheckBuild
    BY <2>6 DEF CheckBuild, Leaning, Proving
  <2>7. CASE CheckAxioms
    BY <2>7 DEF CheckAxioms, Leaning, Proving
  <2>8. CASE RecordIteration
    BY <2>8 DEF RecordIteration, Concluded, Leaning, Proving
  <2>9. CASE Exhausted
    BY <2>9 DEF Exhausted, Concluded, Leaning, Proving
  <2>10. CASE NoteLean \/ RecordLean \/ SettleLean
    BY <2>10 DEF NoteLean, RecordLean, SettleLean, Leaning, Proving
  <2> QED BY <1>1, <2>1, <2>2, <2>3, <2>4, <2>5, <2>6, <2>7, <2>8, <2>9, <2>10 DEF LeanNext
<1>2. ASSUME GoOn
      PROVE  UNCHANGED manuscriptVars /\ pc' \in Leaning \cup {"settling", "reporting", "raising"}
  BY <1>2 DEF GoOn, Formalize, BeginLean, SkipLean, Leaning, Proving
<1>3. ASSUME StageFails \/ Raise
      PROVE  UNCHANGED manuscriptVars /\ pc' \in Leaning \cup {"settling", "reporting", "raising"}
  BY <1>3 DEF StageFails, Raise
<1> QED BY <1>1, <1>2, <1>3 DEF Elsewhere

LEMMA Steps ==
    [Next]_lateVars =>
        \/ ManuscriptNext /\ UNCHANGED <<leanVars, commands, upsets>>
        \/ Elsewhere \/ Report \/ Resume \/ ForceStage \/ Crash \/ UNCHANGED lateVars
BY DEF Next, Elsewhere

\* A command enters the manuscript stage or the Lean stage.
LEMMA CommandIs ==
    TypesAndPlaces /\ (Resume \/ ForceStage) =>
        /\ pc = "off"
        /\ \E s : /\ Entry(s)
                  /\ \/ /\ FirstIncomplete(s.st) = "manuscript"
                        /\ BeginManuscript(s) /\ UNCHANGED <<graph, leanVars>>
                     \/ /\ FirstIncomplete(s.st) = "feasibility"
                        /\ Formalize(s) /\ UNCHANGED <<graph, manuscriptVars>>
<1> SUFFICES ASSUME TypesAndPlaces, Resume \/ ForceStage
             PROVE  /\ pc = "off"
                    /\ \E s : /\ Entry(s)
                              /\ \/ /\ FirstIncomplete(s.st) = "manuscript"
                                    /\ BeginManuscript(s) /\ UNCHANGED <<graph, leanVars>>
                                 \/ /\ FirstIncomplete(s.st) = "feasibility"
                                    /\ Formalize(s) /\ UNCHANGED <<graph, manuscriptVars>>
  OBVIOUS
<1>1. pc = "off" /\ \E s : (s = Prepared(run) \/ \E stage \in Forceable : s = Forced(stage)) /\ Enters(s)
  BY DEF Resume, ForceStage, Command
<1>2. PICK s : (s = Prepared(run) \/ \E stage \in Forceable : s = Forced(stage)) /\ Enters(s)
  BY <1>1
<1>3. run \in RunType /\ InOrder(run.st)
  BY DEF TypesAndPlaces, RunOK, Places
<1>4. Entry(s)
  BY <1>2, <1>3, PreparedEntry, ForcedEntry
<1> QED BY <1>1, <1>2, <1>4 DEF Enters

LEMMA WriteKeeps == TypesAndPlaces /\ (Write \/ WriterFails) => ManuscriptOK'
<1> SUFFICES ASSUME TypesAndPlaces, Write \/ WriterFails PROVE ManuscriptOK'
  OBVIOUS
<1>1. /\ papers \in Seq(Fault) /\ \A q \in DOMAIN written : written[q] \in Nat \ {0}
      /\ shelf \in ShelfType /\ work \in WorkType /\ DraftsOK
  BY DEF TypesAndPlaces, ManuscriptOK
<1>2. CASE WriterFails
  <2>1. /\ work' = [work EXCEPT !.broken = TRUE] /\ pc' = "selecting" /\ work.drafts # <<>>
        /\ UNCHANGED <<papers, written, shelf>>
    BY <1>2 DEF WriterFails
  <2>2. work' \in WorkType /\ work'.drafts = work.drafts /\ work'.cycle = work.cycle
    BY <1>1, <2>1 DEF WorkType
  <2>3. DraftsOK'
    BY <1>1, <2>1, <2>2 DEF DraftsOK, Round
  <2> QED BY <1>1, <2>1, <2>2, <2>3 DEF ManuscriptOK
<1>3. ASSUME NEW p \in Nat \ {0}, Drafted(p), pc = "writing", papers' \in Seq(Fault),
             \A q \in DOMAIN written' : written'[q] \in Nat \ {0}
      PROVE  ManuscriptOK'
  <2>1. shelf' = [shelf EXCEPT !.tex = p] /\ work' = [work EXCEPT !.paper = p] /\ pc' = "auditing"
    BY <1>3 DEF Drafted
  <2>2. /\ shelf' \in ShelfType /\ work' \in WorkType /\ work'.paper = p
        /\ work'.drafts = work.drafts /\ work'.cycle = work.cycle
    BY <1>1, <2>1 DEF WorkType, ShelfType
  <2>3. DraftsOK'
    BY <1>1, <1>3, <2>1, <2>2 DEF DraftsOK, Round
  <2> QED BY <1>3, <2>1, <2>2, <2>3 DEF ManuscriptOK
<1>4. CASE Write /\ Question \in DOMAIN written
  BY <1>1, <1>3, <1>4 DEF Write
<1>5. CASE Write /\ Question \notin DOMAIN written
  <2>1. /\ pc = "writing" /\ Drafted(Len(papers) + 1)
        /\ \E fault \in Faults[run.formal] : papers' = Append(papers, fault)
        /\ written' = WithKey(written, Question, Len(papers) + 1)
    BY <1>5 DEF Write
  <2>2. Len(papers) + 1 \in Nat \ {0}
    BY <1>1
  <2>3. Faults[run.formal] \subseteq Fault
    BY ManuscriptAssumption DEF TypesAndPlaces, RunOK, RunType
  <2>4. papers' \in Seq(Fault)
    BY <1>1, <2>1, <2>3
  <2>5. \A q \in DOMAIN written' : written'[q] \in Nat \ {0}
    BY <1>1, <2>1, <2>2 DEF WithKey
  <2> QED BY <1>3, <2>1, <2>2, <2>4, <2>5
<1> QED BY <1>2, <1>4, <1>5

LEMMA ExamineKeeps == TypesAndPlaces /\ (Audit \/ Build) => ManuscriptOK'
<1> SUFFICES ASSUME TypesAndPlaces, Audit \/ Build PROVE ManuscriptOK'
  OBVIOUS
<1>1. /\ papers \in Seq(Fault) /\ \A q \in DOMAIN written : written[q] \in Nat \ {0}
      /\ shelf \in ShelfType /\ work \in WorkType /\ DraftsOK
      /\ work.drafts \in Seq(DraftType) /\ work.cycle \in Nat /\ work.paper \in Nat
  BY DEF TypesAndPlaces, ManuscriptOK, WorkType
<1>2. CASE Audit
  <2>1. PICK gate \in GatesOf(work.paper) : work' = [work EXCEPT !.gate = gate]
    BY <1>2 DEF Audit
  <2>2. gate \in Gates
    BY <2>1 DEF GatesOf, Gates
  <2>3. pc = "auditing" /\ pc' = "building" /\ UNCHANGED <<papers, written, shelf>>
    BY <1>2 DEF Audit
  <2>4. /\ work' \in WorkType /\ work'.paper = work.paper /\ work'.cycle = work.cycle
        /\ work'.drafts = work.drafts
    BY <1>1, <2>1, <2>2 DEF WorkType
  <2>5. DraftsOK' /\ work'.paper # 0
    BY <1>1, <2>3, <2>4 DEF DraftsOK, Round, TypesAndPlaces, ManuscriptOK
  <2> QED BY <1>1, <2>3, <2>4, <2>5 DEF ManuscriptOK
<1>3. CASE Build
  <2>1. pc = "building" /\ work.paper \in Nat \ {0} /\ UNCHANGED <<papers, written>>
    BY <1>1, <1>3 DEF Build, TypesAndPlaces, ManuscriptOK
  <2>2. PICK build \in BuildsOf(work.paper) :
            LET draft == [cycle |-> work.cycle, paper |-> work.paper, gate |-> work.gate,
                          build |-> build]
                kept  == [work EXCEPT !.drafts = Append(@, draft)]
            IN /\ shelf' = Compiled(build)
               /\ IF Final(draft)
                  THEN work' = kept /\ pc' = "selecting"
                  ELSE /\ work' = [kept EXCEPT !.cycle = @ + 1, !.after = work.paper,
                                               !.plan = [gate |-> work.gate, build |-> build,
                                                         broken |-> FALSE]]
                       /\ pc' = "writing"
    BY <1>3 DEF Build
  <2>3. build \in Builds
    BY <2>2 DEF BuildsOf, Builds
  <2> DEFINE draft == [cycle |-> work.cycle, paper |-> work.paper, gate |-> work.gate,
                       build |-> build]
             drafts == Append(work.drafts, draft)
             plan == [gate |-> work.gate, build |-> build, broken |-> FALSE]
  <2>4. draft \in DraftType /\ draft.cycle = work.cycle /\ plan \in PlanType
    BY <1>1, <2>1, <2>3 DEF WorkType, DraftType, PlanType
  <2>5. /\ drafts \in Seq(DraftType) /\ drafts # <<>>
        /\ DOMAIN work.drafts = 1..Len(work.drafts) /\ Len(work.drafts) \in Nat
        /\ DOMAIN drafts = 1..(Len(work.drafts) + 1) /\ drafts[Len(work.drafts) + 1] = draft
        /\ \A i \in DOMAIN work.drafts : drafts[i] = work.drafts[i]
    BY <1>1, <2>4
  <2>6. \/ work' = [work EXCEPT !.drafts = drafts] /\ pc' = "selecting"
        \/ /\ work' = [work EXCEPT !.drafts = drafts, !.cycle = work.cycle + 1,
                                   !.after = work.paper, !.plan = plan]
           /\ pc' = "writing"
    BY <2>2
  <2>7. shelf' \in ShelfType
    <3>1. shelf.copies \in Copies
      BY <1>1 DEF ShelfType
    <3>2. WithKey(shelf.copies, work.cycle, work.paper) \in Copies
      BY <1>1, <3>1, CopiesIs
    <3> QED BY <1>1, <2>2, <3>2 DEF Compiled, ShelfType
  <2> HIDE DEF draft, drafts, plan
  <2>8. /\ work' \in WorkType /\ work'.drafts = drafts
        /\ work'.cycle = work.cycle \/ work'.cycle = work.cycle + 1
        /\ pc' = "writing" => work'.cycle = work.cycle + 1
    <3>1. work.cycle + 1 \in Nat
      BY <1>1
    <3>2. CASE work' = [work EXCEPT !.drafts = drafts] /\ pc' = "selecting"
      BY <1>1, <2>5, <3>2 DEF WorkType
    <3>3. CASE /\ work' = [work EXCEPT !.drafts = drafts, !.cycle = work.cycle + 1,
                                       !.after = work.paper, !.plan = plan]
               /\ pc' = "writing"
      <4> DEFINE n == work.cycle + 1
      <4>1. work' = [work EXCEPT !.drafts = drafts, !.cycle = n, !.after = work.paper, !.plan = plan]
        BY <3>3
      <4>2. n \in Nat
        BY <3>1
      <4> HIDE DEF n
      <4>3. work' \in WorkType /\ work'.drafts = drafts /\ work'.cycle = n
        BY <1>1, <2>4, <2>5, <4>1, <4>2 DEF WorkType
      <4> QED BY <4>3 DEF n
    <3> QED BY <2>6, <3>2, <3>3
  <2>9. /\ \A i \in DOMAIN work.drafts :
              /\ drafts[i].cycle = work.drafts[i].cycle
              /\ drafts[i].cycle \in Nat /\ drafts[i].cycle < work.cycle
        /\ drafts[Len(work.drafts) + 1].cycle = work.cycle
    <3>1. \A i \in DOMAIN work.drafts : work.drafts[i] \in DraftType /\ work.drafts[i].cycle < work.cycle
      BY <1>1, <2>1 DEF DraftsOK, Round
    <3> QED BY <2>4, <2>5, <3>1 DEF DraftType
  <2>10. \A i \in DOMAIN drafts : drafts[i].cycle \in Nat /\ drafts[i].cycle <= work.cycle
    <3> SUFFICES ASSUME NEW i \in DOMAIN drafts
                 PROVE  drafts[i].cycle \in Nat /\ drafts[i].cycle <= work.cycle
      OBVIOUS
    <3>1. i = Len(work.drafts) + 1 \/ i \in DOMAIN work.drafts
      BY <2>5
    <3> QED BY <1>1, <2>9, <3>1
  <2>11. ASSUME NEW i \in DOMAIN drafts, NEW j \in DOMAIN drafts, drafts[i].cycle = drafts[j].cycle
         PROVE  i = j
    <3>1. /\ i = Len(work.drafts) + 1 \/ i \in DOMAIN work.drafts
          /\ j = Len(work.drafts) + 1 \/ j \in DOMAIN work.drafts
      BY <2>5
    <3>2. CASE i \in DOMAIN work.drafts /\ j \in DOMAIN work.drafts
      BY <1>1, <2>5, <2>11, <3>2 DEF DraftsOK
    <3>3. CASE i = Len(work.drafts) + 1 /\ j \in DOMAIN work.drafts
      BY <1>1, <2>9, <2>11, <3>3
    <3>4. CASE j = Len(work.drafts) + 1 /\ i \in DOMAIN work.drafts
      BY <1>1, <2>9, <2>11, <3>4
    <3> QED BY <3>1, <3>2, <3>3, <3>4
  <2>12. DraftsOK'
    BY <1>1, <2>6, <2>8, <2>10, <2>11 DEF DraftsOK, Round
  <2> QED BY <1>1, <2>1, <2>5, <2>6, <2>7, <2>8, <2>12 DEF ManuscriptOK
<1> QED BY <1>2, <1>3

LEMMA FileKeeps == TypesAndPlaces /\ (Publish \/ File) => ManuscriptOK'
<1> SUFFICES ASSUME TypesAndPlaces, Publish \/ File PROVE ManuscriptOK'
  OBVIOUS
<1>1. /\ ManuscriptOK /\ work.drafts # <<>> /\ UNCHANGED <<papers, written, work>>
      /\ pc \in {"selecting", "filing"} /\ pc' \in {"filing", "noting"}
  BY DEF Publish, File, TypesAndPlaces, ManuscriptOK
<1>2. Best \in DraftType
  BY <1>1, BestHere
<1>3. shelf' \in ShelfType
  <2>1. CASE Publish
    BY <1>1, <2>1, SelectedIs DEF Publish
  <2>2. CASE File
    <3> DEFINE result == [paper |-> Best.paper, cycle |-> work.cycle, hard |-> Blocked(Best),
                          plan |-> [gate |-> Best.gate, build |-> Best.build, broken |-> work.broken]]
    <3>1. Blocked(Best) \in {"none", "integrity", "latex"}
      BY DEF Blocked
    <3>2. work.cycle \in Nat /\ work.broken \in BOOLEAN
      BY <1>1 DEF ManuscriptOK, WorkType
    <3>3. result \in ResultType
      BY <1>2, <3>1, <3>2 DEF ResultType, DraftType, PlanType
    <3>4. shelf' = [shelf EXCEPT !.result = result]
      BY <2>2 DEF File
    <3> HIDE DEF result
    <3> QED BY <1>1, <3>3, <3>4 DEF ManuscriptOK, ShelfType
  <2> QED BY <2>1, <2>2
<1>4. DraftsOK'
  BY <1>1 DEF ManuscriptOK, DraftsOK, Round
<1> QED BY <1>1, <1>3, <1>4 DEF ManuscriptOK

LEMMA IdleIs == Idle \in WorkType /\ Idle.drafts = <<>>
BY DEF Idle, WorkType, NoPlan, PlanType, Gates, Builds

\* What the other steps do to the attempt: nothing, or it is forgotten or begun.
LEMMA ManuscriptKeeps == TypesAndPlaces /\ [Next]_lateVars => ManuscriptOK'
<1> SUFFICES ASSUME TypesAndPlaces, [Next]_lateVars PROVE ManuscriptOK'
  OBVIOUS
<1>1. ManuscriptOK
  BY DEF TypesAndPlaces
<1>2. ASSUME UNCHANGED manuscriptVars, pc' \notin Round \cup {"selecting", "filing"} PROVE ManuscriptOK'
  BY <1>1, <1>2 DEF ManuscriptOK, DraftsOK, manuscriptVars, Round
<1>3. ASSUME UNCHANGED <<papers, written, shelf>>, work' \in WorkType, work'.drafts = <<>>,
             pc' \notin {"auditing", "building", "selecting", "filing"}
      PROVE  ManuscriptOK'
  <2>1. DOMAIN work'.drafts = {}
    BY <1>3
  <2>2. DraftsOK'
    BY <2>1 DEF DraftsOK
  <2> QED BY <1>1, <1>3, <2>2 DEF ManuscriptOK
<1>4. CASE NoteDraft \/ RecordDraft \/ CloseDraft
  <2>1. CASE NoteDraft \/ RecordDraft
    BY <1>2, <2>1 DEF NoteDraft, RecordDraft, Round, manuscriptVars
  <2>2. CASE CloseDraft
    BY <1>3, <2>2, IdleIs DEF CloseDraft, Forgotten
  <2> QED BY <1>4, <2>1, <2>2
<1>5. CASE ManuscriptNext
  BY <1>4, <1>5, WriteKeeps, ExamineKeeps, FileKeeps DEF ManuscriptNext
<1>6. CASE Elsewhere
  BY <1>2, <1>6, ElsewhereIs DEF Leaning, Proving, Round
<1>7. CASE Report \/ Crash
  BY <1>3, <1>7, IdleIs DEF Report, Crash
<1>8. CASE Resume \/ ForceStage
  <2>1. PICK s : /\ Entry(s)
                 /\ \/ BeginManuscript(s)
                    \/ Formalize(s) /\ UNCHANGED <<graph, manuscriptVars>>
    BY <1>8, CommandIs
  <2>2. CASE BeginManuscript(s)
    <3>1. Attempt(s) \in WorkType /\ Attempt(s).drafts = <<>>
      BY <2>1, AttemptIs DEF Entry, TypesAndPlaces
    <3> QED BY <1>3, <2>2, <3>1 DEF BeginManuscript
  <2>3. CASE Formalize(s) /\ UNCHANGED <<graph, manuscriptVars>>
    BY <1>2, <2>3 DEF Formalize, BeginLean, SkipLean, Round
  <2> QED BY <2>1, <2>2, <2>3
<1>9. CASE UNCHANGED lateVars
  BY <1>1, <1>9 DEF lateVars, manuscriptVars, ManuscriptOK, DraftsOK
<1> QED BY <1>5, <1>6, <1>7, <1>8, <1>9, Steps

LEMMA NextRevision ==
    ASSUME IsFiniteSet(graph), NEW x, graph' = graph \cup {x}
    PROVE  IsFiniteSet(graph') /\ Revision \in Nat /\ Revision' \in Nat /\ Revision <= Revision'
<1>1. Cardinality(graph) \in Nat
  BY FS_CardinalityType
<1>2. /\ IsFiniteSet(graph \cup {x})
      /\ Cardinality(graph \cup {x}) = IF x \in graph THEN Cardinality(graph) ELSE Cardinality(graph) + 1
  BY FS_AddElement
<1> QED BY <1>1, <1>2 DEF Revision

LEMMA FatesAre ==
    ASSUME NEW outcome \in Outcomes
    PROVE  /\ Fates(outcome)[1] \in Status /\ Fates(outcome)[2] \in Status
           /\ Fates(outcome)[3] \in Status
           /\ Fates(outcome)[3] = "succeeded" <=> outcome = "verified"
BY StageFacts DEF Outcomes, Fates

LEMMA SettledIs ==
    ASSUME NEW s \in RunType, NEW outcome \in Outcomes
    PROVE  /\ Settled(s, Fates(outcome)) \in RunType
           /\ \A x \in Stage \ {"alignment", "formalization", "verification"} :
                  Settled(s, Fates(outcome)).st[x] = s.st[x]
           /\ Settled(s, Fates(outcome)).st["verification"] = "succeeded" <=> outcome = "verified"
           /\ Settled(s, Fates(outcome)).rec = s.rec
           /\ Settled(s, Fates(outcome)).generation = s.generation
           /\ Settled(s, Fates(outcome)).formal = s.formal
<1> DEFINE f == Fates(outcome)
           a == With(s, "alignment", f[1])
           b == With(a, "formalization", f[2])
           c == With(b, "verification", f[3])
<1>1. /\ f[1] \in Status /\ f[2] \in Status /\ f[3] \in Status
      /\ f[3] = "succeeded" <=> outcome = "verified"
  BY FatesAre
<1>2. {"alignment", "formalization", "verification"} \subseteq Stage
  BY StageFacts
<1>3. Settled(s, f) = c
  BY DEF Settled
<1> HIDE DEF f
<1>4. /\ a \in RunType /\ a.st = [s.st EXCEPT !["alignment"] = f[1]] /\ a.rec = s.rec
      /\ a.generation = s.generation /\ a.formal = s.formal
  BY <1>1, <1>2, WithIs
<1> HIDE DEF a
<1>5. /\ b \in RunType /\ b.st = [a.st EXCEPT !["formalization"] = f[2]] /\ b.rec = a.rec
      /\ b.generation = a.generation /\ b.formal = a.formal
  <2>1. a \in RunType /\ "formalization" \in Stage /\ f[2] \in Status
    BY <1>1, <1>2, <1>4
  <2> QED BY <2>1, WithIs
<1> HIDE DEF b
<1>6. /\ c \in RunType /\ c.st = [b.st EXCEPT !["verification"] = f[3]] /\ c.rec = b.rec
      /\ c.generation = b.generation /\ c.formal = b.formal
  BY <1>1, <1>2, <1>5, WithIs
<1> HIDE DEF c
<1>7. s.st \in [Stage -> Status]
  BY DEF RunType
<1>8. \A x \in Stage \ {"alignment", "formalization", "verification"} : c.st[x] = s.st[x]
  BY <1>4, <1>5, <1>6, <1>7
<1>9. c.st["verification"] = f[3]
  BY <1>2, <1>6, <1>5, <1>4, <1>7
<1> QED BY <1>1, <1>3, <1>4, <1>5, <1>6, <1>8, <1>9 DEF f

\* The rule of the stage records: the run under way after a step has a status for
\* every stage; and what the step did to those that decide what may go on.
Moved ==
    /\ run' \in RunType /\ run'.formal = run.formal /\ run'.generation >= run.generation
    /\ InOrder(run'.st)
    /\ Done("manuscript")' =>
          \/ pc = "recording draft"
          \/ Done("manuscript") /\ run'.rec["manuscript"] = run.rec["manuscript"]
    /\ run'.generation = run.generation /\ Done("bibliography") => Done("bibliography")'
    /\ Done("verification")' =>
          \/ Done("verification")
          \/ pc = "settling" /\ lean.outcome = "verified"

LEMMA UnmovedIs == TypesAndPlaces /\ UNCHANGED run => Moved
<1> SUFFICES ASSUME TypesAndPlaces, UNCHANGED run PROVE Moved
  OBVIOUS
<1>1. run \in RunType /\ InOrder(run.st) /\ run.generation \in Nat
  BY DEF TypesAndPlaces, RunOK, RunType, Places
<1>2. run' \in RunType /\ InOrder(run'.st) /\ run'.generation >= run.generation
  BY <1>1
<1>3. /\ Done("manuscript")' => Done("manuscript")
      /\ Done("bibliography") => Done("bibliography")'
      /\ Done("verification")' => Done("verification")
  BY DEF Done
<1> HIDE DEF TypesAndPlaces
<1>4. run'.rec["manuscript"] = run.rec["manuscript"] /\ run'.formal = run.formal
  OBVIOUS
<1> QED BY <1>2, <1>3, <1>4 DEF Moved

Kept == RunOK' /\ Moved /\ Places'

LEMMA StageNames ==
    {"manuscript", "bibliography", "feasibility", "alignment", "formalization", "verification",
     "report"} \subseteq Stage
BY StageFacts

LEMMA TypedRun ==
    TypesAndPlaces =>
        /\ run \in RunType /\ run.st \in [Stage -> Status] /\ run.rec \in [Stage -> Nat]
        /\ run.generation \in Nat /\ run.formal \in BOOLEAN /\ IsFiniteSet(graph)
        /\ shelf.result.paper \in Nat /\ lean.paper \in Nat
BY DEF TypesAndPlaces, RunOK, RunType, ManuscriptOK, ShelfType, ResultType, LeanOK, LeanType

\* The step of a round, of the selection or of the filing.
LEMMA DraftingKeeps ==
    TypesAndPlaces /\ (Write \/ WriterFails \/ Audit \/ Build \/ Publish \/ File \/ NoteDraft)
        /\ UNCHANGED leanVars => Kept
<1> SUFFICES ASSUME TypesAndPlaces, UNCHANGED leanVars,
                    Write \/ WriterFails \/ Audit \/ Build \/ Publish \/ File \/ NoteDraft
             PROVE  Kept
  OBVIOUS
<1>1. UNCHANGED run /\ pc \in Drafting /\ pc' \in Drafting
  BY DEF Write, WriterFails, Drafted, Audit, Build, Publish, File, NoteDraft, Drafting, Round
<1>2. UNCHANGED graph \/ graph' = graph \cup {"draft"}
  BY DEF Write, WriterFails, Audit, Build, Publish, File, NoteDraft
<1>3. RunOK'
  BY <1>1, <1>2, NextRevision DEF TypesAndPlaces, RunOK
<1>4. Places'
  BY <1>1 DEF TypesAndPlaces, Places, Done, InOrder, Drafting, Round, Leaning, Proving
<1> QED BY <1>1, <1>3, <1>4, UnmovedIs DEF Kept

LEMMA RecordDraftKeeps == TypesAndPlaces /\ RecordDraft /\ UNCHANGED leanVars => Kept
<1> SUFFICES ASSUME TypesAndPlaces, RecordDraft, UNCHANGED leanVars PROVE Kept
  OBVIOUS
<1> DEFINE s == Succeeded(run, "manuscript", shelf.result.paper)
<1>1. /\ run \in RunType /\ run.st \in [Stage -> Status] /\ run.rec \in [Stage -> Nat]
      /\ run.generation \in Nat /\ shelf.result.paper \in Nat
  BY TypedRun
<1>2. /\ s \in RunType /\ s.st = [run.st EXCEPT !["manuscript"] = "succeeded"]
      /\ s.rec = [run.rec EXCEPT !["manuscript"] = shelf.result.paper]
      /\ s.generation = run.generation /\ s.formal = run.formal
  BY <1>1, SucceededIs, StageNames
<1>3. run' = With(s, "bibliography", "running") /\ pc' = "closing" /\ pc = "recording draft"
      /\ UNCHANGED <<graph, shelf>>
  BY DEF RecordDraft
<1> HIDE DEF s
<1>4. /\ run' \in RunType /\ run'.st = [s.st EXCEPT !["bibliography"] = "running"]
      /\ run'.rec = s.rec /\ run'.generation = s.generation /\ run'.formal = s.formal
  BY <1>2, <1>3, WithIs, StageNames, StageFacts
<1>5. run.st["manuscript"] = "running" /\ InOrder(run.st)
  BY <1>3 DEF TypesAndPlaces, Places, Drafting
<1>6. /\ run'.st["manuscript"] = "succeeded" /\ run'.st["bibliography"] = "running"
      /\ run'.st["feasibility"] = run.st["feasibility"]
      /\ run'.st["verification"] = run.st["verification"]
      /\ run'.rec["manuscript"] = shelf.result.paper
  BY <1>1, <1>2, <1>4, StageNames
<1>7. InOrder(run'.st) /\ ~Done("bibliography") /\ ~Done("manuscript") /\ ~Done("verification")'
  BY <1>5, <1>6 DEF InOrder, Done
<1>8. RunOK' /\ Moved
  <2>1. IsFiniteSet(graph') /\ run'.generation = run.generation /\ run'.formal = run.formal
    BY <1>2, <1>3, <1>4, TypedRun
  <2>2. run'.generation >= run.generation
    BY <1>1, <2>1
  <2> QED BY <1>3, <1>4, <1>7, <2>1, <2>2 DEF RunOK, Moved
<1>9. Places'
  BY <1>3, <1>6, <1>7 DEF Places, Done, Drafting, Round, Leaning, Proving
<1> QED BY <1>8, <1>9 DEF Kept

LEMMA CloseDraftKeeps == TypesAndPlaces /\ CloseDraft /\ UNCHANGED leanVars => Kept
<1> SUFFICES ASSUME TypesAndPlaces, CloseDraft, UNCHANGED leanVars PROVE Kept
  OBVIOUS
<1> DEFINE s == With(run, "bibliography", "succeeded")
<1>1. /\ run \in RunType /\ run.st \in [Stage -> Status] /\ run.generation \in Nat
  BY TypedRun
<1>2. /\ s \in RunType /\ s.st = [run.st EXCEPT !["bibliography"] = "succeeded"]
      /\ s.rec = run.rec /\ s.generation = run.generation /\ s.formal = run.formal
  BY <1>1, WithIs, StageNames, StageFacts
<1>3. run' = [s EXCEPT !.correct = FALSE] /\ pc' = "formalizing" /\ pc = "closing"
      /\ UNCHANGED <<graph, shelf>>
  BY DEF CloseDraft
<1> HIDE DEF s
<1>4. /\ run' \in RunType /\ run'.st = s.st
      /\ run'.rec = s.rec /\ run'.generation = s.generation /\ run'.formal = s.formal
  BY <1>2, <1>3 DEF RunType
<1>5. /\ run.st["manuscript"] = "succeeded" /\ run.st["bibliography"] = "running"
      /\ InOrder(run.st) /\ run.rec["manuscript"] = shelf.result.paper
  BY <1>3 DEF TypesAndPlaces, Places, Done
<1>6. /\ run'.st["manuscript"] = run.st["manuscript"] /\ run'.st["bibliography"] = "succeeded"
      /\ run'.st["feasibility"] = run.st["feasibility"]
      /\ run'.st["verification"] = run.st["verification"]
  BY <1>1, <1>2, <1>4, StageNames
<1>7. InOrder(run'.st) /\ ~Done("feasibility")' /\ ~Done("verification")'
  BY <1>5, <1>6 DEF InOrder, Done
<1>8. RunOK' /\ Moved
  BY <1>1, <1>2, <1>3, <1>4, <1>6, <1>7 DEF RunOK, Moved, TypesAndPlaces, Done
<1>9. Places'
  BY <1>2, <1>3, <1>4, <1>5, <1>6, <1>7 DEF Places, Done, Drafting, Round, Leaning, Proving
<1> QED BY <1>8, <1>9 DEF Kept

LEMMA ProvingKeeps ==
    TypesAndPlaces /\ (State \/ Place \/ Read \/ AskCodex \/ Codex \/ CheckBuild \/ CheckAxioms
                       \/ RecordIteration \/ Exhausted)
        /\ UNCHANGED <<run, graph, manuscriptVars>> => Kept
<1> SUFFICES ASSUME TypesAndPlaces, UNCHANGED <<run, graph, manuscriptVars>>,
                    State \/ Place \/ Read \/ AskCodex \/ Codex \/ CheckBuild \/ CheckAxioms
                       \/ RecordIteration \/ Exhausted
             PROVE  Kept
  OBVIOUS
<1>1. ASSUME NEW outcome \in Outcomes, Concluded(outcome)
      PROVE  pc' = "noting lean" /\ lean'.outcome # "none"
  BY <1>1 DEF Concluded, Outcomes
<1>2. /\ pc \in Proving /\ pc' \in Proving \cup {"noting lean", "raising"}
      /\ pc' = "noting lean" => lean'.outcome # "none"
  <2>1. CASE State \/ AskCodex \/ Codex \/ CheckBuild \/ CheckAxioms
    BY <2>1 DEF State, AskCodex, Codex, CheckBuild, CheckAxioms, Proving
  <2>2. CASE Place
    <3>1. \/ \E outcome \in Outcomes : Concluded(outcome)
          \/ pc' = "reading"
      BY <2>2 DEF Place, Outcomes
    <3> QED BY <1>1, <2>2, <3>1 DEF Place, Proving
  <2>3. CASE Read
    <3>1. \/ \E outcome \in Outcomes : Concluded(outcome)
          \/ pc' \in {"reading", "raising", "checking"}
      BY <2>3 DEF Read, Outcomes
    <3> QED BY <1>1, <2>3, <3>1 DEF Read, Proving
  <2>4. CASE RecordIteration \/ Exhausted
    <3>1. \/ \E outcome \in Outcomes : Concluded(outcome)
          \/ pc' = "reading"
      BY <2>4 DEF RecordIteration, Exhausted, Outcomes
    <3> QED BY <1>1, <2>4, <3>1 DEF RecordIteration, Exhausted, Proving
  <2> QED BY <2>1, <2>2, <2>3, <2>4
<1>3. RunOK'
  BY DEF TypesAndPlaces, RunOK
<1>4. ~Done("verification")
  BY <1>2 DEF TypesAndPlaces, Places, Proving
<1>5. Places'
  BY <1>2, <1>4 DEF TypesAndPlaces, Places, Done, InOrder, Drafting, Round, Leaning, Proving,
        manuscriptVars
<1> QED BY <1>3, <1>5, UnmovedIs DEF Kept

LEMMA NoteLeanKeeps == TypesAndPlaces /\ NoteLean /\ UNCHANGED manuscriptVars => Kept
<1> SUFFICES ASSUME TypesAndPlaces, NoteLean, UNCHANGED manuscriptVars PROVE Kept
  OBVIOUS
<1>1. /\ UNCHANGED <<run, lean, shelf>> /\ graph' = graph \cup {"lean"}
      /\ pc = "noting lean" /\ pc' = "recording lean"
  BY DEF NoteLean, manuscriptVars
<1>2. RunOK'
  BY <1>1, NextRevision DEF TypesAndPlaces, RunOK
<1>3. Places'
  BY <1>1 DEF TypesAndPlaces, Places, Done, InOrder, Drafting, Round, Leaning, Proving
<1> QED BY <1>1, <1>2, <1>3, UnmovedIs DEF Kept

LEMMA RecordLeanKeeps == TypesAndPlaces /\ RecordLean /\ UNCHANGED manuscriptVars => Kept
<1> SUFFICES ASSUME TypesAndPlaces, RecordLean, UNCHANGED manuscriptVars PROVE Kept
  OBVIOUS
<1> DEFINE s == Succeeded(run, "feasibility", lean.paper)
<1>1. /\ run \in RunType /\ run.st \in [Stage -> Status] /\ run.rec \in [Stage -> Nat]
      /\ run.generation \in Nat /\ lean.paper \in Nat /\ IsFiniteSet(graph)
  BY TypedRun
<1>2. /\ s \in RunType /\ s.st = [run.st EXCEPT !["feasibility"] = "succeeded"]
      /\ s.rec = [run.rec EXCEPT !["feasibility"] = lean.paper]
      /\ s.generation = run.generation /\ s.formal = run.formal
  BY <1>1, SucceededIs, StageNames
<1>3. /\ \/ run' = SkipPending(s, LeanStage) /\ pc' = "reporting"
         \/ run' = With(s, "alignment", "running") /\ pc' = "settling"
      /\ pc = "recording lean" /\ UNCHANGED <<graph, shelf, lean>>
  BY DEF RecordLean, manuscriptVars, leanVars
<1> HIDE DEF s
<1>4. /\ run.st["feasibility"] = "running" /\ run.st["bibliography"] = "succeeded"
      /\ run.st["manuscript"] = "succeeded" /\ run.st["verification"] # "succeeded"
      /\ lean.outcome # "none" /\ run.rec["manuscript"] = shelf.result.paper
  BY <1>3 DEF TypesAndPlaces, Places, Done, InOrder, Leaning
<1>5. /\ s.st["feasibility"] = "succeeded" /\ s.st["bibliography"] = "succeeded"
      /\ s.st["manuscript"] = "succeeded" /\ s.st["verification"] # "succeeded"
      /\ s.rec["manuscript"] = run.rec["manuscript"]
  BY <1>1, <1>2, <1>4, StageNames
<1>6. /\ run' \in RunType /\ run'.rec = s.rec /\ run'.generation = s.generation
      /\ run'.formal = s.formal
      /\ run'.st["feasibility"] = "succeeded" /\ run'.st["bibliography"] = "succeeded"
      /\ run'.st["manuscript"] = "succeeded" /\ run'.st["verification"] # "succeeded"
  <2>1. CASE run' = SkipPending(s, LeanStage)
    <3>1. /\ run' \in RunType /\ run'.rec = s.rec /\ run'.generation = s.generation
          /\ run'.formal = s.formal
          /\ \A x \in Stage : run'.st[x] =
                IF x \in LeanStage /\ s.st[x] = "pending" THEN "skipped" ELSE s.st[x]
      <4>1. /\ SkipPending(s, LeanStage) \in RunType
            /\ \A x \in Stage : SkipPending(s, LeanStage).st[x] =
                  IF x \in LeanStage /\ s.st[x] = "pending" THEN "skipped" ELSE s.st[x]
            /\ SkipPending(s, LeanStage).rec = s.rec
            /\ SkipPending(s, LeanStage).generation = s.generation
            /\ SkipPending(s, LeanStage).formal = s.formal
        <5>1. s \in RunType
          BY <1>2
        <5> QED BY <5>1, SkipPendingIs
      <4> QED BY <2>1, <4>1
    <3> QED BY <1>5, <3>1, StageNames
  <2>2. CASE run' = With(s, "alignment", "running")
    <3>1. /\ run' \in RunType /\ run'.st = [s.st EXCEPT !["alignment"] = "running"]
          /\ run'.rec = s.rec /\ run'.generation = s.generation /\ run'.formal = s.formal
      BY <1>2, <2>2, WithIs, StageNames, StageFacts
    <3> QED BY <1>2, <1>5, <3>1, StageNames DEF RunType
  <2> QED BY <1>3, <2>1, <2>2
<1>7. InOrder(run'.st)
  BY <1>6 DEF InOrder
<1>8. RunOK' /\ Moved
  <2>1. run'.generation = run.generation /\ run'.formal = run.formal /\ run'.generation >= run.generation
    BY <1>1, <1>2, <1>6
  <2>2. run'.rec["manuscript"] = run.rec["manuscript"]
    BY <1>5, <1>6
  <2> QED BY <1>1, <1>3, <1>4, <1>6, <1>7, <2>1, <2>2 DEF RunOK, Moved, Done
<1>9. Places'
  BY <1>3, <1>4, <1>5, <1>6, <1>7 DEF Places, Done, Drafting, Round, Leaning, Proving
<1> QED BY <1>8, <1>9 DEF Kept

LEMMA SettleLeanKeeps == TypesAndPlaces /\ SettleLean /\ UNCHANGED manuscriptVars => Kept
<1> SUFFICES ASSUME TypesAndPlaces, SettleLean, UNCHANGED manuscriptVars PROVE Kept
  OBVIOUS
<1>1. /\ run \in RunType /\ run.generation \in Nat /\ IsFiniteSet(graph)
  BY TypedRun
<1>2. /\ run' = Settled(run, Fates(lean.outcome)) /\ pc' = "reporting" /\ pc = "settling"
      /\ UNCHANGED <<graph, shelf>>
  BY DEF SettleLean, manuscriptVars
<1>3. /\ run.st["feasibility"] = "succeeded" /\ InOrder(run.st)
      /\ lean.outcome # "none" /\ run.rec["manuscript"] = shelf.result.paper
  BY <1>2 DEF TypesAndPlaces, Places, Done, InOrder
<1>4. lean.outcome \in Outcomes
  BY <1>3 DEF TypesAndPlaces, LeanOK, LeanType
<1>5. /\ run' \in RunType /\ run'.rec = run.rec /\ run'.generation = run.generation
      /\ run'.formal = run.formal
      /\ \A x \in {"manuscript", "bibliography", "feasibility"} : run'.st[x] = run.st[x]
      /\ run'.st["verification"] = "succeeded" => lean.outcome = "verified"
  BY <1>1, <1>2, <1>4, SettledIs, StageNames
<1>6. InOrder(run'.st)
  BY <1>3, <1>5 DEF InOrder
<1>7. RunOK' /\ Moved
  <2>1. run'.generation >= run.generation
    BY <1>1, <1>5
  <2> QED BY <1>1, <1>2, <1>5, <1>6, <2>1 DEF RunOK, Moved, Done
<1>8. Places'
  BY <1>2, <1>3, <1>5, <1>6 DEF Places, Done, Drafting, Round, Leaning, Proving
<1> QED BY <1>7, <1>8 DEF Kept

\* What the runner does when it comes to Lean with the run s.
LEMMA FormalizeIs ==
    ASSUME NEW s \in RunType, InOrder(s.st), s.st["bibliography"] = "succeeded",
           s.st["feasibility"] # "succeeded", Formalize(s)
    PROVE  /\ run' \in RunType /\ run'.rec = s.rec /\ run'.generation = s.generation
           /\ run'.formal = s.formal /\ InOrder(run'.st)
           /\ run'.st["manuscript"] = "succeeded" /\ run'.st["bibliography"] = "succeeded"
           /\ run'.st["verification"] # "succeeded"
           /\ \/ pc' \in {"stating", "raising"} /\ run'.st["feasibility"] = "running"
              \/ pc' = "reporting"
<1>1. s.st["manuscript"] = "succeeded" /\ s.st["verification"] # "succeeded"
  BY DEF InOrder
<1>2. CASE BeginLean(s)
  <2>1. /\ run' \in RunType /\ run'.st = [s.st EXCEPT !["feasibility"] = "running"]
        /\ run'.rec = s.rec /\ run'.generation = s.generation /\ run'.formal = s.formal
        /\ pc' \in {"stating", "raising"}
    <3>1. /\ With(s, "feasibility", "running") \in RunType
          /\ With(s, "feasibility", "running").st = [s.st EXCEPT !["feasibility"] = "running"]
          /\ With(s, "feasibility", "running").rec = s.rec
          /\ With(s, "feasibility", "running").generation = s.generation
          /\ With(s, "feasibility", "running").formal = s.formal
      BY WithIs, StageNames, StageFacts
    <3> QED BY <1>2, <3>1 DEF BeginLean
  <2>2. s.st \in [Stage -> Status]
    BY DEF RunType
  <2>3. /\ run'.st["manuscript"] = "succeeded" /\ run'.st["bibliography"] = "succeeded"
        /\ run'.st["verification"] # "succeeded" /\ run'.st["feasibility"] = "running"
    BY <1>1, <2>1, <2>2, StageNames
  <2> QED BY <2>1, <2>3 DEF InOrder
<1>3. CASE SkipLean(s)
  <2>1. run' = SkipPending(s, LeanStage) /\ pc' = "reporting"
    BY <1>3 DEF SkipLean
  <2>2. /\ run' \in RunType /\ run'.rec = s.rec /\ run'.generation = s.generation
        /\ run'.formal = s.formal
        /\ run'.st["manuscript"] = "succeeded" /\ run'.st["bibliography"] = "succeeded"
        /\ run'.st["verification"] # "succeeded" /\ run'.st["feasibility"] # "succeeded"
    BY <1>1, <2>1, SkipPendingIs, StageNames
  <2> QED BY <2>1, <2>2 DEF InOrder
<1> QED BY <1>2, <1>3 DEF Formalize

LEMMA GoOnKeeps == TypesAndPlaces /\ GoOn => Kept
<1> SUFFICES ASSUME TypesAndPlaces, GoOn PROVE Kept
  OBVIOUS
<1>1. /\ run \in RunType /\ run.generation \in Nat /\ IsFiniteSet(graph)
  BY TypedRun
<1>2. Formalize(run) /\ pc = "formalizing" /\ UNCHANGED <<graph, shelf>>
  BY DEF GoOn, manuscriptVars
<1>3. /\ InOrder(run.st) /\ run.st["bibliography"] = "succeeded" /\ run.st["feasibility"] # "succeeded"
      /\ run.rec["manuscript"] = shelf.result.paper
  BY <1>2 DEF TypesAndPlaces, Places, Done, InOrder
<1>4. /\ run' \in RunType /\ run'.rec = run.rec /\ run'.generation = run.generation
      /\ run'.formal = run.formal /\ InOrder(run'.st)
      /\ run'.st["manuscript"] = "succeeded" /\ run'.st["bibliography"] = "succeeded"
      /\ run'.st["verification"] # "succeeded"
      /\ \/ pc' \in {"stating", "raising"} /\ run'.st["feasibility"] = "running"
         \/ pc' = "reporting"
  BY <1>1, <1>2, <1>3, FormalizeIs
<1>5. RunOK' /\ Moved
  <2>1. run'.generation >= run.generation
    BY <1>1, <1>4
  <2>2. run.st["manuscript"] = "succeeded"
    BY <1>3 DEF InOrder
  <2> QED BY <1>1, <1>2, <1>4, <2>1, <2>2 DEF RunOK, Moved, Done
<1>6. Places'
  BY <1>2, <1>3, <1>4 DEF Places, Done, Drafting, Round, Leaning, Proving
<1> QED BY <1>5, <1>6 DEF Kept

LEMMA CommandKeeps == TypesAndPlaces /\ (Resume \/ ForceStage) => Kept
<1> SUFFICES ASSUME TypesAndPlaces, Resume \/ ForceStage PROVE Kept
  OBVIOUS
<1>1. /\ run \in RunType /\ run.generation \in Nat /\ IsFiniteSet(graph)
  BY TypedRun
<1>2. PICK s : /\ Entry(s)
               /\ \/ /\ FirstIncomplete(s.st) = "manuscript"
                     /\ BeginManuscript(s) /\ UNCHANGED <<graph, leanVars>>
                  \/ /\ FirstIncomplete(s.st) = "feasibility"
                     /\ Formalize(s) /\ UNCHANGED <<graph, manuscriptVars>>
  BY CommandIs
<1>3. /\ s \in RunType /\ s.formal = run.formal /\ s.generation >= run.generation
      /\ \A x \in Stage : s.st[x] = "succeeded" => run.st[x] = "succeeded" /\ s.rec[x] = run.rec[x]
      /\ InOrder(s.st)
      /\ s.generation = run.generation /\ run.st["bibliography"] = "succeeded"
            => s.st["bibliography"] = "succeeded"
  BY <1>2 DEF Entry
<1>4. Done("manuscript") => run.rec["manuscript"] = shelf.result.paper
  BY DEF TypesAndPlaces, Places
<1>5. CASE FirstIncomplete(s.st) = "manuscript" /\ BeginManuscript(s)
  <2>1. s.st["manuscript"] \notin Complete
    BY <1>5, FirstIs
  <2>2. s.st["manuscript"] # "succeeded" /\ s.st["bibliography"] # "succeeded"
        /\ s.st["feasibility"] # "succeeded" /\ s.st["verification"] # "succeeded"
    BY <1>3, <2>1 DEF InOrder, Complete
  <2>3. run' = With(s, "manuscript", "running") /\ pc' \in {"raising", "writing"} /\ UNCHANGED shelf
    BY <1>5 DEF BeginManuscript
  <2>4. /\ run' \in RunType /\ run'.st = [s.st EXCEPT !["manuscript"] = "running"]
        /\ run'.rec = s.rec /\ run'.generation = s.generation /\ run'.formal = s.formal
    BY <1>3, <2>3, WithIs, StageNames, StageFacts
  <2>5. s.st \in [Stage -> Status]
    BY <1>3 DEF RunType
  <2>6. /\ run'.st["manuscript"] = "running" /\ run'.st["bibliography"] = s.st["bibliography"]
        /\ run'.st["feasibility"] = s.st["feasibility"]
        /\ run'.st["verification"] = s.st["verification"]
    BY <2>4, <2>5, StageNames
  <2>7. InOrder(run'.st)
    BY <1>3, <2>2, <2>6 DEF InOrder
  <2>8. RunOK' /\ Moved
    <3>1. run'.generation >= run.generation /\ IsFiniteSet(graph')
      BY <1>1, <1>2, <1>3, <2>4
    <3>2. run'.generation = run.generation => ~Done("bibliography")
      BY <1>3, <2>2, <2>4 DEF Done
    <3>3. ~Done("manuscript")' /\ ~Done("verification")'
      BY <2>2, <2>6 DEF Done
    <3> QED BY <1>3, <2>4, <2>7, <3>1, <3>2, <3>3 DEF RunOK, Moved
  <2>9. Places'
    BY <2>2, <2>3, <2>6, <2>7 DEF Places, Done, Drafting, Round, Leaning, Proving
  <2> QED BY <2>8, <2>9 DEF Kept
<1>6. CASE FirstIncomplete(s.st) = "feasibility" /\ Formalize(s) /\ UNCHANGED <<graph, manuscriptVars>>
  <2>1. s.st["bibliography"] \in Complete /\ s.st["feasibility"] \notin Complete
    BY <1>6, FirstIs
  <2>2. s.st["bibliography"] = "succeeded" /\ s.st["feasibility"] # "succeeded"
    BY <1>3, <2>1 DEF Complete, InOrder
  <2>3. /\ run' \in RunType /\ run'.rec = s.rec /\ run'.generation = s.generation
        /\ run'.formal = s.formal /\ InOrder(run'.st)
        /\ run'.st["manuscript"] = "succeeded" /\ run'.st["bibliography"] = "succeeded"
        /\ run'.st["verification"] # "succeeded"
        /\ \/ pc' \in {"stating", "raising"} /\ run'.st["feasibility"] = "running"
           \/ pc' = "reporting"
    BY <1>3, <1>6, <2>2, FormalizeIs
  <2>4. s.st["manuscript"] = "succeeded"
    BY <1>3, <2>2 DEF InOrder
  <2>5. /\ run.st["manuscript"] = "succeeded" /\ run'.rec["manuscript"] = run.rec["manuscript"]
        /\ shelf' = shelf
    BY <1>3, <1>6, <2>3, <2>4, StageNames DEF manuscriptVars
  <2>6. RunOK' /\ Moved
    <3>1. run'.generation >= run.generation /\ IsFiniteSet(graph') /\ run'.formal = run.formal
      BY <1>1, <1>3, <1>6, <2>3
    <3> QED BY <2>3, <2>5, <3>1 DEF RunOK, Moved, Done
  <2>7. Places'
    BY <1>4, <2>3, <2>5 DEF Places, Done, Drafting, Round, Leaning, Proving
  <2> QED BY <2>6, <2>7 DEF Kept
<1> QED BY <1>2, <1>5, <1>6

LEMMA EndKeeps == TypesAndPlaces /\ (StageFails \/ Raise \/ Report \/ Crash) => Kept
<1> SUFFICES ASSUME TypesAndPlaces, StageFails \/ Raise \/ Report \/ Crash PROVE Kept
  OBVIOUS
<1>1. /\ run \in RunType /\ run.st \in [Stage -> Status] /\ run.generation \in Nat /\ IsFiniteSet(graph)
  BY TypedRun
<1>2. CASE StageFails
  <2>1. /\ run' = [run EXCEPT !.st = [x \in Stage |-> IF x \in Running THEN "failed" ELSE @[x]]]
        /\ pc' = "reporting" /\ UNCHANGED <<graph, shelf, lean>> /\ pc = "raising"
    BY <1>2 DEF StageFails, manuscriptVars, leanVars
  <2>2. /\ run' \in RunType /\ run'.rec = run.rec /\ run'.generation = run.generation
        /\ run'.formal = run.formal
        /\ run'.st = [x \in Stage |-> IF x \in Running THEN "failed" ELSE run.st[x]]
    BY <1>1, <2>1, StageFacts DEF RunType
  <2>3. \A x \in Stage : /\ run'.st[x] = "succeeded" <=> run.st[x] = "succeeded"
                         /\ run'.st[x] = "skipped" <=> run.st[x] = "skipped"
    BY <2>2 DEF Running
  <2>4. InOrder(run.st) /\ (Done("manuscript") => run.rec["manuscript"] = shelf.result.paper)
    BY DEF TypesAndPlaces, Places
  <2>5. InOrder(run'.st)
    BY <2>3, <2>4, StageNames DEF InOrder
  <2>6. RunOK' /\ Moved
    <3>1. run'.generation >= run.generation
      BY <1>1, <2>2
    <3>2. /\ Done("manuscript")' <=> Done("manuscript")
          /\ Done("bibliography")' <=> Done("bibliography")
          /\ Done("verification")' <=> Done("verification")
      BY <2>3, StageNames DEF Done
    <3>3. RunOK'
      BY <1>1, <2>1, <2>2 DEF RunOK
    <3>4. run'.rec["manuscript"] = run.rec["manuscript"]
      BY <2>2
    <3> QED BY <2>2, <2>5, <3>1, <3>2, <3>3, <3>4 DEF Moved
  <2>7. Places'
    BY <2>1, <2>2, <2>3, <2>4, <2>5, StageNames DEF Places, Done, Drafting, Round, Leaning, Proving
  <2> QED BY <2>6, <2>7 DEF Kept
<1>3. CASE Raise \/ Report \/ Crash
  <2>1. /\ UNCHANGED <<run, shelf>> /\ pc' \in {"raising", "off"} /\ IsFiniteSet(graph')
        /\ Done("verification") => pc' = "off"
    <3>1. CASE Raise
      BY <1>1, <3>1 DEF Raise, manuscriptVars, Awaits, TypesAndPlaces, Places
    <3>2. CASE Report
      <4>1. IsFiniteSet(graph')
        BY <1>1, <3>2, NextRevision DEF Report
      <4> QED BY <3>2, <4>1 DEF Report
    <3>3. CASE Crash
      BY <1>1, <3>3 DEF Crash
    <3> QED BY <1>3, <3>1, <3>2, <3>3
  <2>2. RunOK'
    BY <1>1, <2>1 DEF RunOK
  <2>3. Places'
    BY <2>1 DEF TypesAndPlaces, Places, Done, InOrder, Drafting, Round, Leaning, Proving
  <2> QED BY <2>1, <2>2, <2>3, UnmovedIs DEF Kept
<1> QED BY <1>2, <1>3

LEMMA RunKeeps == TypesAndPlaces /\ [Next]_lateVars => Kept
<1> SUFFICES ASSUME TypesAndPlaces, [Next]_lateVars PROVE Kept
  OBVIOUS
<1>1. CASE ManuscriptNext /\ UNCHANGED leanVars
  BY <1>1, DraftingKeeps, RecordDraftKeeps, CloseDraftKeeps DEF ManuscriptNext
<1>2. CASE LeanNext /\ UNCHANGED manuscriptVars
  BY <1>2, ProvingKeeps, NoteLeanKeeps, RecordLeanKeeps, SettleLeanKeeps DEF LeanNext
<1>3. CASE GoOn \/ StageFails \/ Raise \/ Report \/ Crash
  BY <1>3, GoOnKeeps, EndKeeps
<1>4. CASE Resume \/ ForceStage
  BY <1>4, CommandKeeps
<1>5. CASE UNCHANGED lateVars
  <2>1. RunOK' /\ Places'
    BY <1>5 DEF lateVars, manuscriptVars, leanVars, TypesAndPlaces, RunOK, Places, Done, InOrder
  <2> QED BY <1>5, <2>1, UnmovedIs DEF Kept, lateVars
<1> QED BY <1>1, <1>2, <1>3, <1>4, <1>5, Steps DEF Elsewhere

LEMMA NoTaskIs == NoTask \in TaskType
BY DEF NoTask, NoQuestion, NoAnswer, TaskType, QuestionType, AnswerType, Classes, Words

LEMMA TypedLean ==
    TypesAndPlaces =>
        /\ tree \in TreeType /\ tree.statement \in Words /\ tree.text \in Texts
        /\ tree.scratch \in BOOLEAN
        /\ records \in Seq(RecordType) /\ lean \in LeanType
        /\ stated.question \in QuestionType /\ stated.answer \in AnswerType
        /\ task \in TaskType /\ task.question \in QuestionType /\ task.answer \in AnswerType
        /\ task.answer.statement \in Words /\ task.question.paper \in Nat
        /\ task.limit \in Nat /\ task.at \in Nat \ {0} /\ task.idle \in Nat
        /\ task.progress \in BOOLEAN /\ task.again \in BOOLEAN /\ task.passed \in BOOLEAN
BY DEF TypesAndPlaces, LeanOK, TreeType, TaskType, QuestionType, AnswerType

LEMMA ConcludedIs ==
    ASSUME TypesAndPlaces, NEW outcome \in Outcomes, Concluded(outcome)
    PROVE  /\ lean' \in LeanType /\ lean'.outcome = outcome /\ lean'.statement = task.answer.statement
           /\ lean'.paper = task.question.paper /\ pc' = "noting lean"
BY TypedLean DEF Concluded, LeanType

LEMMA AdvancedIs ==
    ASSUME NEW t \in TaskType
    PROVE  /\ Advanced(t) \in TaskType /\ Advanced(t).at = t.at + 1
           /\ Advanced(t).question = t.question /\ Advanced(t).answer = t.answer
           /\ Advanced(t).limit = t.limit /\ Advanced(t).refused = t.refused
           /\ Advanced(t).again = t.again
<1>1. t.at + 1 \in Nat \ {0}
  BY DEF TaskType
<1> DEFINE n == t.at + 1
<1>2. Advanced(t) = [t EXCEPT !.at = n] /\ n \in Nat \ {0}
  BY <1>1 DEF Advanced
<1> HIDE DEF n
<1>3. /\ Advanced(t) \in TaskType /\ Advanced(t).at = n
      /\ Advanced(t).question = t.question /\ Advanced(t).answer = t.answer
      /\ Advanced(t).limit = t.limit /\ Advanced(t).refused = t.refused
      /\ Advanced(t).again = t.again
  BY <1>2 DEF TaskType
<1> QED BY <1>3 DEF n

\* What the next record says, and what a record checked again says.
NewRecord == [statement |-> task.answer.statement, passed |-> task.passed,
              progress |-> task.progress, tree |-> tree, made |-> task.question]

LEMMA RecordedIs ==
    TypesAndPlaces =>
        /\ records \in Seq(RecordType) /\ Recorded \in Seq(RecordType)
        /\ NewRecord \in RecordType
        /\ ~task.again =>
              /\ Len(Recorded) = Len(records) + 1 /\ Recorded[Len(records) + 1] = NewRecord
              /\ \A i \in DOMAIN records : Recorded[i] = records[i]
        /\ task.again =>
              /\ Len(Recorded) = Len(records)
              /\ \A i \in DOMAIN records :
                    /\ Recorded[i].statement = records[i].statement
                    /\ Recorded[i].made = records[i].made
                    /\ i # task.at => Recorded[i] = records[i]
                    /\ i = task.at => Recorded[i].tree = tree /\ Recorded[i].passed = task.passed
<1> SUFFICES ASSUME TypesAndPlaces
             PROVE  /\ records \in Seq(RecordType) /\ Recorded \in Seq(RecordType)
                    /\ NewRecord \in RecordType
                    /\ ~task.again =>
                          /\ Len(Recorded) = Len(records) + 1 /\ Recorded[Len(records) + 1] = NewRecord
                          /\ \A i \in DOMAIN records : Recorded[i] = records[i]
                    /\ task.again =>
                          /\ Len(Recorded) = Len(records)
                          /\ \A i \in DOMAIN records :
                                /\ Recorded[i].statement = records[i].statement
                                /\ Recorded[i].made = records[i].made
                                /\ i # task.at => Recorded[i] = records[i]
                                /\ i = task.at => Recorded[i].tree = tree /\ Recorded[i].passed = task.passed
  OBVIOUS
<1>1. /\ records \in Seq(RecordType) /\ tree \in TreeType /\ task.passed \in BOOLEAN
      /\ task.answer.statement \in Words /\ task.progress \in BOOLEAN
      /\ task.question \in QuestionType /\ task.again \in BOOLEAN
  BY TypedLean
<1>2. NewRecord \in RecordType
  BY <1>1 DEF NewRecord, RecordType
<1>3. CASE ~task.again
  <2>1. Recorded = Append(records, NewRecord)
    BY <1>3 DEF Recorded, NewRecord
  <2> QED BY <1>1, <1>2, <1>3, <2>1
<1>4. CASE task.again
  <2>1. Recorded = [records EXCEPT ![task.at] = [records[task.at] EXCEPT !.passed = task.passed, !.tree = tree]]
    BY <1>4 DEF Recorded
  <2> DEFINE r == [records[task.at] EXCEPT !.passed = task.passed, !.tree = tree]
  <2>2. ASSUME task.at \in DOMAIN records
        PROVE  /\ r \in RecordType /\ r.statement = records[task.at].statement
               /\ r.made = records[task.at].made /\ r.tree = tree /\ r.passed = task.passed
    <3>1. records[task.at] \in RecordType
      BY <1>1, <2>2
    <3> QED BY <1>1, <3>1 DEF RecordType
  <2>3. Recorded = [records EXCEPT ![task.at] = r]
    BY <2>1
  <2> HIDE DEF r
  <2>4. Recorded \in Seq(RecordType) /\ Len(Recorded) = Len(records) /\ DOMAIN Recorded = DOMAIN records
    <3> DEFINE n == Len(records)
    <3>1. n \in Nat /\ DOMAIN records = 1..n /\ records \in [1..n -> RecordType]
      BY <1>1
    <3> HIDE DEF n
    <3>2. Recorded \in [1..n -> RecordType]
      BY <2>2, <2>3, <3>1
    <3>3. Recorded \in Seq(RecordType) /\ Len(Recorded) = n
      BY <3>1, <3>2, LenProperties, SeqDef
    <3> QED BY <3>1, <3>2, <3>3 DEF n
  <2>5. \A i \in DOMAIN records : Recorded[i] = IF i = task.at THEN r ELSE records[i]
    BY <1>1, <2>3
  <2> QED BY <1>1, <1>2, <1>4, <2>2, <2>4, <2>5
<1> QED BY <1>1, <1>3, <1>4

LEMMA StatementKeeps == TypesAndPlaces /\ (State \/ Place) => LeanOK'
<1> SUFFICES ASSUME TypesAndPlaces, State \/ Place PROVE LeanOK'
  OBVIOUS
<1>1. /\ tree \in TreeType /\ records \in Seq(RecordType) /\ lean \in LeanType
      /\ stated \in [question : QuestionType, answer : AnswerType] /\ task \in TaskType
      /\ task.question \in QuestionType /\ task.answer.statement \in Words
  BY TypedLean DEF TypesAndPlaces, LeanOK
<1>2. CASE State
  <2>1. PICK answer \in Answers : task' = [task EXCEPT !.answer = answer] /\ stated' = Filed(answer)
    BY <1>2 DEF State
  <2>2. answer \in AnswerType
    BY <2>1 DEF Answers, AnswerType, Classes, Words
  <2>3. task' \in TaskType /\ stated' \in [question : QuestionType, answer : AnswerType]
    BY <1>1, <2>1, <2>2 DEF TaskType, Filed
  <2> QED BY <1>1, <1>2, <2>3 DEF State, LeanOK
<1>3. CASE Place
  <2>1. tree' \in TreeType
    <3>1. Placed(task.answer.statement) \in TreeType
      BY <1>1 DEF Placed, TreeType, Texts
    <3> QED BY <1>1, <1>3, <3>1 DEF Place
  <2>2. lean' \in LeanType
    <3>1. (\E outcome \in Outcomes : Concluded(outcome)) \/ UNCHANGED lean
      BY <1>3 DEF Place, Outcomes
    <3> QED BY <1>1, <3>1, ConcludedIs
  <2> QED BY <1>1, <1>3, <2>1, <2>2 DEF Place, LeanOK
<1> QED BY <1>2, <1>3

LEMMA ReadKeeps == TypesAndPlaces /\ Read => LeanOK'
<1> SUFFICES ASSUME TypesAndPlaces, Read PROVE LeanOK'
  OBVIOUS
<1>1. /\ tree \in TreeType /\ records \in Seq(RecordType) /\ lean \in LeanType
      /\ stated \in [question : QuestionType, answer : AnswerType] /\ task \in TaskType
      /\ task.idle \in Nat /\ task.at \in Nat
  BY TypedLean DEF TypesAndPlaces, LeanOK
<1>2. UNCHANGED <<tree, records, stated>>
  BY DEF Read
<1> DEFINE n == IdleAfter(records[task.at].progress)
           t == [task EXCEPT !.idle = n]
<1>3. n \in Nat
  BY <1>1 DEF IdleAfter
<1>4. /\ \/ task' = [task EXCEPT !.refused = TRUE] \/ task' = [t EXCEPT !.again = TRUE]
         \/ task' = t \/ task' = Advanced(t)
      /\ (\E outcome \in Outcomes : Concluded(outcome)) \/ UNCHANGED lean
  BY DEF Read, Outcomes
<1> HIDE DEF n
<1>5. t \in TaskType
  BY <1>1, <1>3 DEF TaskType
<1>6. /\ [task EXCEPT !.refused = TRUE] \in TaskType
      /\ [t EXCEPT !.again = TRUE] \in TaskType /\ Advanced(t) \in TaskType
  BY <1>1, <1>5, AdvancedIs DEF TaskType
<1>7. task' \in TaskType
  BY <1>4, <1>5, <1>6
<1>8. lean' \in LeanType
  BY <1>1, <1>4, ConcludedIs
<1> QED BY <1>1, <1>2, <1>7, <1>8 DEF LeanOK

LEMMA IterationKeeps ==
    TypesAndPlaces /\ (AskCodex \/ Codex \/ CheckBuild \/ CheckAxioms \/ RecordIteration \/ Exhausted)
        => LeanOK'
<1> SUFFICES ASSUME TypesAndPlaces,
                    AskCodex \/ Codex \/ CheckBuild \/ CheckAxioms \/ RecordIteration \/ Exhausted
             PROVE  LeanOK'
  OBVIOUS
<1>1. /\ tree \in TreeType /\ records \in Seq(RecordType) /\ lean \in LeanType
      /\ stated \in [question : QuestionType, answer : AnswerType] /\ task \in TaskType
      /\ task.answer.statement \in Words /\ task.idle \in Nat
  BY TypedLean DEF TypesAndPlaces, LeanOK
<1>2. CASE AskCodex
  <2>1. task' \in TaskType
    BY <1>1, <1>2 DEF AskCodex, TaskType
  <2> QED BY <1>1, <1>2, <2>1 DEF AskCodex, LeanOK
<1>3. CASE Codex
  <2>1. PICK text \in Texts \ {"none"}, statement \in {task.answer.statement, "changed"} :
            tree' = [tree EXCEPT !.text = text, !.statement = statement]
    BY <1>3 DEF Codex
  <2>2. statement \in Words
    BY <1>1 DEF Words
  <2>3. tree' \in TreeType
    BY <1>1, <2>1, <2>2 DEF TreeType
  <2>4. PICK b \in BOOLEAN : b = (tree' # tree)
    OBVIOUS
  <2> DEFINE n == IdleAfter(b)
  <2>5. n \in Nat
    BY <1>1 DEF IdleAfter
  <2>6. task' = [task EXCEPT !.progress = b, !.idle = n]
    BY <1>3, <2>4 DEF Codex
  <2> HIDE DEF n
  <2>7. task' \in TaskType
    BY <1>1, <2>4, <2>5, <2>6 DEF TaskType
  <2> QED BY <1>1, <1>3, <2>3, <2>7 DEF Codex, LeanOK
<1>4. CASE CheckBuild \/ CheckAxioms
  <2>1. (\E b \in BOOLEAN : tree' = [tree EXCEPT !.scratch = b])
        /\ \E b \in BOOLEAN : task' = [task EXCEPT !.passed = b]
    <3>1. CASE CheckBuild
      BY <3>1 DEF CheckBuild
    <3>2. CASE CheckAxioms
      <4>1. \E b \in BOOLEAN : task' = [task EXCEPT !.passed = b]
        <5>1. PICK answered \in BOOLEAN : task' = [task EXCEPT !.passed = answered /\ Proved]
          BY <3>2 DEF CheckAxioms
        <5>2. PICK b \in BOOLEAN : b = (answered /\ Proved)
          BY DEF Proved
        <5> QED BY <5>1, <5>2
      <4> QED BY <3>2, <4>1 DEF CheckAxioms
    <3> QED BY <1>4, <3>1, <3>2
  <2>2. tree' \in TreeType /\ task' \in TaskType
    BY <1>1, <2>1 DEF TreeType, TaskType
  <2> QED BY <1>1, <1>4, <2>2 DEF CheckBuild, CheckAxioms, LeanOK
<1>5. CASE RecordIteration \/ Exhausted
  <2>1. /\ (\E outcome \in Outcomes : Concluded(outcome)) \/ UNCHANGED lean
        /\ records' = Recorded \/ UNCHANGED records
        /\ task' = Advanced(task) \/ UNCHANGED task
        /\ UNCHANGED <<tree, stated>>
    BY <1>5 DEF RecordIteration, Exhausted, Outcomes
  <2>2. records' \in Seq(RecordType) /\ task' \in TaskType /\ lean' \in LeanType
    BY <1>1, <2>1, RecordedIs, AdvancedIs, ConcludedIs
  <2> QED BY <1>1, <2>1, <2>2 DEF LeanOK
<1> QED BY <1>2, <1>3, <1>4, <1>5

LEMMA BeginLeanIs ==
    ASSUME TypesAndPlaces, NEW s \in RunType, BeginLean(s)
    PROVE  /\ task' \in TaskType /\ task'.at = 1 /\ ~task'.refused /\ ~task'.again
           /\ task'.question = [paper |-> shelf.result.paper, revision |-> Revision,
                                generation |-> s.generation]
           /\ UNCHANGED <<tree, records, lean, stated>>
<1>1. PICK limit \in Limits :
          task' = [NoTask EXCEPT !.limit = limit,
                                 !.question = [paper |-> shelf.result.paper, revision |-> Revision,
                                               generation |-> s.generation]]
  BY DEF BeginLean
<1>2. limit \in Nat /\ Revision \in Nat /\ shelf.result.paper \in Nat /\ s.generation \in Nat
  BY LeanAssumption, TypedRun, FS_CardinalityType DEF Revision, RunType
<1> DEFINE q == [paper |-> shelf.result.paper, revision |-> Revision, generation |-> s.generation]
<1>3. q \in QuestionType /\ task' = [NoTask EXCEPT !.limit = limit, !.question = q]
  BY <1>1, <1>2 DEF QuestionType
<1> HIDE DEF q
<1>4. task' \in TaskType /\ task'.question = q
  BY <1>2, <1>3, NoTaskIs DEF TaskType
<1>5. task'.at = 1 /\ task'.refused = FALSE /\ task'.again = FALSE
  BY <1>3 DEF NoTask
<1> QED BY <1>4, <1>5 DEF BeginLean, q

LEMMA LeanKeeps == TypesAndPlaces /\ [Next]_lateVars => LeanOK'
<1> SUFFICES ASSUME TypesAndPlaces, [Next]_lateVars PROVE LeanOK'
  OBVIOUS
<1>1. /\ LeanOK /\ tree \in TreeType /\ records \in Seq(RecordType) /\ lean \in LeanType
      /\ stated \in [question : QuestionType, answer : AnswerType] /\ task \in TaskType
  BY DEF TypesAndPlaces, LeanOK
<1>2. ASSUME UNCHANGED leanVars PROVE LeanOK'
  BY <1>1, <1>2 DEF LeanOK, leanVars
<1>3. ASSUME NEW s \in RunType, Formalize(s) PROVE LeanOK'
  <2>1. CASE BeginLean(s)
    BY <1>1, <1>3, <2>1, BeginLeanIs DEF LeanOK
  <2>2. CASE SkipLean(s)
    BY <1>2, <2>2 DEF SkipLean
  <2> QED BY <1>3, <2>1, <2>2 DEF Formalize
<1>4. CASE LeanNext
  <2>1. CASE NoteLean \/ RecordLean \/ SettleLean
    BY <1>2, <2>1 DEF NoteLean, RecordLean, SettleLean, leanVars
  <2> QED BY <1>4, <2>1, StatementKeeps, ReadKeeps, IterationKeeps DEF LeanNext
<1>5. CASE GoOn
  BY <1>3, <1>5, TypedRun DEF GoOn
<1>6. CASE StageFails
  BY <1>2, <1>6 DEF StageFails
<1>7. CASE Raise
  <2>1. tree' \in TreeType
    BY <1>1, <1>7 DEF Raise, Cleaned, TreeType
  <2> QED BY <1>1, <1>7, <2>1 DEF Raise, LeanOK
<1>8. CASE Report \/ Crash
  <2>1. CASE Report
    BY <1>1, <2>1, NoTaskIs DEF Report, LeanOK
  <2>2. CASE Crash
    <3>1. tree' \in TreeType
      BY <1>1, <2>2 DEF Crash, Cleaned, TreeType
    <3> QED BY <1>1, <2>2, <3>1, NoTaskIs DEF Crash, LeanOK
  <2> QED BY <1>8, <2>1, <2>2
<1>9. CASE Resume \/ ForceStage
  <2>1. PICK s : Entry(s) /\ (UNCHANGED leanVars \/ Formalize(s))
    BY <1>9, CommandIs
  <2> QED BY <1>2, <1>3, <2>1 DEF Entry
<1>10. CASE UNCHANGED lateVars
  BY <1>2, <1>10 DEF lateVars
<1> QED BY <1>2, <1>4, <1>5, <1>6, <1>7, <1>8, <1>9, <1>10, Steps DEF Elsewhere

\* The runs start typed and in place, and stay so.
LEMMA InPlace == Spec => []TypesAndPlaces
<1>1. Init => TypesAndPlaces
  <2> SUFFICES ASSUME Init PROVE TypesAndPlaces
    OBVIOUS
  <2>1. PICK formal \in BOOLEAN :
            run = [st |-> [Pending EXCEPT !["manuscript"] = "running"],
                   rec |-> [x \in Stage |-> 0], correct |-> FALSE, generation |-> 0,
                   formal |-> formal]
    BY DEF Init
  <2>2. /\ [Pending EXCEPT !["manuscript"] = "running"] \in [Stage -> Status]
        /\ [Pending EXCEPT !["manuscript"] = "running"]["manuscript"] = "running"
        /\ \A x \in {"bibliography", "feasibility", "verification"} :
              [Pending EXCEPT !["manuscript"] = "running"][x] = "pending"
    BY StageFacts, StageNames, Positions DEF Pending
  <2>3. run \in RunType /\ graph = {} /\ pc = "writing"
    BY <2>1, <2>2 DEF RunType, Init
  <2>4. RunOK
    BY <2>3, FS_EmptySet DEF RunOK
  <2>5. Places
    BY <2>1, <2>2, <2>3 DEF Places, InOrder, Done, Drafting, Round, Leaning, Proving
  <2>6. ManuscriptOK
    <3>1. /\ papers = <<>> /\ written = <<>> /\ work = Idle
          /\ shelf = [tex |-> 0, pdf |-> 0, copies |-> <<>>, result |-> NoResult]
      BY DEF Init, ManuscriptInit
    <3>2. <<>> \in [{} -> Nat] /\ DOMAIN <<>> = {}
      OBVIOUS
    <3>3. <<>> \in Copies
      BY <3>2 DEF Copies
    <3>4. NoResult \in ResultType
      BY DEF NoResult, ResultType, NoPlan, PlanType, Gates, Builds
    <3>5. shelf \in ShelfType
      BY <3>1, <3>3, <3>4 DEF ShelfType
    <3>6. work \in WorkType /\ DOMAIN work.drafts = {}
      BY <3>1, <3>2, IdleIs
    <3> QED BY <2>3, <3>1, <3>2, <3>5, <3>6 DEF ManuscriptOK, DraftsOK
  <2>7. LeanOK
    BY NoTaskIs DEF Init, LeanInit, LeanOK, TreeType, Texts, Words, LeanType, NoLean, NoQuestion,
       NoAnswer, QuestionType, AnswerType, Classes
  <2> QED BY <2>4, <2>5, <2>6, <2>7 DEF TypesAndPlaces
<1>2. TypesAndPlaces /\ [Next]_lateVars => TypesAndPlaces'
  BY RunKeeps, ManuscriptKeeps, LeanKeeps DEF Kept, TypesAndPlaces
<1> QED BY <1>1, <1>2, PTL DEF Spec

(* ---- what is published ------------------------------------------------------ *)
AsBuilt ==
    /\ shelf.tex = shelf.result.paper /\ shelf.result.paper # 0
    /\ shelf.result.plan.build = "passed" => shelf.pdf = shelf.tex

\* The PDF of a draft that built lies in the directory of its round.
CopyOf(d) == d.build = "passed" => d.cycle \in DOMAIN shelf.copies /\ shelf.copies[d.cycle] = d.paper

Copied == \A i \in DOMAIN work.drafts : CopyOf(work.drafts[i])

Built ==
    /\ Copied
    /\ pc = "filing" => /\ shelf.tex = Best.paper
                        /\ Best.build = "passed" => shelf.pdf = Best.paper
    /\ pc \in {"noting", "recording draft"} \/ Done("manuscript") => AsBuilt
    /\ pc = "noting" /\ shelf.result.hard = "integrity" =>
           \A i \in DOMAIN work.drafts : Hard(work.drafts[i])

LEMMA SameBest == UNCHANGED <<work, papers>> => Best' = Best /\ \A d : Hard(d)' <=> Hard(d)
<1>1. UNCHANGED <<work, papers>> => Best' = Best
  BY DEF Best, Score, Count
<1>2. UNCHANGED <<work, papers>> => \A d : Hard(d)' <=> Hard(d)
  BY DEF Hard
<1> QED BY <1>1, <1>2

LEMMA BuildBuilt == TypesAndPlaces /\ Built /\ Build => Copied'
<1> SUFFICES ASSUME TypesAndPlaces, Built, Build, NEW i \in DOMAIN work'.drafts,
                    work'.drafts[i].build = "passed"
             PROVE  /\ work'.drafts[i].cycle \in DOMAIN shelf'.copies
                    /\ shelf'.copies[work'.drafts[i].cycle] = work'.drafts[i].paper
  BY DEF Copied, CopyOf
<1>1. /\ shelf \in ShelfType /\ shelf.copies \in Copies /\ work.drafts \in Seq(DraftType)
      /\ work.cycle \in Nat /\ work.paper \in Nat /\ work \in WorkType
      /\ pc = "building" /\ DraftsOK
  BY DEF TypesAndPlaces, ManuscriptOK, WorkType, ShelfType, Build
<1>2. PICK build \in BuildsOf(work.paper) :
          LET draft == [cycle |-> work.cycle, paper |-> work.paper, gate |-> work.gate,
                        build |-> build]
              kept  == [work EXCEPT !.drafts = Append(@, draft)]
          IN /\ shelf' = Compiled(build)
             /\ IF Final(draft)
                THEN work' = kept /\ pc' = "selecting"
                ELSE /\ work' = [kept EXCEPT !.cycle = @ + 1, !.after = work.paper,
                                             !.plan = [gate |-> work.gate, build |-> build,
                                                       broken |-> FALSE]]
                     /\ pc' = "writing"
  BY DEF Build
<1> DEFINE draft == [cycle |-> work.cycle, paper |-> work.paper, gate |-> work.gate,
                     build |-> build]
           drafts == Append(work.drafts, draft)
<1>3. work'.drafts = drafts
  BY <1>1, <1>2 DEF WorkType
<1>4. /\ DOMAIN drafts = 1..(Len(work.drafts) + 1) /\ drafts[Len(work.drafts) + 1] = draft
      /\ \A j \in DOMAIN work.drafts : drafts[j] = work.drafts[j]
      /\ DOMAIN work.drafts = 1..Len(work.drafts) /\ Len(work.drafts) \in Nat
  BY <1>1
<1>5. i = Len(work.drafts) + 1 \/ i \in DOMAIN work.drafts
  BY <1>3, <1>4
<1>6. /\ draft.cycle = work.cycle /\ draft.paper = work.paper /\ draft.build = build
      /\ shelf' = Compiled(build)
  BY <1>2
<1> HIDE DEF draft, drafts
<1>7. /\ work.cycle \in DOMAIN WithKey(shelf.copies, work.cycle, work.paper)
      /\ WithKey(shelf.copies, work.cycle, work.paper)[work.cycle] = work.paper
      /\ \A x \in DOMAIN shelf.copies \ {work.cycle} :
             /\ x \in DOMAIN WithKey(shelf.copies, work.cycle, work.paper)
             /\ WithKey(shelf.copies, work.cycle, work.paper)[x] = shelf.copies[x]
  BY DEF WithKey
<1>8. \/ shelf'.copies = shelf.copies /\ build # "passed"
      \/ shelf'.copies = WithKey(shelf.copies, work.cycle, work.paper)
  BY <1>1, <1>6 DEF Compiled, ShelfType
<1>9. CASE i = Len(work.drafts) + 1
  <2>1. work'.drafts[i] = draft
    BY <1>3, <1>4, <1>9
  <2>2. work'.drafts[i].build = "passed"
    OBVIOUS
  <2> QED BY <1>6, <1>7, <1>8, <2>1, <2>2
<1>10. CASE i \in DOMAIN work.drafts
  <2>1. work'.drafts[i] = work.drafts[i]
    BY <1>3, <1>4, <1>10
  <2>2. work.drafts[i].cycle # work.cycle
    <3>1. work.drafts[i] \in DraftType /\ work.drafts[i].cycle < work.cycle
      BY <1>1, <1>10 DEF DraftsOK, Round
    <3> QED BY <1>1, <3>1 DEF DraftType
  <2>3. work.drafts[i].build = "passed" =>
            /\ work.drafts[i].cycle \in DOMAIN shelf.copies
            /\ shelf.copies[work.drafts[i].cycle] = work.drafts[i].paper
    BY <1>10 DEF Built, Copied, CopyOf
  <2>4. work'.drafts[i].build = "passed"
    OBVIOUS
  <2> QED BY <1>7, <1>8, <2>1, <2>2, <2>3, <2>4
<1> QED BY <1>5, <1>9, <1>10

LEMMA BuiltKeeps == TypesAndPlaces /\ Built /\ [Next]_lateVars => Built'
<1> SUFFICES ASSUME TypesAndPlaces, Built, [Next]_lateVars PROVE Built'
  OBVIOUS
<1>1. Done("manuscript")' => Done("manuscript") \/ pc = "recording draft"
  BY RunKeeps DEF Kept, Moved
<1>2. ASSUME pc \in Drafting PROVE ~Done("manuscript")
  BY <1>2 DEF TypesAndPlaces, Places, Done
<1>3. shelf \in ShelfType /\ shelf.result \in ResultType /\ work \in WorkType
  BY DEF TypesAndPlaces, ManuscriptOK, ShelfType
<1>4. ASSUME UNCHANGED shelf, work'.drafts = <<>> \/ UNCHANGED work,
             pc' \notin {"filing", "noting"},
             pc' = "recording draft" => pc \in {"noting", "recording draft"}
      PROVE  Built'
  <2>1. DOMAIN <<>> = {}
    OBVIOUS
  <2>2. Copied'
    <3>1. CASE work'.drafts = <<>>
      BY <2>1, <3>1 DEF Copied
    <3>2. CASE UNCHANGED work
      BY <1>4, <3>2 DEF Built, Copied, CopyOf
    <3> QED BY <1>4, <3>1, <3>2
  <2>3. pc' = "recording draft" \/ Done("manuscript")' => AsBuilt'
    BY <1>1, <1>4 DEF Built, AsBuilt
  <2> QED BY <1>4, <2>2, <2>3 DEF Built
<1>5. CASE (Write \/ WriterFails \/ Audit)
  <2>1. /\ pc \in Drafting \ {"recording draft"} /\ pc' \in {"auditing", "selecting", "building"}
        /\ work'.drafts = work.drafts /\ shelf'.copies = shelf.copies
    <3>1. CASE Write
      BY <1>3, <3>1 DEF Write, Drafted, WorkType, ShelfType, Drafting, Round
    <3>2. CASE WriterFails \/ Audit
      BY <1>3, <3>2 DEF WriterFails, Audit, WorkType, Drafting, Round
    <3> QED BY <1>5, <3>1, <3>2
  <2>2. ~Done("manuscript")'
    BY <1>1, <1>2, <2>1
  <2> QED BY <2>1, <2>2 DEF Built, Copied, CopyOf
<1>6. CASE Build
  <2>1. pc \in Drafting \ {"recording draft"} /\ pc' \in {"selecting", "writing"}
    BY <1>6 DEF Build, Drafting, Round
  <2>2. ~Done("manuscript")'
    BY <1>1, <1>2, <2>1
  <2> QED BY <1>6, <2>1, <2>2, BuildBuilt DEF Built
<1>7. CASE Publish
  <2>1. /\ pc = "selecting" /\ pc' = "filing" /\ shelf' = Selected /\ UNCHANGED <<papers, work>>
        /\ work.drafts # <<>>
    BY <1>7 DEF Publish, TypesAndPlaces, ManuscriptOK
  <2>2. ~Done("manuscript")'
    BY <1>1, <1>2, <2>1 DEF Drafting
  <2>3. PICK i \in DOMAIN work.drafts : Best = work.drafts[i]
    BY <2>1, BestHere DEF TypesAndPlaces
  <2>4. CopyOf(Best)
    BY <2>3 DEF Built, Copied
  <2>5. /\ shelf'.copies = shelf.copies /\ shelf'.tex = Best.paper
        /\ Best.build = "passed" => shelf'.pdf = Best.paper
    BY <2>1, <2>4, SelectedIs DEF TypesAndPlaces, CopyOf
  <2>6. Best' = Best
    BY <2>1, SameBest
  <2> QED BY <2>1, <2>2, <2>5, <2>6 DEF Built, Copied, CopyOf
<1>8. CASE File
  <2>1. /\ pc = "filing" /\ pc' = "noting" /\ UNCHANGED <<papers, work>> /\ work.drafts # <<>>
    BY <1>8 DEF File, TypesAndPlaces, ManuscriptOK
  <2> DEFINE result == [paper |-> Best.paper, cycle |-> work.cycle, hard |-> Blocked(Best),
                        plan |-> [gate |-> Best.gate, build |-> Best.build, broken |-> work.broken]]
  <2>2. shelf' = [shelf EXCEPT !.result = result]
    BY <1>8 DEF File
  <2>3. result.paper = Best.paper /\ result.plan.build = Best.build /\ result.hard = Blocked(Best)
    OBVIOUS
  <2> HIDE DEF result
  <2>4. shelf'.result = result /\ shelf'.tex = shelf.tex /\ shelf'.pdf = shelf.pdf
        /\ shelf'.copies = shelf.copies
    BY <1>3, <2>2 DEF ShelfType
  <2>5. AsBuilt'
    <3>1. Best.paper \in Nat \ {0}
      BY <2>1, BestHere DEF TypesAndPlaces, DraftType
    <3> QED BY <2>1, <2>3, <2>4, <3>1 DEF Built, AsBuilt
  <2>6. shelf'.result.hard = "integrity" => \A i \in DOMAIN work.drafts : Hard(work.drafts[i])
    BY <2>1, <2>3, <2>4, BestHere DEF Blocked, TypesAndPlaces
  <2>7. Copied'
    BY <2>1, <2>4 DEF Built, Copied, CopyOf
  <2> QED BY <2>1, <2>5, <2>6, <2>7, SameBest DEF Built
<1>9. CASE NoteDraft \/ RecordDraft \/ CloseDraft
  BY <1>4, <1>9, IdleIs DEF NoteDraft, RecordDraft, CloseDraft, Forgotten
<1>10. CASE ManuscriptNext
  BY <1>5, <1>6, <1>7, <1>8, <1>9, <1>10 DEF ManuscriptNext
<1>11. CASE Elsewhere
  <2>1. UNCHANGED <<shelf, work>> /\ pc' \notin {"filing", "noting", "recording draft"}
    BY <1>11, ElsewhereIs DEF manuscriptVars, Leaning, Proving
  <2> QED BY <1>4, <2>1
<1>12. CASE Report \/ Crash
  BY <1>4, <1>12, IdleIs DEF Report, Crash
<1>13. CASE Resume \/ ForceStage
  <2>1. PICK s : /\ Entry(s)
                 /\ \/ BeginManuscript(s)
                    \/ Formalize(s) /\ UNCHANGED <<graph, manuscriptVars>>
    BY <1>13, CommandIs
  <2>2. CASE BeginManuscript(s)
    <3>1. Attempt(s).drafts = <<>>
      BY <2>1, AttemptIs DEF Entry, TypesAndPlaces
    <3> QED BY <1>4, <2>2, <3>1 DEF BeginManuscript
  <2>3. CASE Formalize(s) /\ UNCHANGED <<graph, manuscriptVars>>
    <3>1. pc' \in {"raising", "stating", "reporting"} /\ UNCHANGED <<shelf, work>>
      BY <2>3 DEF Formalize, BeginLean, SkipLean, manuscriptVars
    <3> QED BY <1>4, <3>1
  <2> QED BY <2>1, <2>2, <2>3
<1>14. CASE UNCHANGED lateVars
  BY <1>14, SameBest DEF lateVars, manuscriptVars, Built, Copied, CopyOf, AsBuilt, Done
<1> QED BY <1>10, <1>11, <1>12, <1>13, <1>14, Steps

LEMMA InitDone == Init => /\ ~Done("manuscript") /\ ~Done("bibliography")
                         /\ ~Done("verification") /\ run.generation = 0
<1> SUFFICES ASSUME Init PROVE /\ ~Done("manuscript") /\ ~Done("bibliography")
                              /\ ~Done("verification") /\ run.generation = 0
  OBVIOUS
<1>1. \E formal \in BOOLEAN :
        run = [st |-> [Pending EXCEPT !["manuscript"] = "running"],
               rec |-> [x \in Stage |-> 0], correct |-> FALSE, generation |-> 0,
               formal |-> formal]
  BY DEF Init
<1>2. run.st = [Pending EXCEPT !["manuscript"] = "running"] /\ run.generation = 0
  BY <1>1
<1> QED BY <1>2, StageNames, Positions DEF Pending, Done

(* ---- what is called verified ------------------------------------------------ *)
\* Once the manuscript is done, its directory stays.
LEMMA ShelfStays == TypesAndPlaces /\ [Next]_lateVars /\ Done("manuscript") => UNCHANGED shelf
<1> SUFFICES ASSUME TypesAndPlaces, [Next]_lateVars, Done("manuscript") PROVE UNCHANGED shelf
  OBVIOUS
<1>1. pc \notin Drafting
  BY DEF TypesAndPlaces, Places, Done
<1>2. CASE ManuscriptNext
  BY <1>1, <1>2 DEF ManuscriptNext, Write, WriterFails, Audit, Build, Publish, File, NoteDraft,
     RecordDraft, CloseDraft, Drafting, Round
<1>3. CASE Elsewhere
  BY <1>3, ElsewhereIs DEF manuscriptVars
<1>4. CASE Report \/ Crash \/ UNCHANGED lateVars
  BY <1>4 DEF Report, Crash, lateVars, manuscriptVars
<1>5. CASE Resume \/ ForceStage
  BY <1>5, CommandIs DEF BeginManuscript, manuscriptVars
<1> QED BY <1>2, <1>3, <1>4, <1>5, Steps

ProofOnDisk == tree.text = "proof" /\ ~tree.scratch /\ tree.statement = lean.statement

Verified ==
    /\ pc = "judged" =>
          /\ ~tree.scratch
          /\ task.passed => tree.text = "proof" /\ tree.statement = task.answer.statement
    /\ pc \in Proving => task.question.paper = shelf.result.paper
    /\ pc \in {"noting lean", "recording lean", "settling"} =>
          /\ lean.paper = shelf.result.paper
          /\ lean.outcome = "verified" => ProofOnDisk
    /\ Done("verification") =>
          /\ ProofOnDisk /\ lean.outcome = "verified" /\ lean.paper = shelf.result.paper

\* No step of the Lean stage but the axiom check makes a verdict, and no sources
\* change between the verdict and its record.
LEMMA VerifiedInLean ==
    TypesAndPlaces /\ Verified /\ LeanNext /\ UNCHANGED manuscriptVars /\ Moved => Verified'
<1> SUFFICES ASSUME TypesAndPlaces, Verified, LeanNext, UNCHANGED manuscriptVars, Moved
             PROVE  Verified'
  OBVIOUS
<1>1. /\ tree \in TreeType /\ task \in TaskType /\ shelf' = shelf
      /\ tree.scratch \in BOOLEAN
  BY TypedLean DEF manuscriptVars
<1>2. Done("verification")' => Done("verification") \/ (pc = "settling" /\ lean.outcome = "verified")
  BY DEF Moved
<1>3. Done("verification") => pc \in {"reporting", "off"}
  BY DEF TypesAndPlaces, Places
<1>4. ASSUME pc \in Proving, pc' \in (Proving \ {"judged"}) \cup {"raising"},
             task'.question = task.question
      PROVE  Verified'
  <2>1. ~Done("verification")'
    BY <1>2, <1>3, <1>4 DEF Proving
  <2> QED BY <1>1, <1>4, <2>1 DEF Verified, Proving
<1>5. ASSUME pc \in Proving, NEW outcome \in Outcomes, Concluded(outcome),
             outcome = "verified" => ProofOnDisk'
      PROVE  Verified'
  <2>1. /\ lean'.outcome = outcome /\ lean'.paper = task.question.paper /\ pc' = "noting lean"
    BY <1>5, ConcludedIs
  <2>2. ~Done("verification")'
    BY <1>2, <1>3, <1>5 DEF Proving
  <2> QED BY <1>1, <1>5, <2>1, <2>2 DEF Verified, Proving
<1>6. CASE State \/ AskCodex
  <2>1. pc \in Proving /\ pc' \in Proving \ {"judged"} /\ task'.question = task.question
    BY <1>1, <1>6 DEF State, AskCodex, Proving, TaskType
  <2> QED BY <1>4, <2>1
<1>7. CASE Codex
  <2>1. pc \in Proving /\ pc' \in (Proving \ {"judged"}) \cup {"raising"} /\ task'.question = task.question
    <3>1. PICK b \in BOOLEAN : b = (tree' # tree)
      OBVIOUS
    <3>2. task' = [task EXCEPT !.progress = b, !.idle = IdleAfter(b)]
      BY <1>7, <3>1 DEF Codex
    <3>3. task'.question = task.question
      BY <1>1, <3>2 DEF TaskType
    <3> QED BY <1>7, <3>3 DEF Codex, Proving
  <2> QED BY <1>4, <2>1
<1>8. CASE Place
  <2>1. /\ pc \in Proving /\ UNCHANGED task
        /\ \/ pc' = "reading"
           \/ \E outcome \in Outcomes \ {"verified"} : Concluded(outcome)
    BY <1>8 DEF Place, Proving, Outcomes
  <2> QED BY <1>4, <1>5, <2>1 DEF Proving
<1>9. CASE Read
  <2>1. /\ pc \in Proving
        /\ \/ /\ pc' \in {"raising", "checking", "reading"}
              /\ task'.question = task.question
           \/ Concluded("unverified")
    <3> DEFINE n == IdleAfter(records[task.at].progress)
               t == [task EXCEPT !.idle = n]
    <3>1. /\ pc = "reading"
          /\ \/ task' = [task EXCEPT !.refused = TRUE] /\ pc' = "raising"
             \/ task' = [t EXCEPT !.again = TRUE] /\ pc' = "checking"
             \/ Concluded("unverified")
             \/ task' = Advanced(t) /\ pc' = "reading"
      BY <1>9 DEF Read
    <3>2. t.question = task.question /\ [t EXCEPT !.again = TRUE].question = task.question
          /\ Advanced(t).question = task.question /\ [task EXCEPT !.refused = TRUE].question = task.question
      BY <1>1 DEF Advanced, TaskType
    <3> QED BY <3>1, <3>2 DEF Proving
  <2> QED BY <1>4, <1>5, <2>1 DEF Proving, Outcomes
<1>10. CASE CheckBuild
  <2>1. PICK built \in BOOLEAN :
            /\ tree' = [tree EXCEPT !.scratch = built]
            /\ pc' = IF built THEN "asking axioms" ELSE "judged"
    BY <1>10 DEF CheckBuild
  <2>2. pc \in Proving /\ pc' \in Proving /\ task' = [task EXCEPT !.passed = FALSE]
    BY <1>10, <2>1 DEF CheckBuild, Proving
  <2>3. task'.question = task.question /\ ~task'.passed /\ tree'.scratch = built
    BY <1>1, <2>1, <2>2 DEF TaskType, TreeType
  <2>4. ~Done("verification")'
    BY <1>2, <1>3, <2>2 DEF Proving
  <2> QED BY <1>1, <2>1, <2>2, <2>3, <2>4 DEF Verified, Proving
<1>11. CASE CheckAxioms
  <2>1. PICK answered \in BOOLEAN : task' = [task EXCEPT !.passed = answered /\ Proved]
    BY <1>11 DEF CheckAxioms
  <2>2. PICK b \in BOOLEAN : b = (answered /\ Proved)
    BY DEF Proved
  <2>3. pc = "asking axioms" /\ pc' = "judged" /\ tree' = [tree EXCEPT !.scratch = FALSE]
        /\ task' = [task EXCEPT !.passed = b]
    BY <1>11, <2>1, <2>2 DEF CheckAxioms
  <2>4. /\ task'.question = task.question /\ task'.passed = b /\ task'.answer = task.answer
        /\ ~tree'.scratch /\ tree'.text = tree.text /\ tree'.statement = tree.statement
    BY <1>1, <2>3 DEF TaskType, TreeType
  <2>5. b => tree.text = "proof" /\ tree.statement = task.answer.statement
    BY <2>2 DEF Proved
  <2>6. ~Done("verification")'
    BY <1>2, <1>3, <2>3 DEF Proving
  <2> QED BY <1>1, <2>3, <2>4, <2>5, <2>6 DEF Verified, Proving
<1>12. CASE RecordIteration
  <2>1. /\ pc = "judged" /\ UNCHANGED tree
        /\ \/ task.passed /\ Concluded("verified")
           \/ Concluded("unverified")
           \/ task' = Advanced(task) /\ pc' = "reading"
    BY <1>12 DEF RecordIteration
  <2>2. CASE task.passed /\ Concluded("verified")
    <3>1. tree.text = "proof" /\ ~tree.scratch /\ tree.statement = task.answer.statement
      BY <2>1, <2>2 DEF Verified
    <3>2. lean'.statement = task.answer.statement
      BY <2>2, ConcludedIs DEF Outcomes
    <3>3. ProofOnDisk'
      BY <2>1, <3>1, <3>2 DEF ProofOnDisk
    <3> QED BY <1>5, <2>1, <2>2, <3>3 DEF Outcomes, Proving
  <2>3. CASE Concluded("unverified")
    BY <1>5, <2>1, <2>3 DEF Outcomes, Proving
  <2>4. CASE task' = Advanced(task) /\ pc' = "reading"
    BY <1>1, <1>4, <2>1, <2>4, AdvancedIs DEF Proving
  <2> QED BY <2>1, <2>2, <2>3, <2>4
<1>13. CASE Exhausted
  BY <1>5, <1>13 DEF Exhausted, Outcomes, Proving
<1>14. CASE NoteLean \/ RecordLean
  <2>1. /\ pc \in {"noting lean", "recording lean"} /\ pc' \in {"recording lean", "settling", "reporting"}
        /\ UNCHANGED <<tree, lean>>
    BY <1>14 DEF NoteLean, RecordLean, leanVars
  <2>2. ~Done("verification")'
    BY <1>2, <1>3, <2>1
  <2> QED BY <1>1, <2>1, <2>2 DEF Verified, ProofOnDisk, Proving
<1>15. CASE SettleLean
  <2>1. pc = "settling" /\ pc' = "reporting" /\ UNCHANGED <<tree, lean>>
    BY <1>15 DEF SettleLean, leanVars
  <2>2. Done("verification")' => lean.outcome = "verified"
    BY <1>2, <1>3, <2>1
  <2> QED BY <1>1, <2>1, <2>2 DEF Verified, ProofOnDisk, Proving
<1> QED BY <1>6, <1>7, <1>8, <1>9, <1>10, <1>11, <1>12, <1>13, <1>14, <1>15 DEF LeanNext

LEMMA VerifiedKeeps == TypesAndPlaces /\ Verified /\ [Next]_lateVars => Verified'
<1> SUFFICES ASSUME TypesAndPlaces, Verified, [Next]_lateVars PROVE Verified'
  OBVIOUS
<1>1. Moved
  BY RunKeeps DEF Kept
<1>2. Done("verification")' => Done("verification") \/ (pc = "settling" /\ lean.outcome = "verified")
  BY <1>1 DEF Moved
<1>3. Done("verification") => pc \in {"reporting", "off"} /\ Done("manuscript")
  BY DEF TypesAndPlaces, Places, InOrder, Done
<1>4. Done("verification") => UNCHANGED shelf
  BY <1>3, ShelfStays
<1>5. ASSUME UNCHANGED <<tree, lean>>, pc # "settling",
             pc' \notin Proving \cup {"noting lean", "recording lean", "settling"}
      PROVE  Verified'
  BY <1>2, <1>4, <1>5 DEF Verified, ProofOnDisk, Proving
<1>6. ASSUME NEW s \in RunType, Formalize(s), pc # "settling", UNCHANGED shelf
      PROVE  Verified'
  <2>1. CASE BeginLean(s)
    <3>1. task'.question.paper = shelf.result.paper /\ UNCHANGED <<tree, lean>>
          /\ pc' \in {"raising", "stating"}
      <4>1. task'.question = [paper |-> shelf.result.paper, revision |-> Revision,
                              generation |-> s.generation]
            /\ UNCHANGED <<tree, records, lean, stated>>
        BY <2>1, BeginLeanIs
      <4> QED BY <2>1, <4>1 DEF BeginLean
    <3> QED BY <1>2, <1>6, <3>1 DEF Verified, ProofOnDisk, Proving
  <2>2. CASE SkipLean(s)
    BY <1>5, <1>6, <2>2 DEF SkipLean, leanVars, Proving
  <2> QED BY <1>6, <2>1, <2>2 DEF Formalize
<1>7. CASE ManuscriptNext /\ UNCHANGED leanVars
  <2>1. pc # "settling" /\ pc' \notin Proving \cup {"noting lean", "recording lean", "settling"}
    BY <1>7 DEF ManuscriptNext, Write, Drafted, WriterFails, Audit, Build, Publish, File, NoteDraft,
       RecordDraft, CloseDraft, Proving
  <2> QED BY <1>5, <1>7, <2>1 DEF leanVars
<1>8. CASE LeanNext /\ UNCHANGED manuscriptVars
  BY <1>1, <1>8, VerifiedInLean
<1>9. CASE GoOn
  BY <1>6, <1>9, TypedRun DEF GoOn, manuscriptVars
<1>10. CASE StageFails
  BY <1>5, <1>10 DEF StageFails, leanVars, Proving
<1>11. CASE Raise
  <2>1. ~Done("verification") /\ pc # "settling" /\ pc' = "raising"
    BY <1>3, <1>11 DEF Raise, Awaits
  <2>2. ~Done("verification")'
    BY <1>2, <2>1
  <2> QED BY <2>1, <2>2 DEF Verified, Proving
<1>12. CASE Report
  BY <1>5, <1>12 DEF Report, Proving
<1>13. CASE Crash
  <2>1. /\ UNCHANGED <<lean, run, shelf>> /\ pc' = "off"
        /\ tree' = tree \/ pc = "checking"
    BY <1>13 DEF Crash
  <2>2. CASE tree' = tree
    BY <2>1, <2>2 DEF Verified, ProofOnDisk, Proving, Done
  <2>3. CASE pc = "checking"
    <3>1. ~Done("verification")
      BY <1>3, <2>3
    <3>2. ~Done("verification")'
      BY <2>1, <3>1 DEF Done
    <3> QED BY <2>1, <3>2 DEF Verified, Proving
  <2> QED BY <2>1, <2>2, <2>3
<1>14. CASE Resume \/ ForceStage
  <2>1. pc = "off"
    BY <1>14, CommandIs
  <2>2. PICK s : /\ Entry(s)
                 /\ \/ BeginManuscript(s) /\ UNCHANGED <<graph, leanVars>>
                    \/ Formalize(s) /\ UNCHANGED <<graph, manuscriptVars>>
    BY <1>14, CommandIs
  <2>3. CASE BeginManuscript(s) /\ UNCHANGED <<graph, leanVars>>
    BY <1>5, <2>1, <2>3 DEF BeginManuscript, leanVars, Proving
  <2>4. CASE Formalize(s) /\ UNCHANGED <<graph, manuscriptVars>>
    BY <1>6, <2>1, <2>2, <2>4 DEF Entry, manuscriptVars
  <2> QED BY <2>2, <2>3, <2>4
<1>15. CASE UNCHANGED lateVars
  BY <1>15 DEF lateVars, manuscriptVars, leanVars, Verified, ProofOnDisk, Done
<1> QED BY <1>7, <1>8, <1>9, <1>10, <1>11, <1>12, <1>13, <1>14, <1>15, Steps DEF Elsewhere

LEMMA DraftBuilt == Spec => []Built
<1>1. Init => Built
  <2> SUFFICES ASSUME Init PROVE Built
    OBVIOUS
  <2>1. work.drafts = <<>> /\ pc = "writing" /\ DOMAIN <<>> = {}
    BY IdleIs DEF Init, ManuscriptInit
  <2>2. ~Done("manuscript")
    BY InitDone
  <2> QED BY <2>1, <2>2 DEF Built, Copied
<1> QED BY <1>1, BuiltKeeps, InPlace, PTL DEF Spec

\* A finished manuscript stage publishes the draft its result names, with the PDF
\* of that draft where it built, and no revision makes things worse
\* (manuscript.py 1562-1615).
THEOREM DraftIsAsBuilt == Spec => []PublishedAsBuilt
<1>1. TypesAndPlaces /\ Built => PublishedAsBuilt
  BY DEF TypesAndPlaces, Places, Built, AsBuilt, PublishedAsBuilt
<1> QED BY <1>1, DraftBuilt, InPlace, PTL

\* What the run calls verified is proved on disk, and of the paper it publishes,
\* whatever was forced or went wrong in between (application.py 2663-2745).
THEOREM VerifiedIsProved == Spec => []VerifiedIsProof
<1>1. Init => Verified
  BY InitDone DEF Init, LeanInit, Verified, Proving
<1>2. TypesAndPlaces /\ Built /\ Verified => VerifiedIsProof
  <2>1. TypesAndPlaces /\ Done("verification") => Done("manuscript")
    BY DEF TypesAndPlaces, Places, InOrder, Done
  <2> QED BY <2>1 DEF Built, AsBuilt, Verified, ProofOnDisk, VerifiedIsProof
<1> QED BY <1>1, <1>2, VerifiedKeeps, DraftBuilt, InPlace, PTL DEF Spec

(* ---- a recorded proof is used ----------------------------------------------- *)
\* Whatever iteration has been passed over holds no proof of the sources on disk
\* that was not rejected later.
Walk ==
    /\ pc \in {"stating", "placing"} => task.at = 1
    /\ pc = "coding" => ~task.again
    /\ pc \in {"checking", "asking axioms", "judged"} /\ task.again => task.at \in DOMAIN records
    /\ pc = "reading" =>
          \A i \in DOMAIN records :
              i < task.at /\ records[i].passed /\ records[i].tree = tree => Disproved(i)
    /\ RecordedProofIsUsed

LEMMA SameTree ==
    TypesAndPlaces => tree.scratch \/ [tree EXCEPT !.scratch = FALSE] = tree
BY TypedLean DEF TreeType

\* No recorded proof of the sources on disk stands.
NoneStands ==
    \A i \in DOMAIN records :
        i <= task.limit /\ records[i].passed /\ records[i].tree = tree => Disproved(i)

LEMMA UsedNext ==
    TypesAndPlaces /\ NoneStands /\ UNCHANGED <<tree, records>> /\ task'.limit = task.limit
        => RecordedProofIsUsed'
<1> SUFFICES ASSUME TypesAndPlaces, NoneStands, UNCHANGED <<tree, records>>, task'.limit = task.limit
             PROVE  RecordedProofIsUsed'
  OBVIOUS
<1>1. CASE tree.scratch
  BY <1>1 DEF RecordedProofIsUsed
<1>2. CASE [tree EXCEPT !.scratch = FALSE] = tree
  <2>1. \A i \in DOMAIN records : Disproved(i)' <=> Disproved(i)
    BY DEF Disproved
  <2> QED BY <1>2, <2>1 DEF NoneStands, RecordedProofIsUsed
<1> QED BY <1>1, <1>2, SameTree

LEMMA WalkOn == TypesAndPlaces /\ Walk /\ (State \/ Place \/ AskCodex \/ Codex \/ CheckBuild \/ CheckAxioms)
                    => Walk'
<1> SUFFICES ASSUME TypesAndPlaces, Walk, State \/ Place \/ AskCodex \/ Codex \/ CheckBuild \/ CheckAxioms
             PROVE  Walk'
  OBVIOUS
<1>1. task \in TaskType /\ records \in Seq(RecordType) /\ task.at \in Nat \ {0} /\ task.limit \in Nat
      /\ task.again \in BOOLEAN
  BY TypedLean
<1>2. CASE State
  <2>1. pc = "stating" /\ pc' = "placing" /\ task'.at = task.at
    BY <1>1, <1>2 DEF State, TaskType
  <2> QED BY <2>1 DEF Walk, RecordedProofIsUsed
<1>3. CASE Place
  <2>1. pc = "placing" /\ task.at = 1 /\ UNCHANGED <<task, records>>
    BY <1>3 DEF Place, Walk
  <2>2. \/ pc' = "reading" \/ \E outcome \in Outcomes \ {"unverified"} : Concluded(outcome)
    BY <1>3 DEF Place, Outcomes
  <2>3. pc' = "reading" \/ (pc' = "noting lean" /\ lean'.outcome # "unverified")
    BY <2>2, ConcludedIs
  <2>4. \A i \in DOMAIN records : ~(i < task.at)
    BY <1>1, <2>1
  <2> QED BY <2>1, <2>3, <2>4 DEF Walk, RecordedProofIsUsed
<1>4. CASE AskCodex
  <2>1. /\ pc = "reading" /\ pc' = "coding" /\ task.at > Len(records)
        /\ task' = [task EXCEPT !.again = FALSE] /\ UNCHANGED <<tree, records>>
    BY <1>4 DEF AskCodex
  <2>2. \A i \in DOMAIN records : i < task.at
    BY <1>1, <2>1
  <2>3. \A i \in DOMAIN records : records[i].passed /\ records[i].tree = tree => Disproved(i)
    BY <2>1, <2>2 DEF Walk
  <2>4. RecordedProofIsUsed'
    <3>1. task'.limit = task.limit
      BY <1>1, <2>1 DEF TaskType
    <3>2. NoneStands
      BY <2>3 DEF NoneStands
    <3> QED BY <2>1, <3>1, <3>2, UsedNext
  <2>5. ~task'.again
    BY <1>1, <2>1 DEF TaskType
  <2> QED BY <2>1, <2>4, <2>5 DEF Walk
<1>5. CASE Codex
  <2>1. pc = "coding" /\ pc' \in {"raising", "checking"} /\ task'.again = task.again
    <3>1. PICK b \in BOOLEAN : b = (tree' # tree)
      OBVIOUS
    <3>2. task' = [task EXCEPT !.progress = b, !.idle = IdleAfter(b)]
      BY <1>5, <3>1 DEF Codex
    <3>3. task'.again = task.again
      BY <1>1, <3>2 DEF TaskType
    <3> QED BY <1>5, <3>3 DEF Codex
  <2> QED BY <2>1 DEF Walk, RecordedProofIsUsed
<1>6. CASE CheckBuild \/ CheckAxioms
  <2>1. /\ pc \in {"checking", "asking axioms"} /\ pc' \in {"asking axioms", "judged"}
        /\ task'.again = task.again /\ task'.at = task.at /\ UNCHANGED records
    <3>1. \E b \in BOOLEAN : task' = [task EXCEPT !.passed = b]
      <4>1. CASE CheckBuild
        BY <4>1 DEF CheckBuild
      <4>2. CASE CheckAxioms
        <5>1. PICK answered \in BOOLEAN : task' = [task EXCEPT !.passed = answered /\ Proved]
          BY <4>2 DEF CheckAxioms
        <5>2. PICK b \in BOOLEAN : b = (answered /\ Proved)
          BY DEF Proved
        <5> QED BY <5>1, <5>2
      <4> QED BY <1>6, <4>1, <4>2
    <3>2. task'.again = task.again /\ task'.at = task.at
      BY <1>1, <3>1 DEF TaskType
    <3> QED BY <1>6, <3>2 DEF CheckBuild, CheckAxioms
  <2> QED BY <2>1 DEF Walk, RecordedProofIsUsed
<1> QED BY <1>2, <1>3, <1>4, <1>5, <1>6

LEMMA WalkRead == TypesAndPlaces /\ Walk /\ (Read \/ Exhausted) => Walk'
<1> SUFFICES ASSUME TypesAndPlaces, Walk, Read \/ Exhausted PROVE Walk'
  OBVIOUS
<1>1. /\ task \in TaskType /\ records \in Seq(RecordType) /\ task.at \in Nat \ {0}
      /\ task.limit \in Nat /\ DOMAIN records = 1..Len(records) /\ Len(records) \in Nat
      /\ task.idle \in Nat
  BY TypedLean
<1>2. /\ pc = "reading" /\ UNCHANGED <<tree, records>>
      /\ \A i \in DOMAIN records :
             i < task.at /\ records[i].passed /\ records[i].tree = tree => Disproved(i)
  BY DEF Read, Exhausted, Walk
<1>3. CASE Exhausted
  <2>1. task.at > task.limit /\ UNCHANGED task /\ Concluded("unverified")
    BY <1>3 DEF Exhausted
  <2>2. pc' = "noting lean"
    BY <2>1 DEF Concluded
  <2>3. ASSUME NEW i \in DOMAIN records, i <= task.limit, records[i].passed, records[i].tree = tree
        PROVE  Disproved(i)
    <3>1. i < task.at
      BY <1>1, <2>1, <2>3
    <3> QED BY <1>2, <2>3, <3>1
  <2>4. RecordedProofIsUsed'
    <3>1. NoneStands
      BY <2>3 DEF NoneStands
    <3> QED BY <1>2, <2>1, <3>1, UsedNext
  <2> QED BY <2>2, <2>4 DEF Walk
<1>4. CASE Read
  <2> DEFINE record == records[task.at]
             n == IdleAfter(record.progress)
             t == [task EXCEPT !.idle = n]
  <2>1. /\ task.at \in DOMAIN records
        /\ \/ pc' = "raising"
           \/ /\ task' = [t EXCEPT !.again = TRUE] /\ pc' = "checking"
           \/ /\ record.tree = tree /\ ~record.passed /\ task' = t /\ Concluded("unverified")
           \/ /\ ~(record.tree = tree /\ record.passed)
              /\ task' = Advanced(t) /\ pc' = "reading"
    BY <1>1, <1>4 DEF Read
  <2>2. n \in Nat
    BY <1>1 DEF IdleAfter
  <2> HIDE DEF n
  <2>3. /\ t \in TaskType /\ t.at = task.at /\ t.limit = task.limit
        /\ [t EXCEPT !.again = TRUE].at = task.at
    BY <1>1, <2>2 DEF TaskType
  <2>4. Advanced(t).at = task.at + 1
    BY <2>3, AdvancedIs
  <2> HIDE DEF t
  <2>5. CASE pc' = "raising"
    BY <2>5 DEF Walk, RecordedProofIsUsed
  <2>6. CASE task' = [t EXCEPT !.again = TRUE] /\ pc' = "checking"
    BY <1>2, <2>1, <2>3, <2>6 DEF Walk, RecordedProofIsUsed
  <2>7. CASE record.tree = tree /\ ~record.passed /\ task' = t /\ Concluded("unverified")
    <3>1. pc' = "noting lean"
      BY <2>7 DEF Concluded
    <3>2. \A i \in DOMAIN records : records[i].tree = tree => Disproved(i)
      BY <2>1, <2>7 DEF Disproved
    <3>3. RecordedProofIsUsed'
      <4>1. NoneStands
        BY <3>2 DEF NoneStands
      <4> QED BY <1>2, <2>3, <2>7, <4>1, UsedNext
    <3> QED BY <3>1, <3>3 DEF Walk
  <2>8. CASE /\ ~(record.tree = tree /\ record.passed)
             /\ task' = Advanced(t) /\ pc' = "reading"
    <3>1. ASSUME NEW i \in DOMAIN records, i < task.at + 1, records[i].passed, records[i].tree = tree
          PROVE  Disproved(i)
      <4>1. i # task.at
        BY <2>8, <3>1
      <4>2. i < task.at
        BY <1>1, <3>1, <4>1
      <4> QED BY <1>2, <3>1, <4>2
    <3> QED BY <1>2, <2>4, <2>8, <3>1 DEF Walk, RecordedProofIsUsed, Disproved
  <2> QED BY <2>1, <2>5, <2>6, <2>7, <2>8
<1> QED BY <1>3, <1>4

LEMMA WalkRecord == TypesAndPlaces /\ Walk /\ RecordIteration => Walk'
<1> SUFFICES ASSUME TypesAndPlaces, Walk, RecordIteration PROVE Walk'
  OBVIOUS
<1>1. /\ task \in TaskType /\ records \in Seq(RecordType) /\ task.at \in Nat \ {0}
      /\ task.limit \in Nat /\ task.again \in BOOLEAN /\ task.passed \in BOOLEAN
  BY TypedLean
<1>2. /\ pc = "judged" /\ records' = Recorded /\ UNCHANGED tree
      /\ \/ task.passed /\ Concluded("verified")
         \/ ~task.passed /\ Concluded("unverified")
         \/ ~task.passed /\ task' = Advanced(task) /\ pc' = "reading"
  BY DEF RecordIteration
<1>3. task.again => task.at \in DOMAIN records
  BY <1>2 DEF Walk
<1>4. \E j \in DOMAIN records' : records'[j].tree = tree /\ records'[j].passed = task.passed
  <2>1. records' \in Seq(RecordType)
    BY <1>2, RecordedIs
  <2>2. CASE task.again
    <3>1. /\ Len(records') = Len(records) /\ records'[task.at].tree = tree
          /\ records'[task.at].passed = task.passed
      BY <1>2, <1>3, <2>2, RecordedIs
    <3> QED BY <1>1, <1>3, <2>1, <2>2, <3>1
  <2>3. CASE ~task.again
    <3>1. Len(records') = Len(records) + 1 /\ records'[Len(records) + 1] = NewRecord
      BY <1>2, <2>3, RecordedIs
    <3>2. Len(records) + 1 \in DOMAIN records'
      BY <1>1, <2>1, <3>1
    <3> QED BY <3>1, <3>2 DEF NewRecord
  <2> QED BY <1>1, <2>2, <2>3
<1>5. ~task.passed => \A i \in DOMAIN records' : records'[i].tree = tree' => Disproved(i)'
  BY <1>2, <1>4 DEF Disproved
<1>6. CASE task.passed /\ Concluded("verified")
  BY <1>6 DEF Concluded, Walk, RecordedProofIsUsed
<1>7. CASE ~task.passed /\ Concluded("unverified")
  <2>1. pc' = "noting lean"
    BY <1>7 DEF Concluded
  <2>2. RecordedProofIsUsed'
    BY <1>2, <1>5, <1>7, SameTree DEF RecordedProofIsUsed
  <2> QED BY <2>1, <2>2 DEF Walk
<1>8. CASE ~task.passed /\ task' = Advanced(task) /\ pc' = "reading"
  BY <1>5, <1>8 DEF Walk, RecordedProofIsUsed
<1> QED BY <1>2, <1>6, <1>7, <1>8

LEMMA WalkKeeps == TypesAndPlaces /\ Walk /\ [Next]_lateVars => Walk'
<1> SUFFICES ASSUME TypesAndPlaces, Walk, [Next]_lateVars PROVE Walk'
  OBVIOUS
<1>1. ASSUME pc' \notin Proving \cup {"noting lean"} PROVE Walk'
  BY <1>1 DEF Walk, RecordedProofIsUsed, Proving
<1>2. ASSUME NEW s \in RunType, Formalize(s) PROVE Walk'
  <2>1. CASE BeginLean(s)
    <3>1. task'.at = 1
      BY <2>1, BeginLeanIs
    <3>2. pc' \in {"raising", "stating"}
      BY <2>1 DEF BeginLean
    <3> QED BY <3>1, <3>2 DEF Walk, RecordedProofIsUsed
  <2>2. CASE SkipLean(s)
    BY <1>1, <2>2 DEF SkipLean, Proving
  <2> QED BY <1>2, <2>1, <2>2 DEF Formalize
<1>3. CASE ManuscriptNext
  BY <1>1, <1>3 DEF ManuscriptNext, Write, Drafted, WriterFails, Audit, Build, Publish, File, NoteDraft,
     RecordDraft, CloseDraft, Proving
<1>4. CASE NoteLean \/ RecordLean \/ SettleLean
  BY <1>1, <1>4 DEF NoteLean, RecordLean, SettleLean, Proving
<1>5. CASE LeanNext
  BY <1>4, <1>5, WalkOn, WalkRead, WalkRecord DEF LeanNext
<1>6. CASE GoOn
  BY <1>2, <1>6, TypedRun DEF GoOn
<1>7. CASE StageFails \/ Raise \/ Report \/ Crash
  BY <1>1, <1>7 DEF StageFails, Raise, Report, Crash, Proving
<1>8. CASE Resume \/ ForceStage
  <2>1. PICK s : Entry(s) /\ (BeginManuscript(s) \/ Formalize(s))
    BY <1>8, CommandIs
  <2> QED BY <1>1, <1>2, <2>1 DEF Entry, BeginManuscript, Proving
<1>9. CASE UNCHANGED lateVars
  BY <1>9 DEF lateVars, leanVars, Walk, RecordedProofIsUsed, Disproved
<1> QED BY <1>3, <1>5, <1>6, <1>7, <1>8, <1>9, Steps DEF Elsewhere

\* A proof on record is neither worked on nor given up while its sources are on
\* disk, unless a later check rejected them (lean.py 626, 1095-1160).
THEOREM ProofIsUsed == Spec => []RecordedProofIsUsed
<1>1. Init => Walk
  BY DEF Init, Walk, RecordedProofIsUsed
<1>2. Walk => RecordedProofIsUsed
  BY DEF Walk
<1> QED BY <1>1, <1>2, WalkKeeps, InPlace, PTL DEF Spec

(* ---- the same question ------------------------------------------------------ *)
\* No step takes an operation out of the graph.
LEMMA RevisionGrows ==
    TypesAndPlaces /\ [Next]_lateVars =>
        Revision \in Nat /\ Revision' \in Nat /\ Revision <= Revision'
<1> SUFFICES ASSUME TypesAndPlaces, [Next]_lateVars
             PROVE  Revision \in Nat /\ Revision' \in Nat /\ Revision <= Revision'
  OBVIOUS
<1>1. IsFiniteSet(graph)
  BY DEF TypesAndPlaces, RunOK
<1>2. Revision \in Nat
  BY <1>1, FS_CardinalityType DEF Revision
<1>3. graph' = graph \/ \E x : graph' = graph \cup {x}
  <2>1. CASE ManuscriptNext
    BY <2>1 DEF ManuscriptNext, Write, WriterFails, Audit, Build, Publish, File, NoteDraft,
       RecordDraft, CloseDraft
  <2>2. CASE LeanNext
    BY <2>2 DEF LeanNext, NoteLean, RecordLean, SettleLean
  <2>3. CASE GoOn \/ StageFails \/ Raise \/ Report \/ Crash
    BY <2>3 DEF GoOn, StageFails, Raise, Report, Crash
  <2>4. CASE Resume \/ ForceStage
    BY <2>4, CommandIs
  <2>5. CASE UNCHANGED lateVars
    BY <2>5 DEF lateVars
  <2> QED BY <2>1, <2>2, <2>3, <2>4, <2>5, Steps DEF Elsewhere
<1>4. CASE graph' = graph
  BY <1>2, <1>4 DEF Revision
<1>5. CASE \E x : graph' = graph \cup {x}
  BY <1>1, <1>5, NextRevision
<1> QED BY <1>3, <1>4, <1>5

\* The question q was asked before r or is r: generations only grow, and within one
\* the paper is the same and the revision only grows.
Early(q, r) ==
    \/ q.generation < r.generation
    \/ q.generation = r.generation /\ q.paper = r.paper /\ q.revision <= r.revision

LEMMA EarlyTransitive ==
    ASSUME NEW p \in QuestionType, NEW q \in QuestionType, NEW r \in QuestionType,
           Early(p, q), Early(q, r)
    PROVE  Early(p, r) /\ (p = r => q = r)
<1>1. /\ p.generation \in Nat /\ q.generation \in Nat /\ r.generation \in Nat
      /\ p.revision \in Nat /\ q.revision \in Nat /\ r.revision \in Nat
  BY DEF QuestionType
<1>2. Early(p, r)
  BY <1>1 DEF Early
<1>3. p = r => q.generation = r.generation /\ q.paper = r.paper /\ q.revision = r.revision
  BY <1>1 DEF Early
<1> QED BY <1>2, <1>3 DEF QuestionType

Asked == stated.question.paper # 0

\* The records were made for questions no later than the last, and those made for
\* the last hold the statement that is on file for it.
Memory ==
    /\ records # <<>> => Asked
    /\ Asked => /\ stated.question.generation <= run.generation
                /\ stated.question.generation = run.generation =>
                      /\ Done("bibliography") /\ stated.question.paper = shelf.result.paper
                      /\ stated.question.revision <= Revision
    /\ \A i \in DOMAIN records :
          /\ Early(records[i].made, stated.question)
          /\ records[i].made = stated.question => records[i].statement = stated.answer.statement
    /\ pc = "stating" =>
          task.question = [paper |-> shelf.result.paper, revision |-> Revision,
                           generation |-> run.generation]
    /\ pc \in Proving \ {"stating"} =>
          Asked /\ task.question = stated.question /\ task.answer = stated.answer
    /\ SameQuestionResumes

\* The last question stays the last: the paper it names is replaced only in a
\* later generation.
LEMMA LastStays ==
    TypesAndPlaces /\ Memory /\ [Next]_lateVars /\ stated' = stated /\ Asked' =>
        /\ stated'.question.generation <= run'.generation
        /\ stated'.question.generation = run'.generation =>
              /\ Done("bibliography")' /\ stated'.question.paper = shelf'.result.paper
              /\ stated'.question.revision <= Revision'
<1> SUFFICES ASSUME TypesAndPlaces, Memory, [Next]_lateVars, stated' = stated, Asked
             PROVE  /\ stated.question.generation <= run'.generation
                    /\ stated.question.generation = run'.generation =>
                          /\ Done("bibliography")' /\ stated.question.paper = shelf'.result.paper
                          /\ stated.question.revision <= Revision'
  BY DEF Asked
<1>1. /\ stated.question.generation <= run.generation
      /\ stated.question.generation = run.generation =>
            /\ Done("bibliography") /\ stated.question.paper = shelf.result.paper
            /\ stated.question.revision <= Revision
  BY DEF Memory
<1>2. /\ run'.generation >= run.generation /\ run'.generation \in Nat
      /\ run'.generation = run.generation /\ Done("bibliography") => Done("bibliography")'
  BY RunKeeps DEF Kept, Moved, RunType
<1>3. /\ run.generation \in Nat /\ stated.question.generation \in Nat /\ stated.question.revision \in Nat
  BY TypedRun, TypedLean DEF QuestionType
<1>4. Done("bibliography") => UNCHANGED shelf
  BY ShelfStays DEF TypesAndPlaces, Places, InOrder, Done
<1>5. Revision \in Nat /\ Revision' \in Nat /\ Revision <= Revision'
  BY RevisionGrows
<1>6. stated.question.generation <= run'.generation
  BY <1>1, <1>2, <1>3
<1>7. ASSUME stated.question.generation = run'.generation
      PROVE  /\ Done("bibliography")' /\ stated.question.paper = shelf'.result.paper
             /\ stated.question.revision <= Revision'
  <2>1. stated.question.generation = run.generation /\ run'.generation = run.generation
    BY <1>1, <1>2, <1>3, <1>7
  <2> QED BY <1>1, <1>2, <1>3, <1>4, <1>5, <2>1
<1> QED BY <1>6, <1>7

\* Steps that leave the records and the answers on file, and the attempt unless it ends.
LEMMA MemoryRests ==
    ASSUME TypesAndPlaces, Memory, [Next]_lateVars, UNCHANGED <<stated, records>>,
           \/ task'.question = task.question /\ task'.answer = task.answer /\ task'.refused = task.refused
           \/ ~task'.refused /\ pc' \notin Proving,
           pc' \in Proving => pc \in Proving \ {"stating"} /\ pc' # "stating"
    PROVE  Memory'
<1>1. Asked' => /\ stated'.question.generation <= run'.generation
                /\ stated'.question.generation = run'.generation =>
                      /\ Done("bibliography")' /\ stated'.question.paper = shelf'.result.paper
                      /\ stated'.question.revision <= Revision'
  BY LastStays
<1>2. SameQuestionResumes'
  BY DEF Memory, SameQuestionResumes
<1>3. pc' \in Proving \ {"stating"} =>
          Asked' /\ task'.question = stated'.question /\ task'.answer = stated'.answer
  BY DEF Memory, Asked
<1>4. pc' # "stating"
  BY DEF Proving
<1>5. /\ records' # <<>> => Asked'
      /\ \A i \in DOMAIN records' :
          /\ Early(records'[i].made, stated'.question)
          /\ records'[i].made = stated'.question => records'[i].statement = stated'.answer.statement
  BY DEF Memory, Asked
<1> QED BY <1>1, <1>2, <1>3, <1>4, <1>5 DEF Memory

LEMMA MemoryStated == TypesAndPlaces /\ Built /\ Memory /\ State /\ UNCHANGED <<run, graph, manuscriptVars>>
                         => Memory'
<1> SUFFICES ASSUME TypesAndPlaces, Built, Memory, State, UNCHANGED <<run, graph, manuscriptVars>>
             PROVE  Memory'
  OBVIOUS
<1>1. PICK answer \in Answers : /\ task.question = stated.question => answer = stated.answer
                                /\ task' = [task EXCEPT !.answer = answer]
                                /\ stated' = [question |-> task.question, answer |-> answer]
  BY DEF State, Filed
<1>2. /\ task \in TaskType /\ records \in Seq(RecordType)
      /\ task.question \in QuestionType /\ stated.question \in QuestionType
      /\ run.generation \in Nat /\ Revision \in Nat
  BY TypedLean, TypedRun, FS_CardinalityType DEF Revision
<1>3. /\ pc = "stating" /\ pc' = "placing" /\ UNCHANGED <<records, shelf>>
      /\ task'.question = task.question /\ task'.answer = answer /\ task'.refused = task.refused
      /\ stated'.question = task.question /\ stated'.answer = answer
  BY <1>1, <1>2 DEF State, TaskType, manuscriptVars
<1>4. /\ task.question.paper = shelf.result.paper /\ task.question.revision = Revision
      /\ task.question.generation = run.generation
  BY <1>3 DEF Memory
<1>5. Done("bibliography") /\ Done("manuscript") /\ shelf.result.paper # 0
  <2>1. Done("bibliography") /\ Done("manuscript")
    BY <1>3 DEF TypesAndPlaces, Places, InOrder, Done, Leaning, Proving
  <2> QED BY <2>1 DEF Built, AsBuilt
<1>6. Asked' /\ Revision' = Revision /\ (Done("bibliography")' <=> Done("bibliography"))
  BY <1>3, <1>4, <1>5 DEF Asked, Revision, Done
<1>7. Asked => Early(stated.question, task.question)
  BY <1>2, <1>4 DEF Memory, Early, QuestionType
<1>8. ASSUME NEW i \in DOMAIN records
      PROVE  /\ Early(records[i].made, task.question)
             /\ records[i].made = task.question => records[i].statement = answer.statement
  <2>1. Asked
    <3>1. DOMAIN <<>> = {}
      OBVIOUS
    <3> QED BY <1>8, <3>1 DEF Memory
  <2>2. records[i].made \in QuestionType
    <3>1. records[i] \in RecordType
      BY <1>2
    <3> QED BY <3>1 DEF RecordType
  <2>3. /\ Early(records[i].made, stated.question)
        /\ records[i].made = stated.question => records[i].statement = stated.answer.statement
    BY DEF Memory
  <2>4. /\ Early(records[i].made, task.question)
        /\ records[i].made = task.question => stated.question = task.question
    BY <1>2, <1>7, <2>1, <2>2, <2>3, EarlyTransitive
  <2> QED BY <1>1, <2>3, <2>4
<1>9. SameQuestionResumes'
  BY <1>3 DEF Memory, SameQuestionResumes
<1>10. Asked' => /\ stated'.question.generation <= run'.generation
                 /\ stated'.question.generation = run'.generation =>
                       /\ Done("bibliography")' /\ stated'.question.paper = shelf'.result.paper
                       /\ stated'.question.revision <= Revision'
  BY <1>2, <1>3, <1>4, <1>5, <1>6
<1>11. \A i \in DOMAIN records' :
          /\ Early(records'[i].made, stated'.question)
          /\ records'[i].made = stated'.question => records'[i].statement = stated'.answer.statement
  BY <1>3, <1>8
<1> QED BY <1>3, <1>6, <1>9, <1>10, <1>11 DEF Memory

LEMMA MemoryRead == TypesAndPlaces /\ Memory /\ Read /\ [Next]_lateVars => Memory'
<1> SUFFICES ASSUME TypesAndPlaces, Memory, Read, [Next]_lateVars PROVE Memory'
  OBVIOUS
<1>1. /\ task \in TaskType /\ pc = "reading" /\ UNCHANGED <<stated, records>>
      /\ task.at \in DOMAIN records
  <2>1. task.at \in Nat \ {0} /\ records \in Seq(RecordType) /\ task \in TaskType
    BY TypedLean
  <2> QED BY <2>1 DEF Read
<1>2. task.question = stated.question /\ task.answer = stated.answer
  BY <1>1 DEF Memory, Proving
<1> DEFINE n == IdleAfter(records[task.at].progress)
           t == [task EXCEPT !.idle = n]
<1>3. /\ pc' \in {"raising", "checking", "noting lean", "reading"}
      /\ \/ /\ task' = [task EXCEPT !.refused = TRUE] /\ pc' = "raising"
            /\ records[task.at].statement # task.answer.statement
         \/ task' = [t EXCEPT !.again = TRUE]
         \/ task' = t
         \/ task' = Advanced(t)
  BY DEF Read, Concluded
<1>4. /\ t.question = task.question /\ t.answer = task.answer /\ t.refused = task.refused
      /\ [t EXCEPT !.again = TRUE].question = task.question
      /\ [t EXCEPT !.again = TRUE].answer = task.answer
      /\ [t EXCEPT !.again = TRUE].refused = task.refused
      /\ Advanced(t).question = task.question /\ Advanced(t).answer = task.answer
      /\ Advanced(t).refused = task.refused
  BY <1>1 DEF TaskType, Advanced
<1> HIDE DEF t
<1>5. CASE task'.question = task.question /\ task'.answer = task.answer /\ task'.refused = task.refused
  BY <1>1, <1>3, <1>5, MemoryRests DEF Proving
<1>6. CASE /\ task' = [task EXCEPT !.refused = TRUE] /\ pc' = "raising"
           /\ records[task.at].statement # task.answer.statement
  <2>1. records[task.at].made # stated.question
    BY <1>1, <1>2, <1>6 DEF Memory
  <2>2. task'.question = task.question
    BY <1>1, <1>6 DEF TaskType
  <2>3. SameQuestionResumes'
    BY <1>1, <1>2, <2>1, <2>2 DEF SameQuestionResumes
  <2>4. Asked' => /\ stated'.question.generation <= run'.generation
                  /\ stated'.question.generation = run'.generation =>
                        /\ Done("bibliography")' /\ stated'.question.paper = shelf'.result.paper
                        /\ stated'.question.revision <= Revision'
    BY <1>1, LastStays
  <2>5. /\ records' # <<>> => Asked'
        /\ \A i \in DOMAIN records' :
            /\ Early(records'[i].made, stated'.question)
            /\ records'[i].made = stated'.question => records'[i].statement = stated'.answer.statement
    BY <1>1 DEF Memory, Asked
  <2> QED BY <1>6, <2>3, <2>4, <2>5 DEF Memory, Proving
<1> QED BY <1>3, <1>4, <1>5, <1>6

LEMMA MemoryRecord == TypesAndPlaces /\ Memory /\ RecordIteration /\ [Next]_lateVars => Memory'
<1> SUFFICES ASSUME TypesAndPlaces, Memory, RecordIteration, [Next]_lateVars PROVE Memory'
  OBVIOUS
<1>1. /\ task \in TaskType /\ pc = "judged" /\ records' = Recorded /\ stated' = stated
      /\ pc' \in {"noting lean", "reading"} /\ task' \in {task, Advanced(task)}
      /\ records \in Seq(RecordType) /\ task.again \in BOOLEAN
      /\ stated.question \in QuestionType
  BY TypedLean DEF RecordIteration, Concluded
<1>2. Asked /\ task.question = stated.question /\ task.answer = stated.answer
  BY <1>1 DEF Memory, Proving
<1>3. /\ task'.question = task.question /\ task'.answer = task.answer /\ task'.refused = task.refused
  BY <1>1, AdvancedIs
<1>4. Asked' => /\ stated'.question.generation <= run'.generation
                /\ stated'.question.generation = run'.generation =>
                      /\ Done("bibliography")' /\ stated'.question.paper = shelf'.result.paper
                      /\ stated'.question.revision <= Revision'
  BY <1>1, LastStays
<1>5. records' # <<>> => Asked'
  BY <1>1, <1>2 DEF Asked
<1>6. \A i \in DOMAIN records :
         /\ i \in DOMAIN records' /\ records'[i].made = records[i].made
         /\ records'[i].statement = records[i].statement
  <2>1. records' \in Seq(RecordType)
    BY <1>1, RecordedIs
  <2>2. Len(records') = Len(records) \/ Len(records') = Len(records) + 1
    BY <1>1, RecordedIs
  <2>3. \A i \in DOMAIN records :
         /\ records'[i].made = records[i].made
         /\ records'[i].statement = records[i].statement
    BY <1>1, RecordedIs
  <2>4. DOMAIN records' = 1..Len(records')
    BY <2>1, LenProperties
  <2>5. DOMAIN records = 1..Len(records) /\ Len(records) \in Nat
    BY <1>1, LenProperties
  <2>6. DOMAIN records \subseteq DOMAIN records'
    <3> DEFINE n == Len(records)
               m == Len(records')
    <3>1. n \in Nat /\ (m = n \/ m = n + 1)
      BY <2>2, <2>5
    <3> HIDE DEF n, m
    <3>2. 1..n \subseteq 1..m
      BY <3>1
    <3> QED BY <2>4, <2>5, <3>2 DEF n, m
  <2> QED BY <2>3, <2>6
<1>7. ASSUME NEW i \in DOMAIN records'
      PROVE  /\ Early(records'[i].made, stated.question)
             /\ records'[i].made = stated.question => records'[i].statement = stated.answer.statement
  <2>1. CASE i \in DOMAIN records
    BY <1>6, <2>1 DEF Memory
  <2>2. CASE i \notin DOMAIN records
    <3>1. records'[i] = NewRecord
      <4>1. DOMAIN records' = 1..Len(records') /\ DOMAIN records = 1..Len(records) /\ Len(records) \in Nat
        <5>1. records' \in Seq(RecordType)
          BY <1>1, RecordedIs
        <5>2. DOMAIN records' = 1..Len(records')
          BY <5>1, LenProperties
        <5>3. DOMAIN records = 1..Len(records) /\ Len(records) \in Nat
          BY <1>1, LenProperties
        <5> QED BY <5>2, <5>3
      <4>2. CASE task.again
        <5>1. Len(records') = Len(records)
          BY <1>1, <4>2, RecordedIs
        <5> QED BY <2>2, <4>1, <5>1
      <4>3. CASE ~task.again
        <5>1. Len(records') = Len(records) + 1 /\ records'[Len(records) + 1] = NewRecord
          BY <1>1, <4>3, RecordedIs
        <5>2. i = Len(records) + 1
          BY <2>2, <4>1, <5>1
        <5> QED BY <5>1, <5>2
      <4> QED BY <1>1, <4>2, <4>3
    <3>2. records'[i].made = stated.question /\ records'[i].statement = stated.answer.statement
      BY <1>2, <3>1 DEF NewRecord
    <3>3. Early(stated.question, stated.question)
      <4>1. stated.question.revision \in Nat
        BY <1>1 DEF QuestionType
      <4> QED BY <4>1 DEF Early
    <3> QED BY <3>2, <3>3
  <2> QED BY <2>1, <2>2
<1>8. SameQuestionResumes'
  BY <1>3, <1>6 DEF Memory, SameQuestionResumes
<1>9. Asked' /\ task'.question = stated'.question /\ task'.answer = stated'.answer
  BY <1>1, <1>2, <1>3 DEF Asked
<1>10. \A i \in DOMAIN records' :
          /\ Early(records'[i].made, stated'.question)
          /\ records'[i].made = stated'.question => records'[i].statement = stated'.answer.statement
  BY <1>1, <1>7
<1> QED BY <1>1, <1>4, <1>5, <1>8, <1>9, <1>10 DEF Memory

LEMMA MemoryBegin ==
    ASSUME TypesAndPlaces, Memory, [Next]_lateVars, NEW s \in RunType, Formalize(s),
           UNCHANGED <<graph, manuscriptVars>>
    PROVE  Memory'
<1>1. CASE SkipLean(s)
  BY <1>1, MemoryRests DEF SkipLean, leanVars, Proving
<1>2. CASE BeginLean(s)
  <2>1. /\ ~task'.refused /\ UNCHANGED <<stated, records, shelf>> /\ Revision' = Revision
        /\ task'.question = [paper |-> shelf.result.paper, revision |-> Revision,
                             generation |-> s.generation]
    BY <1>2, BeginLeanIs DEF manuscriptVars, Revision
  <2>2. With(s, "feasibility", "running").generation = s.generation
    BY WithIs, StageNames, StageFacts
  <2>3. run'.generation = s.generation /\ pc' \in {"raising", "stating"}
    BY <1>2, <2>2 DEF BeginLean
  <2>4. Asked' => /\ stated'.question.generation <= run'.generation
                  /\ stated'.question.generation = run'.generation =>
                        /\ Done("bibliography")' /\ stated'.question.paper = shelf'.result.paper
                        /\ stated'.question.revision <= Revision'
    BY <2>1, LastStays
  <2>5. /\ records' # <<>> => Asked'
        /\ \A i \in DOMAIN records' :
            /\ Early(records'[i].made, stated'.question)
            /\ records'[i].made = stated'.question => records'[i].statement = stated'.answer.statement
    BY <2>1 DEF Memory, Asked
  <2>6. task'.question = [paper |-> shelf'.result.paper, revision |-> Revision',
                          generation |-> run'.generation]
    BY <2>1, <2>3
  <2> QED BY <2>1, <2>3, <2>4, <2>5, <2>6 DEF Memory, SameQuestionResumes, Proving
<1> QED BY <1>1, <1>2 DEF Formalize

LEMMA MemoryKeeps == TypesAndPlaces /\ Built /\ Memory /\ [Next]_lateVars => Memory'
<1> SUFFICES ASSUME TypesAndPlaces, Built, Memory, [Next]_lateVars PROVE Memory'
  OBVIOUS
<1>1. task \in TaskType
  BY TypedLean
<1>2. ASSUME UNCHANGED leanVars, pc' \notin Proving PROVE Memory'
  BY <1>2, MemoryRests DEF leanVars
<1>3. ASSUME UNCHANGED <<stated, records>>, pc \in Proving \ {"stating"}, pc' # "stating",
             task'.question = task.question, task'.answer = task.answer, task'.refused = task.refused
      PROVE  Memory'
  BY <1>3, MemoryRests
<1>4. CASE ManuscriptNext /\ UNCHANGED leanVars
  <2>1. pc' \notin Proving
    BY <1>4 DEF ManuscriptNext, Write, Drafted, WriterFails, Audit, Build, Publish, File, NoteDraft,
       RecordDraft, CloseDraft, Proving
  <2> QED BY <1>2, <1>4, <2>1
<1>5. CASE State /\ UNCHANGED <<run, graph, manuscriptVars>>
  BY <1>5, MemoryStated
<1>6. CASE Read \/ RecordIteration
  BY <1>6, MemoryRead, MemoryRecord
<1>7. CASE Place \/ Exhausted
  <2>1. /\ UNCHANGED <<stated, records, task>> /\ pc \in Proving \ {"stating"}
        /\ pc' \in {"reading", "noting lean"}
    BY <1>7 DEF Place, Exhausted, Concluded, Proving
  <2> QED BY <1>3, <2>1
<1>8. CASE AskCodex
  <2>1. /\ UNCHANGED <<stated, records>> /\ pc = "reading" /\ pc' = "coding"
        /\ task' = [task EXCEPT !.again = FALSE]
    BY <1>8 DEF AskCodex
  <2>2. task'.question = task.question /\ task'.answer = task.answer /\ task'.refused = task.refused
    BY <1>1, <2>1 DEF TaskType
  <2> QED BY <1>3, <2>1, <2>2 DEF Proving
<1>9. CASE Codex
  <2>1. PICK b \in BOOLEAN : b = (tree' # tree)
    OBVIOUS
  <2>2. /\ task' = [task EXCEPT !.progress = b, !.idle = IdleAfter(b)]
        /\ UNCHANGED <<stated, records>> /\ pc = "coding" /\ pc' \in {"raising", "checking"}
    BY <1>9, <2>1 DEF Codex
  <2>3. task'.question = task.question /\ task'.answer = task.answer /\ task'.refused = task.refused
    BY <1>1, <2>2 DEF TaskType
  <2> QED BY <1>3, <2>2, <2>3 DEF Proving
<1>10. CASE CheckBuild \/ CheckAxioms
  <2>1. \E b \in BOOLEAN : task' = [task EXCEPT !.passed = b]
    <3>1. CASE CheckBuild
      BY <3>1 DEF CheckBuild
    <3>2. CASE CheckAxioms
      <4>1. PICK answered \in BOOLEAN : task' = [task EXCEPT !.passed = answered /\ Proved]
        BY <3>2 DEF CheckAxioms
      <4>2. PICK b \in BOOLEAN : b = (answered /\ Proved)
        BY DEF Proved
      <4> QED BY <4>1, <4>2
    <3> QED BY <1>10, <3>1, <3>2
  <2>2. task'.question = task.question /\ task'.answer = task.answer /\ task'.refused = task.refused
    BY <1>1, <2>1 DEF TaskType
  <2>3. /\ UNCHANGED <<stated, records>> /\ pc \in {"checking", "asking axioms"}
        /\ pc' \in {"asking axioms", "judged"}
    BY <1>10 DEF CheckBuild, CheckAxioms
  <2> QED BY <1>3, <2>2, <2>3 DEF Proving
<1>11. CASE NoteLean \/ RecordLean \/ SettleLean
  <2>1. UNCHANGED leanVars /\ pc' \notin Proving
    BY <1>11 DEF NoteLean, RecordLean, SettleLean, leanVars, Proving
  <2> QED BY <1>2, <2>1
<1>12. CASE LeanNext /\ UNCHANGED manuscriptVars
  BY <1>5, <1>6, <1>7, <1>8, <1>9, <1>10, <1>11, <1>12 DEF LeanNext
<1>13. CASE GoOn
  BY <1>13, MemoryBegin, TypedRun DEF GoOn
<1>14. CASE StageFails
  BY <1>2, <1>14 DEF StageFails, Proving
<1>15. CASE Raise
  BY <1>15, MemoryRests DEF Raise, Proving
<1>16. CASE Report \/ Crash
  <2>1. UNCHANGED <<stated, records>> /\ task' = NoTask /\ pc' = "off"
    BY <1>16 DEF Report, Crash
  <2>2. ~task'.refused /\ pc' \notin Proving
    BY <2>1 DEF NoTask, Proving
  <2> QED BY <2>1, <2>2, MemoryRests
<1>17. CASE Resume \/ ForceStage
  <2>1. PICK s : /\ Entry(s)
                 /\ \/ BeginManuscript(s) /\ UNCHANGED <<graph, leanVars>>
                    \/ Formalize(s) /\ UNCHANGED <<graph, manuscriptVars>>
    BY <1>17, CommandIs
  <2>2. CASE BeginManuscript(s) /\ UNCHANGED <<graph, leanVars>>
    BY <1>2, <2>2 DEF BeginManuscript, Proving
  <2>3. CASE Formalize(s) /\ UNCHANGED <<graph, manuscriptVars>>
    BY <2>1, <2>3, MemoryBegin DEF Entry
  <2> QED BY <2>1, <2>2, <2>3
<1>18. CASE UNCHANGED lateVars
  BY <1>18 DEF lateVars, manuscriptVars, leanVars, Memory, SameQuestionResumes, Asked, Done, Revision
<1> QED BY <1>4, <1>12, <1>13, <1>14, <1>15, <1>16, <1>17, <1>18, Steps DEF Elsewhere

\* Only an attempt that asks another question refuses the records: the paid answer
\* to the same one brings back the same statement, also after a crash and under a
\* new attempt (lean.py 590-614).
THEOREM SameQuestion == Spec => []SameQuestionResumes
<1>1. Init => Memory
  <2>1. DOMAIN <<>> = {} /\ ~NoTask.refused /\ NoQuestion.paper = 0
    BY DEF NoTask, NoQuestion
  <2> QED BY <2>1 DEF Init, LeanInit, Memory, Asked, SameQuestionResumes, Proving
<1>2. Memory => SameQuestionResumes
  BY DEF Memory
<1> QED BY <1>1, <1>2, MemoryKeeps, DraftBuilt, InPlace, PTL DEF Spec

=============================================================================
