---------------------------- MODULE WorkflowProofs ----------------------------
(*****************************************************************************)
(* For any number of commands, failures and crashes: what the files of a run  *)
(* are to its checkpoints between any two durable writes, what a command may  *)
(* be refused for, what a checkpoint may be lost for, and what one quiet      *)
(* resume leaves undone.                                                      *)
(*****************************************************************************)
EXTENDS Workflow, SequenceTheorems, WellFoundedInduction, TLAPS

(* ---- the stage records ---------------------------------------------------- *)
LEMMA StageFacts ==
    /\ Stage = {"prompt", "research", "audit", "manuscript", "bibliography",
                "feasibility", "alignment", "formalization", "verification", "report"}
    /\ Status = {"pending", "running", "failed", "interrupted", "succeeded", "skipped"}
    /\ Startable = {"pending", "failed", "interrupted"}
    /\ DOMAIN StageOrder = 1..10
<1>1. Status = {"pending", "running", "failed", "interrupted", "succeeded", "skipped"}
  BY DEF Status, Legal
<1>2. /\ Legal["pending"] = {"running", "skipped"} /\ Legal["failed"] = {"running"}
      /\ Legal["running"] = {"succeeded", "failed", "interrupted"}
      /\ Legal["interrupted"] = {"running"} /\ Legal["succeeded"] = {} /\ Legal["skipped"] = {}
  BY DEF Legal
<1>3. \A x \in Status : "running" \in Legal[x] <=> x \in {"pending", "failed", "interrupted"}
  BY <1>1, <1>2
<1>4. Startable = {"pending", "failed", "interrupted"}
  BY <1>1, <1>3 DEF Startable
<1>5. Stage = {"prompt", "research", "audit", "manuscript", "bibliography",
               "feasibility", "alignment", "formalization", "verification", "report"}
      /\ DOMAIN StageOrder = 1..10
  BY DEF Stage, StageOrder, ToSet
<1> QED BY <1>1, <1>4, <1>5

LEMMA Positions ==
    /\ Position("prompt") = 1 /\ Position("research") = 2 /\ Position("audit") = 3
    /\ Position("manuscript") = 4 /\ Position("bibliography") = 5
    /\ Position("feasibility") = 6 /\ Position("alignment") = 7
    /\ Position("formalization") = 8 /\ Position("verification") = 9 /\ Position("report") = 10
<1>1. ASSUME NEW n \in 1..10 PROVE Position(StageOrder[n]) = n
  <2>1. \A i \in 1..10 : StageOrder[i] = StageOrder[n] => i = n
    BY DEF StageOrder
  <2> QED BY <2>1, StageFacts DEF Position
<1>2. /\ StageOrder[1] = "prompt" /\ StageOrder[2] = "research" /\ StageOrder[3] = "audit"
      /\ StageOrder[4] = "manuscript" /\ StageOrder[5] = "bibliography"
      /\ StageOrder[6] = "feasibility" /\ StageOrder[7] = "alignment"
      /\ StageOrder[8] = "formalization" /\ StageOrder[9] = "verification"
      /\ StageOrder[10] = "report"
  BY DEF StageOrder
<1>3. 1..10 = {1, 2, 3, 4, 5, 6, 7, 8, 9, 10}
  OBVIOUS
<1> QED BY <1>1, <1>2, <1>3

AfterManuscript == {"bibliography"} \cup LeanStage
AfterAudit      == {"manuscript"} \cup AfterManuscript
AfterResearch   == {"audit"} \cup AfterAudit
AfterPrompt     == {"research"} \cup AfterResearch

LEMMA Downstreams ==
    /\ Downstream("prompt") = {"prompt", "report"} \cup AfterPrompt
    /\ Downstream("research") = {"report"} \cup AfterPrompt
    /\ Downstream("manuscript") = {"report"} \cup AfterAudit
    /\ Downstream("feasibility") = {"report"} \cup LeanStage
    /\ Downstream("report") = {"report"}
BY StageFacts, Positions
   DEF Downstream, LeanStage, AfterPrompt, AfterResearch, AfterAudit, AfterManuscript

Boundaries == {"prompt", "research", "manuscript", "feasibility", "report"}

LEMMA BoundaryIs ==
    ASSUME NEW x \in Stage
    PROVE  /\ Boundary(x) \in Boundaries
           /\ x \in {"prompt", "report"} => Boundary(x) = x
           /\ x \in {"research", "audit"} => Boundary(x) = "research"
           /\ x \in {"manuscript", "bibliography"} => Boundary(x) = "manuscript"
           /\ x \in LeanStage => Boundary(x) = "feasibility"
BY StageFacts DEF Boundary, Boundaries, LeanStage

LEMMA Least ==
    ASSUME NEW S \in SUBSET Nat, S # {}
    PROVE  \E a \in S : \A b \in S : a <= b
<1> DEFINE R == {ss \in Nat \X Nat : ss[1] < ss[2]}
<1>1. IsWellFoundedOn(R, Nat)
  BY NatLessThanWellFounded DEF OpToRel
<1> HIDE DEF R
<1>2. PICK a \in S : \A b \in S : <<b, a>> \notin R
  BY <1>1, WFMin
<1>3. \A b \in S : ~(b < a)
  BY <1>2 DEF R
<1> QED BY <1>3

\* The first stage that is not complete: all before it are.
LEMMA FirstIs ==
    ASSUME NEW st, Unfinished(st) # {}
    PROVE  /\ FirstIncomplete(st) \in Stage /\ st[FirstIncomplete(st)] \notin Complete
           /\ \A y \in Stage : Position(y) < Position(FirstIncomplete(st)) => st[y] \in Complete
<1> DEFINE U == Unfinished(st)
           first == CHOOSE x \in U : \A y \in U : Position(x) <= Position(y)
           P == {Position(x) : x \in U}
<1>1. U \subseteq Stage /\ U # {}
  BY DEF Unfinished
<1>2. \A x \in Stage : Position(x) \in Nat
  BY StageFacts, Positions
<1>3. P \in SUBSET Nat /\ P # {}
  BY <1>1, <1>2
<1>4. PICK n \in P : \A m \in P : n <= m
  BY <1>3, Least
<1>5. \E x \in U : \A y \in U : Position(x) <= Position(y)
  BY <1>4
<1>6. first \in U /\ \A y \in U : Position(first) <= Position(y)
  BY <1>5
<1>7. FirstIncomplete(st) = first
  BY <1>1 DEF FirstIncomplete
<1>8. \A y \in Stage : Position(y) < Position(first) => y \notin U
  BY <1>1, <1>2, <1>6
<1> QED BY <1>1, <1>6, <1>7, <1>8 DEF Unfinished

LEMMA NoneIncomplete ==
    ASSUME NEW st
    PROVE  FirstIncomplete(st) = "none" <=> Unfinished(st) = {}
<1>1. "none" \notin Stage
  BY StageFacts
<1> QED BY <1>1, FirstIs DEF FirstIncomplete

(* ---- the operations on a run state ---------------------------------------- *)
LEMMA WithIs ==
    ASSUME NEW s \in RunState, NEW x \in Stage, NEW v \in Status
    PROVE  /\ With(s, x, v) \in RunState
           /\ With(s, x, v).st = [s.st EXCEPT ![x] = v]
           /\ With(s, x, v) = [s EXCEPT !.st = [s.st EXCEPT ![x] = v]]
BY DEF With, RunState

LEMMA SucceededIs ==
    ASSUME NEW s \in RunState, NEW x \in Stage, NEW n \in Version
    PROVE  /\ Succeeded(s, x, n) \in RunState
           /\ Succeeded(s, x, n).st = [s.st EXCEPT ![x] = "succeeded"]
           /\ Succeeded(s, x, n).rec = [s.rec EXCEPT ![x] = n]
           /\ Succeeded(s, x, n) = [s EXCEPT !.st = Succeeded(s, x, n).st,
                                             !.rec = Succeeded(s, x, n).rec]
<1>1. "succeeded" \in Status
  BY StageFacts
<1> QED BY <1>1 DEF Succeeded, RunState

LEMMA SkipPendingIs ==
    ASSUME NEW s \in RunState, NEW stages
    PROVE  /\ SkipPending(s, stages) \in RunState
           /\ SkipPending(s, stages) = [s EXCEPT !.st = SkipPending(s, stages).st]
           /\ \A x \in Stage : SkipPending(s, stages).st[x] =
                 IF x \in stages /\ s.st[x] = "pending" THEN "skipped" ELSE s.st[x]
<1>1. "skipped" \in Status
  BY StageFacts
<1> QED BY <1>1 DEF SkipPending, RunState

LEMMA InterruptedIs ==
    ASSUME NEW s \in RunState
    PROVE  /\ Interrupted(s) \in RunState
           /\ Interrupted(s) = [s EXCEPT !.st = Interrupted(s).st]
           /\ \A x \in Stage : Interrupted(s).st[x] =
                 IF s.st[x] = "running" THEN "interrupted" ELSE s.st[x]
<1>1. "interrupted" \in Status
  BY StageFacts
<1> QED BY <1>1 DEF Interrupted, RunState

LEMMA InvalidateIs ==
    ASSUME NEW s \in RunState, NEW stage
    PROVE  /\ InvalidateFrom(s, stage) \in RunState
           /\ InvalidateFrom(s, stage) = [s EXCEPT !.st = InvalidateFrom(s, stage).st,
                                                   !.rec = InvalidateFrom(s, stage).rec]
           /\ \A x \in Stage :
                 /\ InvalidateFrom(s, stage).st[x] =
                       IF x \in Downstream(stage) THEN "pending" ELSE s.st[x]
                 /\ InvalidateFrom(s, stage).rec[x] =
                       IF x \in Downstream(stage) THEN 0 ELSE s.rec[x]
<1>1. "pending" \in Status /\ 0 \in Version
  BY StageFacts, WorkflowAssumption DEF Version
<1> QED BY <1>1 DEF InvalidateFrom, RunState

(* ---- the disk between two writes ------------------------------------------ *)
PromptFile == [ver : Version, clear : BOOLEAN]
TreeFile   == [live : [ver : Version, from : Version, outcome : Outcomes \cup {"none"}],
               exists : BOOLEAN, archived : Version]
DraftFile  == [ver : Version, from : Version, good : BOOLEAN]
LeanFile   == [ver : Version, from : Version, outcome : LeanOutcomes \cup {"none"}]
Consents   == {"none", "yes", "no"}
ReportFile == [ver : Version, told : [Stage \ {"report"} -> Status]]
Entries    == [research : Outcomes \cup {"none", "paused"}, draft : {"none", "written"},
               lean : LeanOutcomes \cup {"none"}]

Disks == [state : RunState, prompt : PromptFile, tree : TreeFile, draft : DraftFile,
          lean : LeanFile, consent : Consents, report : ReportFile, config : Providers,
          graph : Entries]

Effects ==
    UNION {[field : {"state"}, value : RunState], [field : {"prompt"}, value : PromptFile],
           [field : {"tree"}, value : TreeFile], [field : {"draft"}, value : DraftFile],
           [field : {"lean"}, value : LeanFile], [field : {"consent"}, value : Consents],
           [field : {"report"}, value : ReportFile], [field : {"config"}, value : Providers],
           [field : {"graph"}, value : Entries]}

Written(d, e) == [d EXCEPT ![e.field] = e.value]

LEMMA EffectIs ==
    /\ \A v \in RunState   : Put("state", v) \in Effects
    /\ \A v \in PromptFile : Put("prompt", v) \in Effects
    /\ \A v \in TreeFile   : Put("tree", v) \in Effects
    /\ \A v \in DraftFile  : Put("draft", v) \in Effects
    /\ \A v \in LeanFile   : Put("lean", v) \in Effects
    /\ \A v \in Consents   : Put("consent", v) \in Effects
    /\ \A v \in ReportFile : Put("report", v) \in Effects
    /\ \A v \in Providers  : Put("config", v) \in Effects
    /\ \A v \in Entries    : Put("graph", v) \in Effects
BY DEF Effects, Put

LEMMA WrittenIsDisk ==
    ASSUME NEW d \in Disks, NEW e \in Effects
    PROVE  Written(d, e) \in Disks /\ e.field \in DOMAIN d
<1> USE DEF Written, Disks
<1>1. CASE e \in [field : {"state"}, value : RunState] BY <1>1
<1>2. CASE e \in [field : {"prompt"}, value : PromptFile] BY <1>2
<1>3. CASE e \in [field : {"tree"}, value : TreeFile] BY <1>3
<1>4. CASE e \in [field : {"draft"}, value : DraftFile] BY <1>4
<1>5. CASE e \in [field : {"lean"}, value : LeanFile] BY <1>5
<1>6. CASE e \in [field : {"consent"}, value : Consents] BY <1>6
<1>7. CASE e \in [field : {"report"}, value : ReportFile] BY <1>7
<1>8. CASE e \in [field : {"config"}, value : Providers] BY <1>8
<1>9. CASE e \in [field : {"graph"}, value : Entries] BY <1>9
<1> QED
  BY <1>1, <1>2, <1>3, <1>4, <1>5, <1>6, <1>7, <1>8, <1>9 DEF Effects

(* What the state s of a run says goes with the files of disk d.               *)

\* A research whose outcome leads on to the manuscript.
Goes(s, d) == d.tree.live.outcome = "accepted" /\ s.opt # "research_only"

\* Nothing is done before what it rests on, and nothing was skipped without cause.
Ordered(s, d) ==
    LET st == s.st
    IN /\ st["prompt"] # "skipped"
       /\ st["prompt"] # "succeeded" => \A x \in AfterPrompt : st[x] = "pending"
       /\ st["prompt"] = "succeeded" /\ ~d.prompt.clear => st["research"] \in {"pending", "skipped"}
       /\ st["research"] = "skipped" =>
             ~d.prompt.clear /\ \A x \in AfterResearch : st[x] \in {"pending", "skipped"}
       /\ st["research"] \notin Complete => \A x \in AfterResearch : st[x] = "pending"
       /\ st["research"] = "succeeded" =>
             /\ st["audit"] = "skipped" => d.tree.live.outcome = "partial"
             /\ d.tree.live.outcome = "partial" => st["audit"] \in {"pending", "skipped"}
             /\ st["manuscript"] = "skipped" => ~Goes(s, d)
       /\ st["audit"] \notin Complete => \A x \in AfterAudit : st[x] = "pending"
       /\ st["manuscript"] \notin {"pending", "skipped"} => st["audit"] = "succeeded" /\ Goes(s, d)
       /\ st["manuscript"] = "skipped" =>
             st["bibliography"] = "skipped" /\ \A x \in LeanStage : st[x] \in {"pending", "skipped"}
       /\ st["manuscript"] \notin Complete => \A x \in AfterManuscript : st[x] = "pending"
       /\ st["manuscript"] = "succeeded" =>
             /\ st["bibliography"] # "skipped"
             /\ st["bibliography"] # "succeeded" =>
                   \A x \in LeanStage : st[x] \in {"pending", "skipped"}
             /\ st["feasibility"] = "skipped" =>
                   ~d.draft.good \/ s.opt # "full" \/ s.consent = "no"

\* The version of the artifact of a stage that is on disk d.
Artifact(d, stage) ==
    CASE stage = "prompt"      -> d.prompt.ver
      [] stage = "research"    -> d.tree.live.ver
      [] stage = "manuscript"  -> d.draft.ver
      [] stage = "feasibility" -> d.lean.ver
      [] stage = "report"      -> d.report.ver
      [] OTHER                 -> 0

\* The records are those of the files, and each file was made from the one before.
Stored(s, d) ==
    /\ \A x \in Stage : s.rec[x] = IF s.st[x] = "succeeded" THEN Artifact(d, x) ELSE 0
    /\ s.st["research"] = "succeeded" => d.tree.live.ver # 0 /\ d.tree.live.from = d.prompt.ver
    /\ s.st["manuscript"] = "succeeded" => d.draft.from = d.tree.live.ver
    /\ s.st["feasibility"] = "succeeded" =>
          d.lean.from = d.draft.ver /\ d.lean.outcome \in LeanOutcomes

\* A finished report tells the present statuses.
Filed(s, d) == Stored(s, d) /\ (s.st["report"] = "succeeded" => d.report.told = Told(s))

Trees(d) == d.tree.archived + (IF d.tree.exists THEN 1 ELSE 0)

\* An archive is pending only until the directory was moved, and a directory is
\* bound to the problem it was created for.
Rooted(s, d) ==
    /\ s.archive # 0 => s.archive = Trees(d) /\ s.st["research"] = "pending"
    /\ s.archive = 0 /\ d.tree.exists =>
          s.st["prompt"] = "succeeded" /\ d.prompt.clear /\ d.tree.live.from = d.prompt.ver
    /\ ~d.tree.exists => d.tree.live = NoTree

\* Without a forced command the answer on file is the answer on record, and no
\* generation overtakes the intent to migrate. c tells what the present command is.
Agreed(c, s, d) ==
    /\ s.intent = NoIntent \/ s.intent.to \in Providers
    /\ c.forced \/ s.consent \in {"none", d.consent}
    /\ c.forced \/ s.intent = NoIntent \/ s.gen <= s.intent.gen

Good(c, s, d) == Ordered(s, d) /\ Filed(s, d) /\ Rooted(s, d) /\ Agreed(c, s, d)

\* What a write of the present command may take away.
Excused(c, s, stage) ==
    \/ c.cmd.force # "none" /\ stage \in Downstream(Boundary(c.cmd.force))
    \/ /\ c.cmd.kind = "resume" /\ c.cmd.force = "none"
       /\ \/ stage = "manuscript" /\ s.st["bibliography"] \notin Complete
          \/ stage \in LeanStage /\ Unfinished(s.st) \cap LeanStage # {}
          \/ stage = "report" /\ Unfinished(s.st) # {}
    \/ c.cmd.kind \in {"regenerate", "rewrite"} /\ stage = "report"

Keeps(c, s, t) ==
    \A stage \in Stage : s.st[stage] = "succeeded" /\ t.st[stage] # "succeeded" => Excused(c, s, stage)

Fits(c, d, e) ==
    /\ Keeps(c, d.state, e.state)
    /\ d.consent # "none" /\ e.consent # d.consent =>
          \/ d.state.consent = "none"
          \/ c.cmd.force \in {"manuscript", "bibliography"} \cup LeanStage

Sound(c, d) == Good(c, d.state, d) /\ Trees(d) <= c.turn

\* Writing queue q one effect at a time leads from disk d to disk z, every disk on
\* the way is sound, and no write takes away what it may not.
Walk(c, d, q, z) ==
    \E t \in [0..Len(q) -> Disks] :
        /\ t[0] = d /\ t[Len(q)] = z
        /\ \A k \in 0..Len(q) : Sound(c, t[k])
        /\ \A k \in 1..Len(q) : t[k] = Written(t[k - 1], q[k]) /\ Fits(c, t[k - 1], t[k])

LEMMA NoWalk ==
    ASSUME NEW c, NEW d \in Disks
    PROVE  /\ Sound(c, d) => Walk(c, d, <<>>, d)
           /\ \A z : Walk(c, d, <<>>, z) => z = d /\ Sound(c, d)
<1>1. Len(<<>>) = 0 /\ 0..0 = {0} /\ 1..0 = {}
  OBVIOUS
<1>2. ASSUME Sound(c, d) PROVE Walk(c, d, <<>>, d)
  <2> DEFINE t == [k \in 0..0 |-> d]
  <2>1. t \in [0..Len(<<>>) -> Disks] /\ t[0] = d
    BY <1>1
  <2> QED BY <1>1, <1>2, <2>1 DEF Walk
<1>3. ASSUME NEW z, Walk(c, d, <<>>, z) PROVE z = d /\ Sound(c, d)
  BY <1>1, <1>3 DEF Walk
<1> QED BY <1>2, <1>3

LEMMA WalkStart ==
    ASSUME NEW c, NEW d \in Disks, NEW q \in Seq(Effects), NEW z, Walk(c, d, q, z)
    PROVE  Sound(c, d) /\ z \in Disks /\ Sound(c, z)
BY LenProperties DEF Walk

LEMMA WalkFirst ==
    ASSUME NEW c, NEW d \in Disks, NEW q \in Seq(Effects), NEW z, Walk(c, d, q, z), q # <<>>
    PROVE  /\ Written(d, Head(q)) \in Disks
           /\ Walk(c, Written(d, Head(q)), Tail(q), z)
           /\ Fits(c, d, Written(d, Head(q)))
<1>1. PICK t \in [0..Len(q) -> Disks] :
        /\ t[0] = d /\ t[Len(q)] = z
        /\ \A k \in 0..Len(q) : Sound(c, t[k])
        /\ \A k \in 1..Len(q) : t[k] = Written(t[k - 1], q[k]) /\ Fits(c, t[k - 1], t[k])
  BY DEF Walk
<1>2. /\ Len(q) \in Nat /\ Len(q) > 0 /\ Head(q) = q[1]
      /\ Tail(q) \in Seq(Effects) /\ Len(Tail(q)) = Len(q) - 1
      /\ \A k \in 1..Len(Tail(q)) : Tail(q)[k] = q[k + 1]
  BY HeadTailProperties, EmptySeq, LenProperties
<1> DEFINE u == [k \in 0..(Len(q) - 1) |-> t[k + 1]]
<1>3. t[1] = Written(d, Head(q)) /\ Fits(c, d, t[1]) /\ t[1] \in Disks
  <2>1. 1 \in 1..Len(q) /\ 1 - 1 = 0 /\ 1 \in 0..Len(q)
    BY <1>2
  <2>2. t[1] = Written(t[1 - 1], q[1]) /\ Fits(c, t[1 - 1], t[1])
    BY <1>1, <2>1
  <2> QED BY <1>1, <1>2, <2>1, <2>2
<1>4. u \in [0..Len(Tail(q)) -> Disks]
  BY <1>2
<1>5. u[0] = t[1] /\ u[Len(Tail(q))] = z
  BY <1>1, <1>2
<1>6. \A k \in 0..Len(Tail(q)) : Sound(c, u[k])
  <2> SUFFICES ASSUME NEW k \in 0..Len(Tail(q)) PROVE Sound(c, u[k])
    OBVIOUS
  <2>1. k + 1 \in 0..Len(q) /\ u[k] = t[k + 1]
    BY <1>2
  <2> QED BY <1>1, <2>1
<1>7. \A k \in 1..Len(Tail(q)) : u[k] = Written(u[k - 1], Tail(q)[k]) /\ Fits(c, u[k - 1], u[k])
  <2> SUFFICES ASSUME NEW k \in 1..Len(Tail(q))
               PROVE  u[k] = Written(u[k - 1], Tail(q)[k]) /\ Fits(c, u[k - 1], u[k])
    OBVIOUS
  <2>1. k + 1 \in 1..Len(q) /\ u[k] = t[k + 1] /\ u[k - 1] = t[(k + 1) - 1]
    BY <1>2
  <2>2. t[k + 1] = Written(t[(k + 1) - 1], q[k + 1]) /\ Fits(c, t[(k + 1) - 1], t[k + 1])
    BY <1>1, <2>1
  <2>3. Tail(q)[k] = q[k + 1]
    BY <1>2
  <2> QED BY <2>1, <2>2, <2>3
<1> HIDE DEF u
<1> QED BY <1>3, <1>4, <1>5, <1>6, <1>7 DEF Walk

\* One more effect before a walk.
LEMMA WalkCons ==
    ASSUME NEW c, NEW d \in Disks, NEW e \in Effects, NEW q \in Seq(Effects), NEW z,
           Sound(c, d), Fits(c, d, Written(d, e)), Walk(c, Written(d, e), q, z)
    PROVE  <<e>> \o q \in Seq(Effects) /\ Walk(c, d, <<e>> \o q, z)
<1> DEFINE p == <<e>> \o q
<1>1. PICK t \in [0..Len(q) -> Disks] :
        /\ t[0] = Written(d, e) /\ t[Len(q)] = z
        /\ \A k \in 0..Len(q) : Sound(c, t[k])
        /\ \A k \in 1..Len(q) : t[k] = Written(t[k - 1], q[k]) /\ Fits(c, t[k - 1], t[k])
  BY DEF Walk
<1>2. /\ Len(q) \in Nat /\ p \in Seq(Effects) /\ Len(p) = Len(q) + 1 /\ p[1] = e
      /\ \A k \in 1..Len(q) : p[k + 1] = q[k]
  <2>1. <<e>> \in Seq(Effects) /\ Len(<<e>>) = 1 /\ <<e>>[1] = e
    OBVIOUS
  <2> QED BY <2>1, ConcatProperties, LenProperties
<1> DEFINE u == [k \in 0..Len(p) |-> IF k = 0 THEN d ELSE t[k - 1]]
<1>3. u \in [0..Len(p) -> Disks]
  BY <1>2
<1>4. u[0] = d /\ u[Len(p)] = z
  BY <1>1, <1>2
<1>5. \A k \in 0..Len(p) : Sound(c, u[k])
  <2> SUFFICES ASSUME NEW k \in 0..Len(p) PROVE Sound(c, u[k])
    OBVIOUS
  <2>1. CASE k = 0
    BY <1>2, <2>1
  <2>2. CASE k # 0
    BY <1>1, <1>2, <2>2
  <2> QED BY <2>1, <2>2
<1>6. \A k \in 1..Len(p) : u[k] = Written(u[k - 1], p[k]) /\ Fits(c, u[k - 1], u[k])
  <2> SUFFICES ASSUME NEW k \in 1..Len(p)
               PROVE  u[k] = Written(u[k - 1], p[k]) /\ Fits(c, u[k - 1], u[k])
    OBVIOUS
  <2>1. CASE k = 1
    <3>1. u[k] = t[0] /\ u[k - 1] = d /\ p[k] = e
      BY <1>2, <2>1
    <3> QED BY <1>1, <3>1
  <2>2. CASE k # 1
    <3>1. k - 1 \in 1..Len(q)
      BY <1>2, <2>2
    <3>2. u[k] = t[k - 1] /\ u[k - 1] = t[(k - 1) - 1]
      BY <1>2, <2>2
    <3>3. p[k] = q[k - 1]
      BY <1>2, <3>1
    <3> QED BY <1>1, <3>1, <3>2, <3>3
  <2> QED BY <2>1, <2>2
<1> HIDE DEF u
<1> QED BY <1>2, <1>3, <1>4, <1>5, <1>6 DEF Walk

\* One walk after another.
LEMMA WalkJoin ==
    ASSUME NEW c, NEW d \in Disks, NEW p \in Seq(Effects), NEW y, NEW q \in Seq(Effects), NEW z,
           Walk(c, d, p, y), Walk(c, y, q, z)
    PROVE  p \o q \in Seq(Effects) /\ Walk(c, d, p \o q, z)
<1> DEFINE r == p \o q
<1>1. PICK t \in [0..Len(p) -> Disks] :
        /\ t[0] = d /\ t[Len(p)] = y
        /\ \A k \in 0..Len(p) : Sound(c, t[k])
        /\ \A k \in 1..Len(p) : t[k] = Written(t[k - 1], p[k]) /\ Fits(c, t[k - 1], t[k])
  BY DEF Walk
<1>2. PICK v \in [0..Len(q) -> Disks] :
        /\ v[0] = y /\ v[Len(q)] = z
        /\ \A k \in 0..Len(q) : Sound(c, v[k])
        /\ \A k \in 1..Len(q) : v[k] = Written(v[k - 1], q[k]) /\ Fits(c, v[k - 1], v[k])
  BY DEF Walk
<1>3. /\ Len(p) \in Nat /\ Len(q) \in Nat /\ r \in Seq(Effects) /\ Len(r) = Len(p) + Len(q)
      /\ \A k \in 1..Len(p) : r[k] = p[k]
      /\ \A k \in 1..Len(r) : k > Len(p) => r[k] = q[k - Len(p)]
  BY ConcatProperties, LenProperties
<1> DEFINE u == [k \in 0..Len(r) |-> IF k <= Len(p) THEN t[k] ELSE v[k - Len(p)]]
<1> HIDE DEF r
<1>4. u \in [0..Len(r) -> Disks]
  <2>1. \A k \in 0..Len(r) : (IF k <= Len(p) THEN t[k] ELSE v[k - Len(p)]) \in Disks
    <3> SUFFICES ASSUME NEW k \in 0..Len(r)
                 PROVE  (IF k <= Len(p) THEN t[k] ELSE v[k - Len(p)]) \in Disks
      OBVIOUS
    <3>1. k <= Len(p) => k \in 0..Len(p)
      BY <1>3
    <3>2. ~(k <= Len(p)) => k - Len(p) \in 0..Len(q)
      BY <1>3
    <3> QED BY <1>1, <1>2, <3>1, <3>2
  <2> QED BY <2>1
<1>5. u[0] = d /\ u[Len(r)] = z
  <2>1. u[0] = t[0] /\ 0 \in 0..Len(r) /\ Len(r) \in 0..Len(r)
    BY <1>3
  <2>2. CASE Len(q) = 0
    <3>1. Len(r) = Len(p) /\ u[Len(r)] = t[Len(p)]
      BY <1>3, <2>1, <2>2
    <3> QED BY <1>1, <1>2, <2>1, <2>2, <3>1
  <2>3. CASE Len(q) # 0
    <3>1. u[Len(r)] = v[Len(q)]
      <4>1. ~(Len(r) <= Len(p)) /\ Len(r) - Len(p) = Len(q)
        BY <1>3, <2>3
      <4> QED BY <2>1, <4>1
    <3> QED BY <1>1, <1>2, <2>1, <3>1
  <2> QED BY <2>2, <2>3
<1>6. \A k \in 0..Len(r) : Sound(c, u[k])
  <2> SUFFICES ASSUME NEW k \in 0..Len(r) PROVE Sound(c, u[k])
    OBVIOUS
  <2>1. CASE k <= Len(p)
    <3>1. k \in 0..Len(p) /\ u[k] = t[k]
      BY <1>3, <2>1
    <3> QED BY <1>1, <3>1
  <2>2. CASE ~(k <= Len(p))
    <3>1. k - Len(p) \in 0..Len(q) /\ u[k] = v[k - Len(p)]
      BY <1>3, <2>2
    <3> QED BY <1>2, <3>1
  <2> QED BY <2>1, <2>2
<1>7. \A k \in 1..Len(r) : u[k] = Written(u[k - 1], r[k]) /\ Fits(c, u[k - 1], u[k])
  <2> SUFFICES ASSUME NEW k \in 1..Len(r)
               PROVE  u[k] = Written(u[k - 1], r[k]) /\ Fits(c, u[k - 1], u[k])
    OBVIOUS
  <2>1. CASE k <= Len(p)
    <3>1. k \in 1..Len(p) /\ u[k] = t[k] /\ u[k - 1] = t[k - 1] /\ r[k] = p[k]
      BY <1>3, <2>1
    <3> QED BY <1>1, <3>1
  <2>2. CASE k = Len(p) + 1
    <3>1. u[k] = v[1] /\ u[k - 1] = v[0] /\ r[k] = q[1] /\ 1 \in 1..Len(q) /\ 1 - 1 = 0
      <4>1. /\ k \in 0..Len(r) /\ ~(k <= Len(p)) /\ k - Len(p) = 1
            /\ k - 1 \in 0..Len(r) /\ k - 1 = Len(p) /\ Len(p) <= Len(p)
        BY <1>3, <2>2
      <4>2. u[k] = v[1] /\ u[k - 1] = t[Len(p)]
        BY <4>1
      <4>3. r[k] = q[1] /\ 1 \in 1..Len(q)
        <5>1. k > Len(p) /\ 1 <= Len(q)
          BY <1>3, <2>2
        <5> QED BY <1>3, <4>1, <5>1
      <4> QED BY <1>1, <1>2, <4>2, <4>3
    <3>2. v[1] = Written(v[1 - 1], q[1]) /\ Fits(c, v[1 - 1], v[1])
      BY <1>2, <3>1
    <3> QED BY <3>1, <3>2
  <2>3. CASE k > Len(p) + 1
    <3> DEFINE j == k - Len(p)
    <3>1. /\ j \in 1..Len(q) /\ u[k] = v[j] /\ r[k] = q[j]
          /\ k - 1 \in 0..Len(r) /\ ~(k - 1 <= Len(p)) /\ (k - 1) - Len(p) = j - 1
      BY <1>3, <2>3
    <3>2. u[k - 1] = v[j - 1]
      BY <3>1
    <3> QED BY <1>2, <3>1, <3>2
  <2> QED BY <1>3, <2>1, <2>2, <2>3
<1> HIDE DEF u
<1>8. Walk(c, d, r, z)
  BY <1>4, <1>5, <1>6, <1>7 DEF Walk
<1> QED BY <1>3, <1>8 DEF r

\* Effect e leads from disk d to disk z.
Leads(c, d, e, z) == e \in Effects /\ z = Written(d, e) /\ Sound(c, z) /\ Fits(c, d, z)

LEMMA Tuples ==
    ASSUME NEW e \in Effects, NEW f \in Effects, NEW g \in Effects
    PROVE  <<e>> \o <<>> = <<e>> /\ <<e>> \o <<f>> = <<e, f>> /\ <<e>> \o <<f, g>> = <<e, f, g>>
<1>1. /\ <<e>> \in Seq(Effects) /\ <<f>> \in Seq(Effects) /\ <<e, f>> \in Seq(Effects)
      /\ <<f, g>> \in Seq(Effects) /\ <<e, f, g>> \in Seq(Effects)
  OBVIOUS
<1>2. <<e>> \o <<>> = <<e>>
  BY <1>1, ConcatEmptySeq
<1>3. <<e>> \o <<f>> = <<e, f>>
  <2>1. \A i \in 1..2 : (<<e>> \o <<f>>)[i] = <<e, f>>[i]
    BY <1>1, ConcatProperties
  <2>2. <<e>> \o <<f>> \in Seq(Effects) /\ Len(<<e>> \o <<f>>) = 2 /\ Len(<<e, f>>) = 2
    BY <1>1, ConcatProperties
  <2> QED BY <1>1, <2>1, <2>2, SeqEqual
<1>4. <<e>> \o <<f, g>> = <<e, f, g>>
  <2>1. \A i \in 1..3 : (<<e>> \o <<f, g>>)[i] = <<e, f, g>>[i]
    BY <1>1, ConcatProperties
  <2>2. <<e>> \o <<f, g>> \in Seq(Effects) /\ Len(<<e>> \o <<f, g>>) = 3 /\ Len(<<e, f, g>>) = 3
    BY <1>1, ConcatProperties
  <2> QED BY <1>1, <2>1, <2>2, SeqEqual
<1> QED BY <1>2, <1>3, <1>4

LEMMA WalkOne ==
    ASSUME NEW c, NEW d \in Disks, NEW e, NEW z, Sound(c, d), Leads(c, d, e, z)
    PROVE  <<e>> \in Seq(Effects) /\ z \in Disks /\ Walk(c, d, <<e>>, z)
<1>1. z \in Disks /\ Walk(c, z, <<>>, z)
  BY WrittenIsDisk, NoWalk DEF Leads
<1>2. <<>> \in Seq(Effects) /\ <<e>> \o <<>> = <<e>>
  BY Tuples DEF Leads
<1> QED BY <1>1, <1>2, WalkCons DEF Leads

LEMMA WalkTwo ==
    ASSUME NEW c, NEW d \in Disks, NEW e, NEW f, NEW y, NEW z, Sound(c, d), Leads(c, d, e, y), Leads(c, y, f, z)
    PROVE  <<e, f>> \in Seq(Effects) /\ z \in Disks /\ Walk(c, d, <<e, f>>, z)
<1>1. y \in Disks
  BY WrittenIsDisk DEF Leads
<1>2. <<f>> \in Seq(Effects) /\ z \in Disks /\ Walk(c, y, <<f>>, z)
  BY <1>1, WalkOne DEF Leads
<1>3. <<e>> \o <<f>> = <<e, f>>
  BY Tuples DEF Leads
<1>4. e \in Effects /\ y = Written(d, e) /\ Fits(c, d, y)
  BY DEF Leads
<1> QED BY <1>2, <1>3, <1>4, WalkCons

LEMMA WalkThree ==
    ASSUME NEW c, NEW d \in Disks, NEW e, NEW f, NEW g, NEW x, NEW y, NEW z,
           Sound(c, d), Leads(c, d, e, x), Leads(c, x, f, y), Leads(c, y, g, z)
    PROVE  <<e, f, g>> \in Seq(Effects) /\ z \in Disks /\ Walk(c, d, <<e, f, g>>, z)
<1>1. x \in Disks
  BY WrittenIsDisk DEF Leads
<1>2. <<f, g>> \in Seq(Effects) /\ z \in Disks /\ Walk(c, x, <<f, g>>, z)
  BY <1>1, WalkTwo DEF Leads
<1>3. <<e>> \o <<f, g>> = <<e, f, g>>
  BY Tuples DEF Leads
<1>4. e \in Effects /\ x = Written(d, e) /\ Fits(c, d, x)
  BY DEF Leads
<1> QED BY <1>2, <1>3, <1>4, WalkCons

(* ---- what goes with a disk as the state moves on -------------------------- *)
Succ(s, x) == s.st[x] = "succeeded"

\* What has succeeded stays so.
Grows(s, t) == \A x \in Stage : Succ(s, x) => Succ(t, x)

LEMMA GrowsIs ==
    ASSUME NEW c, NEW r, NEW s, NEW t, Grows(s, t)
    PROVE  Keeps(c, s, t) /\ (Keeps(c, r, s) => Keeps(c, r, t)) /\ (Grows(r, s) => Grows(r, t))
BY DEF Keeps, Grows, Succ

\* What a stage that is under way rests on.
Ready(s, d, x) ==
    /\ x = "research" => Succ(s, "prompt") /\ d.prompt.clear
    /\ x = "audit" => Succ(s, "research") /\ d.tree.live.outcome # "partial"
    /\ x = "manuscript" => Succ(s, "research") /\ Succ(s, "audit") /\ Goes(s, d)
    /\ x = "bibliography" => Succ(s, "manuscript")
    /\ x \in LeanStage => Succ(s, "manuscript") /\ Succ(s, "bibliography")

LEMMA StatusIs ==
    ASSUME NEW s \in RunState, NEW x \in Stage
    PROVE  /\ s.st[x] \in {"pending", "running", "failed", "interrupted", "succeeded", "skipped"}
           /\ s.st[x] \in Complete <=> s.st[x] \in {"succeeded", "skipped"}
           /\ s.st[x] \in Startable <=> s.st[x] \in {"pending", "failed", "interrupted"}
BY StageFacts DEF RunState, Complete

\* A stage that is not pending rests on what it needs.
LEMMA Rests ==
    ASSUME NEW s \in RunState, NEW d \in Disks, NEW x \in Stage, Ordered(s, d),
           s.st[x] \notin {"pending", "skipped"}
    PROVE  Ready(s, d, x)
<1> USE StatusIs, StageFacts DEF Ordered, Ready, Succ, AfterPrompt, AfterResearch, AfterAudit,
        AfterManuscript, LeanStage, Complete
<1>1. CASE x = "prompt" \/ x = "report" BY <1>1
<1>2. CASE x = "research" BY <1>2
<1>3. CASE x = "audit" BY <1>3
<1>4. CASE x = "manuscript" BY <1>4
<1>5. CASE x = "bibliography" BY <1>5
<1>6. CASE x \in LeanStage BY <1>6
<1> QED BY <1>1, <1>2, <1>3, <1>4, <1>5, <1>6

Active == {"running", "failed", "interrupted"}

\* A stage starts, fails or is interrupted.
LEMMA Busy ==
    ASSUME NEW c, NEW s \in RunState, NEW d \in Disks, NEW x \in Stage, NEW v \in Active,
           Good(c, s, d), s.st[x] \notin Complete, Ready(s, d, x), s.archive = 0,
           ~Succ(s, "report")
    PROVE  /\ With(s, x, v) \in RunState /\ Good(c, With(s, x, v), d)
           /\ Grows(s, With(s, x, v))
<1> DEFINE t == With(s, x, v)
<1>1. /\ t \in RunState /\ t.st = [s.st EXCEPT ![x] = v] /\ t.rec = s.rec /\ t.archive = s.archive
      /\ t.opt = s.opt /\ t.consent = s.consent /\ t.intent = s.intent /\ t.gen = s.gen
      /\ s.st \in [Stage -> Status]
  <2>1. v \in Status
    BY StageFacts DEF Active
  <2> QED BY <2>1, WithIs DEF RunState
<1>2. \A y \in Stage : t.st[y] = IF y = x THEN v ELSE s.st[y]
  BY <1>1
<1>3. t.st[x] \notin Complete /\ t.st[x] \notin {"pending", "skipped", "succeeded"}
  BY <1>1, <1>2 DEF Complete, Active
<1> HIDE DEF t
<1>4. Ordered(t, d)
  <2> USE <1>1, <1>2, <1>3, StageFacts DEF Good, Ordered, Ready, Succ, AfterPrompt, AfterResearch,
          AfterAudit, AfterManuscript, LeanStage, Complete, Goes
  <2>1. CASE x = "prompt" BY <2>1
  <2>2. CASE x = "research" BY <2>2
  <2>3. CASE x = "audit" BY <2>3
  <2>4. CASE x = "manuscript" BY <2>4
  <2>5. CASE x = "bibliography" BY <2>5
  <2>6. CASE x \in LeanStage BY <2>6
  <2>7. CASE x = "report" BY <2>7
  <2> QED BY <2>1, <2>2, <2>3, <2>4, <2>5, <2>6, <2>7
<1>5. Filed(t, d)
  <2>1. ASSUME NEW y \in Stage
        PROVE  t.rec[y] = IF t.st[y] = "succeeded" THEN Artifact(d, y) ELSE 0
    BY <1>1, <1>2, <1>3 DEF Good, Filed, Stored, Complete
  <2>2. \A y \in Stage : t.st[y] = "succeeded" => s.st[y] = "succeeded"
    BY <1>2, <1>3
  <2>3. t.st["report"] # "succeeded"
    BY <1>2, <1>3, StageFacts DEF Succ
  <2> QED BY <2>1, <2>2, <2>3, StageFacts DEF Good, Filed, Stored
<1>6. Rooted(t, d)
  BY <1>1, <1>2, StageFacts DEF Good, Rooted, Complete
<1>7. Agreed(c, t, d)
  BY <1>1 DEF Good, Agreed
<1>8. Grows(s, t)
  BY <1>2 DEF Grows, Succ, Complete
<1> QED BY <1>1, <1>4, <1>5, <1>6, <1>7, <1>8 DEF Good, t

\* A stage without an artifact of its own succeeds.
LEMMA Passes ==
    ASSUME NEW c, NEW s \in RunState, NEW d \in Disks, NEW x \in AfterResearch \ {"manuscript", "feasibility"},
           Good(c, s, d), Ready(s, d, x), s.archive = 0, ~Succ(s, "report")
    PROVE  /\ With(s, x, "succeeded") \in RunState /\ Good(c, With(s, x, "succeeded"), d)
           /\ Grows(s, With(s, x, "succeeded"))
<1> DEFINE t == With(s, x, "succeeded")
<1>1. /\ x \in {"audit", "bibliography", "alignment", "formalization", "verification"}
      /\ x \in Stage /\ "succeeded" \in Status
  BY StageFacts DEF AfterResearch, AfterAudit, AfterManuscript, LeanStage
<1>2. /\ t \in RunState /\ t.st = [s.st EXCEPT ![x] = "succeeded"] /\ t.rec = s.rec
      /\ t.archive = s.archive /\ t.opt = s.opt /\ t.consent = s.consent /\ t.intent = s.intent
      /\ t.gen = s.gen /\ s.st \in [Stage -> Status]
  BY <1>1, WithIs DEF RunState
<1>3. \A y \in Stage : t.st[y] = IF y = x THEN "succeeded" ELSE s.st[y]
  BY <1>2
<1> HIDE DEF t
<1>4. Ordered(t, d)
  <2> USE <1>2, <1>3, StageFacts DEF Good, Ordered, Ready, Succ, AfterPrompt, AfterResearch,
          AfterAudit, AfterManuscript, LeanStage, Complete, Goes
  <2>1. CASE x = "audit" BY <2>1
  <2>2. CASE x = "bibliography" BY <2>2
  <2>3. CASE x \in {"alignment", "formalization", "verification"} BY <2>3
  <2> QED BY <1>1, <2>1, <2>2, <2>3
<1>5. Filed(t, d)
  <2>1. ASSUME NEW y \in Stage
        PROVE  t.rec[y] = IF t.st[y] = "succeeded" THEN Artifact(d, y) ELSE 0
    <3>1. Artifact(d, x) = 0
      BY <1>1 DEF Artifact
    <3> QED BY <1>2, <1>3, <3>1 DEF Good, Filed, Stored
  <2>2. \A y \in {"research", "manuscript", "feasibility", "report"} : t.st[y] = s.st[y]
    BY <1>1, <1>3, StageFacts
  <2> QED BY <2>1, <2>2, StageFacts DEF Good, Filed, Stored, Succ
<1>6. Rooted(t, d)
  BY <1>1, <1>2, <1>3, StageFacts DEF Good, Rooted
<1>7. Agreed(c, t, d)
  BY <1>2 DEF Good, Agreed
<1>8. Grows(s, t)
  BY <1>3 DEF Grows, Succ
<1> QED BY <1>2, <1>4, <1>5, <1>6, <1>7, <1>8 DEF Good, t

\* The artifact of stage x is on disk and was made from the present one before it.
Made(s, d, x, n) ==
    /\ Artifact(d, x) = n
    /\ x = "research" => d.tree.live.from = d.prompt.ver
    /\ x = "manuscript" => d.draft.from = d.tree.live.ver
    /\ x = "feasibility" => d.lean.from = d.draft.ver /\ d.lean.outcome \in LeanOutcomes
    /\ x = "report" => d.report.told = Told(s)

\* A stage succeeds with its artifact.
LEMMA Records ==
    ASSUME NEW c, NEW s \in RunState, NEW d \in Disks, NEW n \in Version,
           NEW x \in {"prompt", "research", "manuscript", "feasibility", "report"},
           Good(c, s, d), s.st[x] \notin Complete, Ready(s, d, x), Made(s, d, x, n), s.archive = 0,
           ~Succ(s, "report"), n # 0
    PROVE  /\ Succeeded(s, x, n) \in RunState /\ Good(c, Succeeded(s, x, n), d)
           /\ Grows(s, Succeeded(s, x, n))
<1> DEFINE t == Succeeded(s, x, n)
<1>1. x \in Stage
  BY StageFacts
<1>2. /\ t \in RunState /\ t.st = [s.st EXCEPT ![x] = "succeeded"] /\ t.rec = [s.rec EXCEPT ![x] = n]
      /\ t.archive = s.archive /\ t.opt = s.opt /\ t.consent = s.consent /\ t.intent = s.intent
      /\ t.gen = s.gen /\ s.st \in [Stage -> Status] /\ s.rec \in [Stage -> Version]
  <2>1. t \in RunState /\ t.st = [s.st EXCEPT ![x] = "succeeded"]
    BY <1>1, SucceededIs
  <2>2. t.rec = [s.rec EXCEPT ![x] = n]
    BY DEF RunState, Succeeded
  <2> QED BY <2>1, <2>2 DEF RunState, Succeeded
<1>3. \A y \in Stage : t.st[y] = IF y = x THEN "succeeded" ELSE s.st[y]
  BY <1>2
<1> HIDE DEF t
<1>4. Ordered(t, d)
  <2> USE <1>2, <1>3, StageFacts DEF Good, Ordered, Ready, Succ, AfterPrompt, AfterResearch,
          AfterAudit, AfterManuscript, LeanStage, Complete, Goes
  <2>1. CASE x = "prompt" BY <2>1
  <2>2. CASE x = "research" BY <2>2
  <2>3. CASE x = "manuscript" BY <2>3
  <2>4. CASE x = "feasibility" BY <2>4
  <2>5. CASE x = "report" BY <2>5
  <2> QED BY <2>1, <2>2, <2>3, <2>4, <2>5
<1>5. Filed(t, d)
  <2>1. ASSUME NEW y \in Stage
        PROVE  t.rec[y] = IF t.st[y] = "succeeded" THEN Artifact(d, y) ELSE 0
    BY <1>1, <1>2, <1>3 DEF Good, Filed, Stored, Made
  <2>2. Succ(t, "research") => d.tree.live.ver # 0 /\ d.tree.live.from = d.prompt.ver
    <3>1. CASE x = "research"
      <4>1. Artifact(d, x) = d.tree.live.ver
        BY <3>1 DEF Artifact
      <4> QED BY <1>1, <3>1, <4>1 DEF Made
    <3>2. CASE x # "research"
      BY <1>3, <3>2, StageFacts DEF Good, Filed, Stored, Succ
    <3> QED BY <3>1, <3>2
  <2>3. Succ(t, "manuscript") => d.draft.from = d.tree.live.ver
    BY <1>3, StageFacts DEF Good, Filed, Stored, Succ, Made
  <2>4. Succ(t, "feasibility") => d.lean.from = d.draft.ver /\ d.lean.outcome \in LeanOutcomes
    BY <1>3, StageFacts DEF Good, Filed, Stored, Succ, Made
  <2>5. Succ(t, "report") => d.report.told = Told(t)
    <3>1. ASSUME x = "report" PROVE Told(t) = Told(s)
      BY <1>3, <3>1 DEF Told
    <3> QED BY <1>3, <3>1, StageFacts DEF Succ, Made
  <2> QED BY <2>1, <2>2, <2>3, <2>4, <2>5 DEF Filed, Stored, Succ
<1>6. Rooted(t, d)
  BY <1>2, <1>3, StageFacts DEF Good, Rooted
<1>7. Agreed(c, t, d)
  BY <1>2 DEF Good, Agreed
<1>8. Grows(s, t)
  BY <1>3 DEF Grows, Succ
<1> QED BY <1>2, <1>4, <1>5, <1>6, <1>7, <1>8 DEF Good, t

\* Stages that cannot run any more are skipped.
Skippable(s, d, stages) ==
    \/ stages = AllButPrompt /\ Succ(s, "prompt") /\ ~d.prompt.clear
    \/ stages = AllButResearch /\ Succ(s, "research") /\ s.st["audit"] \in Complete /\ ~Goes(s, d)
    \/ stages = {"audit"} /\ Succ(s, "research") /\ d.tree.live.outcome = "partial"
    \/ /\ stages = LeanStage /\ Succ(s, "manuscript")
       /\ ~d.draft.good \/ s.opt # "full" \/ s.consent = "no"
    \/ stages \subseteq LeanStage \ {"feasibility"} /\ Succ(s, "manuscript") /\ Succ(s, "bibliography")

LEMMA Skips ==
    ASSUME NEW c, NEW s \in RunState, NEW d \in Disks, NEW stages, Good(c, s, d), s.archive = 0,
           Skippable(s, d, stages), ~Succ(s, "report")
    PROVE  /\ SkipPending(s, stages) \in RunState /\ Good(c, SkipPending(s, stages), d)
           /\ Grows(s, SkipPending(s, stages))
<1> DEFINE t == SkipPending(s, stages)
<1>1. /\ t \in RunState /\ t.rec = s.rec /\ t.archive = s.archive /\ t.opt = s.opt
      /\ t.consent = s.consent /\ t.intent = s.intent /\ t.gen = s.gen
      /\ \A y \in Stage : t.st[y] = IF y \in stages /\ s.st[y] = "pending" THEN "skipped" ELSE s.st[y]
  <2>1. /\ t \in RunState /\ t = [s EXCEPT !.st = t.st]
        /\ \A y \in Stage : t.st[y] = IF y \in stages /\ s.st[y] = "pending" THEN "skipped" ELSE s.st[y]
    BY SkipPendingIs
  <2> HIDE DEF t
  <2> QED BY <2>1 DEF RunState
<1> HIDE DEF t
<1>2. \A y \in Stage : (t.st[y] = "succeeded") <=> (s.st[y] = "succeeded")
  BY <1>1
<1>3. Ordered(t, d)
  <2>1. AllButPrompt = AfterPrompt /\ AllButResearch = AfterAudit
    BY StageFacts DEF AllButPrompt, AllButResearch, AfterPrompt, AfterResearch, AfterAudit,
                      AfterManuscript, LeanStage
  <2> USE <1>1, <2>1, StageFacts DEF Good, Ordered, Succ, AfterPrompt, AfterResearch,
          AfterAudit, AfterManuscript, LeanStage, Complete, Goes
  <2>2. CASE stages = AllButPrompt /\ Succ(s, "prompt") /\ ~d.prompt.clear BY <2>2
  <2>3. CASE stages = AllButResearch /\ Succ(s, "research") /\ s.st["audit"] \in Complete /\ ~Goes(s, d)
    BY <2>3
  <2>4. CASE stages = {"audit"} /\ Succ(s, "research") /\ d.tree.live.outcome = "partial"
    BY <2>4
  <2>5. CASE /\ stages = LeanStage /\ Succ(s, "manuscript")
             /\ ~d.draft.good \/ s.opt # "full" \/ s.consent = "no"
    BY <2>5
  <2>6. CASE /\ stages \subseteq LeanStage \ {"feasibility"}
             /\ Succ(s, "manuscript") /\ Succ(s, "bibliography")
    BY <2>6
  <2> QED BY <2>2, <2>3, <2>4, <2>5, <2>6 DEF Skippable
<1>4. Filed(t, d)
  BY <1>1, <1>2, StageFacts DEF Good, Filed, Stored, Succ
<1>5. Rooted(t, d)
  BY <1>1, <1>2, StageFacts DEF Good, Rooted
<1>6. Agreed(c, t, d)
  BY <1>1 DEF Good, Agreed
<1>7. Grows(s, t)
  BY <1>2 DEF Grows, Succ
<1> QED BY <1>1, <1>3, <1>4, <1>5, <1>6, <1>7 DEF Good, t

\* All of Good but what the report tells.
Nearly(c, s, d) == Ordered(s, d) /\ Stored(s, d) /\ Rooted(s, d) /\ Agreed(c, s, d)

\* Ctrl-C, or a resume: stages under way are interrupted, and nothing else changes.
LEMMA Interrupts ==
    ASSUME NEW c, NEW s \in RunState, NEW d \in Disks, Nearly(c, s, d)
    PROVE  /\ Interrupted(s) \in RunState /\ Nearly(c, Interrupted(s), d)
           /\ ~Succ(s, "report") => Good(c, Interrupted(s), d)
           /\ Grows(s, Interrupted(s))
<1> DEFINE t == Interrupted(s)
<1>1. /\ t \in RunState /\ t.rec = s.rec /\ t.archive = s.archive /\ t.opt = s.opt
      /\ t.consent = s.consent /\ t.intent = s.intent /\ t.gen = s.gen
      /\ \A y \in Stage : t.st[y] = IF s.st[y] = "running" THEN "interrupted" ELSE s.st[y]
  <2>1. /\ t \in RunState /\ t = [s EXCEPT !.st = t.st]
        /\ \A y \in Stage : t.st[y] = IF s.st[y] = "running" THEN "interrupted" ELSE s.st[y]
    BY InterruptedIs
  <2> HIDE DEF t
  <2> QED BY <2>1 DEF RunState
<1> HIDE DEF t
<1>2. \A y \in Stage : \A v \in {"pending", "succeeded", "skipped"} : (t.st[y] = v) <=> (s.st[y] = v)
  BY <1>1
<1>3. Ordered(t, d)
  BY <1>1, <1>2, StageFacts DEF Nearly, Ordered, AfterPrompt, AfterResearch, AfterAudit,
     AfterManuscript, LeanStage, Complete, Goes
<1>4. Stored(t, d)
  BY <1>1, <1>2, StageFacts DEF Nearly, Stored
<1>5. Rooted(t, d)
  BY <1>1, <1>2, StageFacts DEF Nearly, Rooted
<1>6. Agreed(c, t, d)
  BY <1>1 DEF Nearly, Agreed
<1>7. Grows(s, t)
  BY <1>2, StageFacts DEF Grows, Succ
<1>8. ~Succ(s, "report") => Filed(t, d)
  BY <1>2, <1>4, StageFacts DEF Filed, Succ
<1> QED BY <1>1, <1>3, <1>4, <1>5, <1>6, <1>7, <1>8 DEF Good, Nearly, t

(* ---- what goes with a disk as a file is written ---------------------------- *)
Files == {"state", "prompt", "tree", "draft", "lean", "consent", "report", "config", "graph"}

\* Disks d and e differ at most in the given file.
Only(d, e, file) == e \in Disks /\ \A f \in Files \ {file} : e[f] = d[f]

LEMMA PutIs ==
    ASSUME NEW d \in Disks, NEW f \in Files, NEW v, Put(f, v) \in Effects
    PROVE  Only(d, Written(d, Put(f, v)), f) /\ Written(d, Put(f, v))[f] = v
<1>1. Written(d, Put(f, v)) \in Disks /\ Put(f, v).field \in DOMAIN d
  BY WrittenIsDisk
<1>2. Put(f, v).field = f /\ Put(f, v).value = v
  BY DEF Put
<1>3. DOMAIN d = Files
  BY DEF Disks, Files
<1> QED BY <1>1, <1>2, <1>3 DEF Only, Written

LEMMA FileTypes ==
    ASSUME NEW d \in Disks
    PROVE  /\ d.state \in RunState /\ d.prompt \in PromptFile /\ d.tree \in TreeFile
           /\ d.draft \in DraftFile /\ d.lean \in LeanFile /\ d.consent \in Consents
           /\ d.report \in ReportFile /\ d.config \in Providers /\ d.graph \in Entries
BY DEF Disks

\* The files that no state speaks of.
LEMMA GoodElsewhere ==
    ASSUME NEW c, NEW s \in RunState, NEW d \in Disks, NEW e, NEW f \in {"state", "config", "graph"},
           Only(d, e, f), Good(c, s, d)
    PROVE  Good(c, s, e) /\ Trees(e) = Trees(d)
<1>1. /\ e.prompt = d.prompt /\ e.tree = d.tree /\ e.draft = d.draft /\ e.lean = d.lean
      /\ e.consent = d.consent /\ e.report = d.report
  BY DEF Only, Files
<1>2. \A x : Artifact(e, x) = Artifact(d, x)
  BY <1>1 DEF Artifact
<1>3. Ordered(s, e)
  BY <1>1 DEF Good, Ordered, Goes
<1>4. Filed(s, e)
  BY <1>1, <1>2 DEF Good, Filed, Stored
<1>5. Rooted(s, e) /\ Trees(e) = Trees(d)
  BY <1>1 DEF Good, Rooted, Trees
<1> QED BY <1>1, <1>3, <1>4, <1>5 DEF Good, Agreed

LEMMA GoodPrompt ==
    ASSUME NEW c, NEW s \in RunState, NEW d \in Disks, NEW e, Only(d, e, "prompt"),
           Good(c, s, d), ~Succ(s, "prompt"), s.archive = 0
    PROVE  Good(c, s, e) /\ Trees(e) = Trees(d)
<1>1. /\ e.tree = d.tree /\ e.draft = d.draft /\ e.lean = d.lean
      /\ e.consent = d.consent /\ e.report = d.report
  BY DEF Only, Files
<1>2. \A x \in Stage : s.st[x] = "succeeded" => x \in {"report"}
  BY StageFacts DEF Good, Ordered, Succ, AfterPrompt, AfterResearch, AfterAudit, AfterManuscript, LeanStage
<1>3. \A x : x # "prompt" => Artifact(e, x) = Artifact(d, x)
  BY <1>1 DEF Artifact
<1>4. Ordered(s, e)
  BY <1>1, <1>2, StageFacts DEF Good, Ordered, Goes, Succ, AfterPrompt, AfterResearch, AfterAudit,
     AfterManuscript, LeanStage, Complete
<1>5. Filed(s, e)
  BY <1>1, <1>2, <1>3, StageFacts DEF Good, Filed, Stored
<1>6. Rooted(s, e) /\ Trees(e) = Trees(d)
  BY <1>1 DEF Good, Rooted, Trees, Succ
<1> QED BY <1>1, <1>4, <1>5, <1>6 DEF Good, Agreed

\* The research directory is moved away, created for the present problem, or has
\* its result.
TreeMoves(s, d, e) ==
    \/ /\ s.archive # 0 /\ d.tree.exists
       /\ e.tree = [live |-> NoTree, exists |-> FALSE, archived |-> d.tree.archived + 1]
    \/ /\ s.archive = 0 /\ Succ(s, "prompt") /\ d.prompt.clear /\ s.st["research"] \notin Complete
       /\ e.tree.exists /\ e.tree.live.from = d.prompt.ver

LEMMA GoodTree ==
    ASSUME NEW c, NEW s \in RunState, NEW d \in Disks, NEW e, Only(d, e, "tree"),
           Good(c, s, d), TreeMoves(s, d, e)
    PROVE  Good(c, s, e) /\ (s.archive # 0 => Trees(e) = Trees(d))
<1>1. /\ e.prompt = d.prompt /\ e.draft = d.draft /\ e.lean = d.lean
      /\ e.consent = d.consent /\ e.report = d.report
  BY DEF Only, Files
<1>2. s.st["research"] \notin Complete
  BY DEF Good, Rooted, TreeMoves, Complete
<1>3. \A x \in Stage : s.st[x] = "succeeded" => x \in {"prompt", "report"}
  BY <1>2, StageFacts DEF Good, Ordered, Complete, AfterResearch, AfterAudit, AfterManuscript, LeanStage
<1>4. \A x : x # "research" => Artifact(e, x) = Artifact(d, x)
  BY <1>1 DEF Artifact
<1>5. Ordered(s, e)
  BY <1>1, <1>2, <1>3, StageFacts DEF Good, Ordered, Goes, AfterPrompt, AfterResearch, AfterAudit,
     AfterManuscript, LeanStage, Complete
<1>6. Filed(s, e)
  BY <1>1, <1>2, <1>3, <1>4, StageFacts DEF Good, Filed, Stored
<1>7. Rooted(s, e) /\ (s.archive # 0 => Trees(e) = Trees(d))
  <2>1. d.tree.archived \in Nat /\ s.archive \in Nat
    BY WorkflowAssumption DEF Disks, TreeFile, RunState, Version
  <2>2. CASE s.archive # 0
    <3>1. /\ ~e.tree.exists /\ e.tree.archived = d.tree.archived + 1 /\ e.tree.live = NoTree
          /\ d.tree.exists
      BY <2>2 DEF TreeMoves
    <3>2. Trees(e) = d.tree.archived + 1 /\ Trees(d) = d.tree.archived + 1
      BY <2>1, <3>1 DEF Trees
    <3> QED BY <2>2, <3>1, <3>2 DEF Good, Rooted
  <2>3. CASE s.archive = 0
    BY <1>1, <2>3 DEF TreeMoves, Rooted, Succ
  <2> QED BY <2>2, <2>3
<1> QED BY <1>1, <1>5, <1>6, <1>7 DEF Good, Agreed

LEMMA GoodDraft ==
    ASSUME NEW c, NEW s \in RunState, NEW d \in Disks, NEW e, Only(d, e, "draft"),
           Good(c, s, d), ~Succ(s, "manuscript")
    PROVE  Good(c, s, e) /\ Trees(e) = Trees(d)
<1>1. /\ e.prompt = d.prompt /\ e.tree = d.tree /\ e.lean = d.lean
      /\ e.consent = d.consent /\ e.report = d.report
  BY DEF Only, Files
<1>2. s.st["feasibility"] # "succeeded"
  BY DEF Good, Ordered, Succ, AfterManuscript, LeanStage, Complete
<1>3. \A x : x # "manuscript" => Artifact(e, x) = Artifact(d, x)
  BY <1>1 DEF Artifact
<1>4. Ordered(s, e)
  BY <1>1 DEF Good, Ordered, Goes, Succ
<1>5. Filed(s, e)
  BY <1>1, <1>2, <1>3, StageFacts DEF Good, Filed, Stored, Succ
<1>6. Rooted(s, e) /\ Trees(e) = Trees(d)
  BY <1>1 DEF Good, Rooted, Trees
<1> QED BY <1>1, <1>4, <1>5, <1>6 DEF Good, Agreed

LEMMA GoodLean ==
    ASSUME NEW c, NEW s \in RunState, NEW d \in Disks, NEW e, Only(d, e, "lean"),
           Good(c, s, d), ~Succ(s, "feasibility")
    PROVE  Good(c, s, e) /\ Trees(e) = Trees(d)
<1>1. /\ e.prompt = d.prompt /\ e.tree = d.tree /\ e.draft = d.draft
      /\ e.consent = d.consent /\ e.report = d.report
  BY DEF Only, Files
<1>2. \A x : x # "feasibility" => Artifact(e, x) = Artifact(d, x)
  BY <1>1 DEF Artifact
<1>3. Ordered(s, e)
  BY <1>1 DEF Good, Ordered, Goes
<1>4. Filed(s, e)
  BY <1>1, <1>2, StageFacts DEF Good, Filed, Stored, Succ
<1>5. Rooted(s, e) /\ Trees(e) = Trees(d)
  BY <1>1 DEF Good, Rooted, Trees
<1> QED BY <1>1, <1>3, <1>4, <1>5 DEF Good, Agreed

LEMMA GoodReport ==
    ASSUME NEW c, NEW s \in RunState, NEW d \in Disks, NEW e, Only(d, e, "report"),
           Good(c, s, d), ~Succ(s, "report")
    PROVE  Good(c, s, e) /\ Trees(e) = Trees(d)
<1>1. /\ e.prompt = d.prompt /\ e.tree = d.tree /\ e.draft = d.draft /\ e.lean = d.lean
      /\ e.consent = d.consent
  BY DEF Only, Files
<1>2. \A x : x # "report" => Artifact(e, x) = Artifact(d, x)
  BY <1>1 DEF Artifact
<1>3. Ordered(s, e)
  BY <1>1 DEF Good, Ordered, Goes
<1>4. Filed(s, e)
  BY <1>1, <1>2, StageFacts DEF Good, Filed, Stored, Succ
<1>5. Rooted(s, e) /\ Trees(e) = Trees(d)
  BY <1>1 DEF Good, Rooted, Trees
<1> QED BY <1>1, <1>3, <1>4, <1>5 DEF Good, Agreed

LEMMA GoodConsent ==
    ASSUME NEW c, NEW s \in RunState, NEW d \in Disks, NEW e, Only(d, e, "consent"),
           Good(c, s, d), s.consent = "none" \/ c.forced
    PROVE  Good(c, s, e) /\ Trees(e) = Trees(d)
<1>1. /\ e.prompt = d.prompt /\ e.tree = d.tree /\ e.draft = d.draft /\ e.lean = d.lean
      /\ e.report = d.report
  BY DEF Only, Files
<1>2. \A x : Artifact(e, x) = Artifact(d, x)
  BY <1>1 DEF Artifact
<1>3. Ordered(s, e)
  BY <1>1 DEF Good, Ordered, Goes
<1>4. Filed(s, e)
  BY <1>1, <1>2 DEF Good, Filed, Stored
<1>5. Rooted(s, e) /\ Trees(e) = Trees(d)
  BY <1>1 DEF Good, Rooted, Trees
<1> QED BY <1>1, <1>3, <1>4, <1>5 DEF Good, Agreed

(* ---- what goes with a disk as checkpoints are withdrawn -------------------- *)
LEMMA Invalidates ==
    ASSUME NEW c, NEW s \in RunState, NEW d \in Disks, NEW b \in Boundaries, Nearly(c, s, d)
    PROVE  /\ InvalidateFrom(s, b) \in RunState
           /\ InvalidateFrom(s, b).archive = s.archive /\ InvalidateFrom(s, b).consent = s.consent
           /\ InvalidateFrom(s, b).correct = s.correct /\ InvalidateFrom(s, b).gen = s.gen
           /\ InvalidateFrom(s, b).intent = s.intent /\ InvalidateFrom(s, b).opt = s.opt
           /\ Ordered(InvalidateFrom(s, b), d) /\ Filed(InvalidateFrom(s, b), d)
           /\ Agreed(c, InvalidateFrom(s, b), d)
           /\ b # "prompt" => Good(c, InvalidateFrom(s, b), d)
<1> DEFINE t == InvalidateFrom(s, b)
<1>1. /\ t \in RunState /\ t.archive = s.archive /\ t.opt = s.opt /\ t.correct = s.correct
      /\ t.consent = s.consent /\ t.intent = s.intent /\ t.gen = s.gen
      /\ \A y \in Stage : /\ t.st[y] = IF y \in Downstream(b) THEN "pending" ELSE s.st[y]
                          /\ t.rec[y] = IF y \in Downstream(b) THEN 0 ELSE s.rec[y]
  <2>1. /\ t \in RunState /\ t = [s EXCEPT !.st = t.st, !.rec = t.rec]
        /\ \A y \in Stage : /\ t.st[y] = IF y \in Downstream(b) THEN "pending" ELSE s.st[y]
                            /\ t.rec[y] = IF y \in Downstream(b) THEN 0 ELSE s.rec[y]
    BY InvalidateIs
  <2> HIDE DEF t
  <2> QED BY <2>1 DEF RunState
<1> HIDE DEF t
<1>2. Ordered(t, d)
  <2> USE <1>1, Downstreams, StageFacts DEF Nearly, Ordered, AfterPrompt, AfterResearch, AfterAudit,
          AfterManuscript, LeanStage, Complete, Goes
  <2>1. CASE b = "prompt" BY <2>1
  <2>2. CASE b = "research" BY <2>2
  <2>3. CASE b = "manuscript" BY <2>3
  <2>4. CASE b = "feasibility" BY <2>4
  <2>5. CASE b = "report" BY <2>5
  <2> QED BY <2>1, <2>2, <2>3, <2>4, <2>5 DEF Boundaries
<1>3. "report" \in Downstream(b)
  BY Downstreams DEF Boundaries
<1>4. Filed(t, d)
  <2>1. \A y \in Stage : t.st[y] = "succeeded" => s.st[y] = "succeeded"
    BY <1>1
  <2>2. t.st["report"] # "succeeded"
    BY <1>1, <1>3, StageFacts
  <2>3. \A y \in Stage : t.rec[y] = IF t.st[y] = "succeeded" THEN Artifact(d, y) ELSE 0
    BY <1>1 DEF Nearly, Stored
  <2> QED BY <2>1, <2>2, <2>3, StageFacts DEF Nearly, Filed, Stored
<1>5. b # "prompt" => Rooted(t, d)
  <2>1. b # "prompt" => t.st["prompt"] = s.st["prompt"]
    BY <1>1, Downstreams, StageFacts DEF Boundaries, AfterPrompt, AfterResearch, AfterAudit, AfterManuscript, LeanStage
  <2>2. s.st["research"] = "pending" => t.st["research"] = "pending"
    BY <1>1, StageFacts
  <2> QED BY <1>1, <2>1, <2>2 DEF Nearly, Rooted
<1>6. Agreed(c, t, d)
  BY <1>1 DEF Nearly, Agreed
<1> QED BY <1>1, <1>2, <1>4, <1>5, <1>6 DEF Good, t

\* Marks of the state beside statuses and records.
LEMMA Aside ==
    ASSUME NEW c, NEW s \in RunState, NEW d \in Disks, NEW t \in RunState, Good(c, s, d),
           t.st = s.st, t.rec = s.rec, t.opt = s.opt, t.archive = s.archive,
           t.consent = s.consent \/ s.consent # "no" \/ s.st["feasibility"] # "skipped",
           Agreed(c, t, d)
    PROVE  Good(c, t, d)
<1>1. Ordered(t, d)
  BY DEF Good, Ordered, Goes
<1>2. Filed(t, d)
  BY DEF Good, Filed, Stored, Told
<1>3. Rooted(t, d)
  BY DEF Good, Rooted
<1> QED BY <1>1, <1>2, <1>3 DEF Good

LEMMA GoodNearly ==
    ASSUME NEW c, NEW s, NEW d, Good(c, s, d)
    PROVE  Nearly(c, s, d)
BY DEF Good, Nearly, Filed

(* ---- one effect ------------------------------------------------------------ *)
Holding(d, s) == [d EXCEPT !.state = s]

LEMMA Saves ==
    ASSUME NEW c, NEW d \in Disks, NEW t \in RunState, Good(c, t, d), Trees(d) <= c.turn,
           Keeps(c, d.state, t)
    PROVE  /\ Leads(c, d, Save(t), Holding(d, t))
           /\ Only(d, Holding(d, t), "state") /\ Holding(d, t) \in Disks
           /\ Holding(d, t).state = t
           /\ Good(c, t, Holding(d, t)) /\ Trees(Holding(d, t)) <= c.turn
<1> DEFINE z == Holding(d, t)
<1>1. Save(t) \in Effects /\ z = Written(d, Save(t))
  BY EffectIs DEF Save, Put, Written, Holding
<1>2. Only(d, z, "state") /\ z.state = t
  BY <1>1, PutIs DEF Files, Save
<1> HIDE DEF z
<1>3. z \in Disks /\ z.consent = d.consent
  BY <1>2 DEF Only, Files
<1>4. Good(c, t, z) /\ Trees(z) = Trees(d)
  BY <1>2, GoodElsewhere
<1>5. Fits(c, d, z)
  BY <1>2, <1>3 DEF Fits
<1>6. Sound(c, z)
  BY <1>2, <1>4 DEF Sound
<1> QED BY <1>1, <1>2, <1>3, <1>4, <1>5, <1>6 DEF Leads, z

LEMMA KeepsSame ==
    ASSUME NEW c, NEW s, NEW t, t.st = s.st
    PROVE  Keeps(c, s, t)
BY DEF Keeps

LEMMA Puts ==
    ASSUME NEW c, NEW d \in Disks, NEW f \in Files \ {"state"}, NEW v, Put(f, v) \in Effects,
           Good(c, d.state, Written(d, Put(f, v))), Trees(Written(d, Put(f, v))) <= c.turn,
           \/ f # "consent" \/ d.state.consent = "none"
           \/ c.cmd.force \in {"manuscript", "bibliography"} \cup LeanStage
    PROVE  /\ Leads(c, d, Put(f, v), Written(d, Put(f, v)))
           /\ Only(d, Written(d, Put(f, v)), f) /\ Written(d, Put(f, v)) \in Disks
           /\ Written(d, Put(f, v)).state = d.state
<1> DEFINE z == Written(d, Put(f, v))
<1>1. Only(d, z, f)
  BY PutIs
<1> HIDE DEF z
<1>2. z \in Disks /\ z.state = d.state /\ (f # "consent" => z.consent = d.consent)
  BY <1>1 DEF Only, Files
<1>3. Keeps(c, d.state, z.state)
  BY <1>2, KeepsSame
<1>4. Fits(c, d, z)
  BY <1>2, <1>3 DEF Fits
<1>5. Sound(c, z)
  BY <1>2 DEF Sound, z
<1> QED BY <1>1, <1>2, <1>4, <1>5 DEF Leads, z

(* ---- the invariant --------------------------------------------------------- *)
Places == Awaits \cup {"off", "load", "plan", "migrate", "prompt", "research", "audit", "manuscript",
                       "consent", "lean", "report", "explaining", "rewriting"}
Late   == {"consent", "asking", "lean", "proving"}

\* What is known at a place of command c, with run state s, of the disk z that
\* the effects still to be written lead to.
Stands(c, place, s, z) ==
    /\ place \notin {"off", "load"} => Good(c, s, z) /\ s.archive = 0
    /\ place \notin {"off", "load", "migrate", "explaining"} => z.state = s
    /\ place \in {"migrate", "explaining"} => Keeps(c, z.state, s)
    /\ place \notin {"off", "load", "plan"} => ~Succ(s, "report")
    /\ place \in {"load", "plan", "migrate", "prompt", "compiling", "research"} => Trees(z) < c.turn
    /\ place = "compiling" => s.st["prompt"] = "running"
    /\ place \in {"research", "researching"} => Succ(s, "prompt") /\ z.prompt.clear
    /\ place = "researching" => s.st["research"] = "running" /\ z.tree.exists
    /\ place = "audit" => Succ(s, "research")
    /\ place \in {"manuscript"} \cup Late => Succ(s, "research") /\ Succ(s, "audit") /\ Goes(s, z)
    /\ place = "writing" => s.st["manuscript"] = "running"
    /\ place \in Late => z.draft.good /\ s.opt = "full" /\ Succ(s, "manuscript")
    /\ place \in Late \ {"consent"} => Succ(s, "bibliography")
    /\ place = "asking" => s.consent = "none"
    /\ place \in {"lean", "proving"} => s.consent = "yes"
    /\ place = "proving" => s.st["feasibility"] = "running"
    /\ place = "rewriting" => s.st["report"] = "running" /\ c.cmd.kind = "rewrite"

\* A resume in which nothing goes wrong can be held up by these only.
Stuck(s, z) ==
    /\ s.correct /\ s.st["manuscript"] \notin Complete
    /\ ~(z.draft.ver # 0 /\ z.draft.good /\ z.draft.from = z.tree.live.ver)
Handled(s, z) == (s.consent # "none" /\ z.consent # s.consent) \/ Stuck(s, z)

\* What is known in such a resume.
Smooth(place, s, z, how) ==
    /\ place \notin {"off", "load", "plan"} =>
          /\ \A x \in Stage : s.st[x] = "running" => place \in Awaits \ {"asking"} /\ x = StageAt(place)
          /\ s.st["manuscript"] \in Complete => s.st["bibliography"] \in Complete
    /\ place = "explaining" => Handled(s, z)
    /\ place = "report" => Unfinished(s.st) \subseteq LeanStage \cup {"report"} \/ Handled(s, z)
    /\ place = "off" => \/ Unfinished(z.state.st) \subseteq LeanStage
                        \/ how \in {"consent lost", "intent overtaken"}
                        \/ Stuck(z.state, z)

Now   == [cmd |-> cmd, turn |-> turn, forced |-> forced]
Plain == calm /\ cmd.kind = "resume"

Typed ==
    /\ disk \in Disks /\ queue \in Seq(Effects) /\ mem \in RunState /\ pc \in Places
    /\ cmd \in [kind : Commands, force : Forceable \cup {"none"}, provider : Providers \cup {"keep"}]
    /\ turn \in 1..MaxCommands /\ upsets \in 0..MaxUpsets /\ calm \in BOOLEAN /\ forced \in BOOLEAN

\* Only a resume forces a stage, and only a command that was asked to overrides anything.
Asked ==
    /\ cmd.force # "none" => cmd.kind = "resume" /\ forced
    /\ cmd.kind = "rewrite" => forced
    /\ Plain => cmd.force = "none" /\ cmd.provider = "keep"
    /\ pc = "off" \/ end = "none"

Journey == \E z \in Disks : /\ Walk(Now, disk, queue, z) /\ Stands(Now, pc, mem, z)
                            /\ Plain => Smooth(pc, mem, z, end)

IInv == Typed /\ Asked /\ RefusedOnlyAfterForce /\ Journey

\* With no effect left to write, the invariant speaks of the disk itself.
LEMMA AtRest ==
    ASSUME IInv, queue = <<>>
    PROVE  /\ disk \in Disks /\ mem \in RunState /\ disk.state \in RunState
           /\ Sound(Now, disk) /\ Good(Now, disk.state, disk) /\ Trees(disk) <= turn
           /\ turn \in 1..MaxCommands /\ turn \in Version /\ turn # 0
           /\ Stands(Now, pc, mem, disk) /\ (Plain => Smooth(pc, mem, disk, end))
<1>1. PICK z \in Disks : /\ Walk(Now, disk, queue, z) /\ Stands(Now, pc, mem, z)
                         /\ Plain => Smooth(pc, mem, z, end)
  BY DEF IInv, Journey
<1>2. disk \in Disks /\ mem \in RunState /\ turn \in 1..MaxCommands
  BY DEF IInv, Typed
<1>3. z = disk /\ Sound(Now, disk)
  BY <1>1, <1>2, NoWalk
<1>4. disk.state \in RunState
  BY <1>2, FileTypes
<1>5. Good(Now, disk.state, disk) /\ Trees(disk) <= turn
  BY <1>3 DEF Sound, Now
<1>6. turn \in Version /\ turn # 0
  BY <1>2, WorkflowAssumption DEF Version
<1> QED BY <1>1, <1>2, <1>3, <1>4, <1>5, <1>6

\* The process goes on at a place.
LEMMA Arrives ==
    ASSUME IInv, pc # "off", NEW place \in Places \ {"off"}, NEW s \in RunState,
           NEW q \in Seq(Effects), NEW z \in Disks,
           Walk(Now, disk, q, z), Stands(Now, place, s, z), Go(place, s, q),
           (Quiet /\ (Plain => Smooth(place, s, z, "none"))) \/ Upset
    PROVE  IInv'
<1>1. /\ pc' = place /\ mem' = s /\ queue' = q
      /\ disk' = disk /\ cmd' = cmd /\ turn' = turn /\ forced' = forced /\ end' = end
  BY DEF Go
<1>2. Now' = Now /\ end = "none"
  BY <1>1 DEF Now, IInv, Asked
<1>3. Plain' => Plain /\ Quiet
  <2>1. Upset => ~Plain'
    BY Zenon DEF Plain, Upset
  <2>2. Quiet => (Plain' => Plain)
    <3>1. cmd'.kind = cmd.kind
      BY <1>1
    <3>2. Quiet => (calm' => calm)
      BY Zenon DEF Quiet
    <3> QED BY <3>1, <3>2, Zenon DEF Plain
  <2> QED BY <2>1, <2>2
<1>4. Typed'
  <2>1. upsets' \in 0..MaxUpsets
    <3>1. upsets \in 0..MaxUpsets /\ MaxUpsets \in Nat
      BY WorkflowAssumption DEF IInv, Typed
    <3>2. upsets' = upsets \/ (upsets < MaxUpsets /\ upsets' = upsets + 1)
      BY DEF Quiet, Upset
    <3> QED BY <3>1, <3>2
  <2>2. calm' = calm \/ calm' = FALSE
    BY DEF Quiet, Upset
  <2>3. calm' \in BOOLEAN
    BY <2>2 DEF IInv, Typed
  <2> QED BY <1>1, <2>1, <2>3 DEF IInv, Typed
<1>5. Asked'
  BY <1>1, <1>2, <1>3 DEF IInv, Asked
<1>6. RefusedOnlyAfterForce'
  BY <1>1 DEF IInv, RefusedOnlyAfterForce
<1>7. Journey'
  <2>1. Walk(Now', disk', queue', z) /\ Stands(Now', pc', mem', z)
    BY <1>1, <1>2
  <2>2. Plain' => Smooth(pc', mem', z, end')
    <3>1. Upset => ~Plain'
      BY Zenon DEF Plain, Upset
    <3>2. Plain' => Smooth(place, s, z, "none")
      BY <1>3, <3>1
    <3> QED BY <1>1, <1>2, <3>2
  <2> QED BY <2>1, <2>2 DEF Journey
<1> QED BY <1>4, <1>5, <1>6, <1>7 DEF IInv

\* What a command may end with.
Fair(how) == /\ how \notin {"ambiguous archive", "artifact changed"}
             /\ how \in {"consent lost", "intent overtaken"} => forced

\* The command ends.
LEMMA Finishes ==
    ASSUME IInv, NEW how, NEW s \in RunState, NEW q \in Seq(Effects), NEW z \in Disks,
           Walk(Now, disk, q, z), Ends(how, s, q),
           Fair(how),
           (Quiet /\ (Plain => Smooth("off", s, z, how))) \/ Upset
    PROVE  IInv'
<1>1. /\ pc' = "off" /\ mem' = s /\ queue' = q /\ end' = how
      /\ disk' = disk /\ cmd' = cmd /\ turn' = turn /\ forced' = forced
  BY DEF Ends
<1>2. Now' = Now
  BY <1>1 DEF Now
<1>3. Plain' => Plain /\ Quiet
  <2>1. Upset => ~Plain'
    BY Zenon DEF Plain, Upset
  <2>2. Quiet => (Plain' => Plain)
    <3>1. cmd'.kind = cmd.kind
      BY <1>1
    <3>2. Quiet => (calm' => calm)
      BY Zenon DEF Quiet
    <3> QED BY <3>1, <3>2, Zenon DEF Plain
  <2> QED BY <2>1, <2>2
<1>4. Typed'
  <2>1. upsets' \in 0..MaxUpsets
    <3>1. upsets \in 0..MaxUpsets /\ MaxUpsets \in Nat
      BY WorkflowAssumption DEF IInv, Typed
    <3>2. upsets' = upsets \/ (upsets < MaxUpsets /\ upsets' = upsets + 1)
      BY DEF Quiet, Upset
    <3> QED BY <3>1, <3>2
  <2>2. calm' = calm \/ calm' = FALSE
    BY DEF Quiet, Upset
  <2>3. calm' \in BOOLEAN
    BY <2>2 DEF IInv, Typed
  <2> QED BY <1>1, <2>1, <2>3 DEF IInv, Typed, Places
<1>5. Asked'
  BY <1>1, <1>3 DEF IInv, Asked
<1>6. RefusedOnlyAfterForce'
  BY <1>1 DEF Fair, RefusedOnlyAfterForce
<1>7. Journey'
  <2>1. Stands(Now, "off", s, z)
    BY DEF Stands, Late
  <2>2. Walk(Now', disk', queue', z) /\ Stands(Now', pc', mem', z)
    BY <1>1, <1>2, <2>1
  <2>3. Plain' => Smooth(pc', mem', z, end')
    <3>1. Upset => ~Plain'
      BY Zenon DEF Plain, Upset
    <3>2. Plain' => Smooth("off", s, z, how)
      BY <1>3, <3>1
    <3> QED BY <1>1, <3>2
  <2> QED BY <2>2, <2>3 DEF Journey
<1> QED BY <1>4, <1>5, <1>6, <1>7 DEF IInv

(* ---- the beginning, writes, commands and crashes --------------------------- *)
LEMMA FreshIs ==
    ASSUME NEW opt \in {"full", "no_lean", "research_only"}
    PROVE  Fresh(opt) \in RunState /\ \A x \in Stage : Fresh(opt).st[x] = "pending"
<1>1. "pending" \in Status /\ 0 \in Version
  BY StageFacts, WorkflowAssumption DEF Version
<1> QED BY <1>1 DEF Fresh, RunState, NoIntent

LEMMA InitGood ==
    ASSUME Init, NEW s \in RunState, NEW opt \in {"full", "no_lean", "research_only"}, s = Fresh(opt)
    PROVE  disk \in Disks /\ Good(Now, s, disk) /\ Trees(disk) = 0
<1>1. PICK provider \in Providers :
        disk = [state |-> Fresh("full"), prompt |-> [ver |-> 0, clear |-> TRUE],
                tree |-> [live |-> NoTree, exists |-> FALSE, archived |-> 0],
                draft |-> [ver |-> 0, from |-> 0, good |-> TRUE],
                lean |-> [ver |-> 0, from |-> 0, outcome |-> "none"],
                consent |-> "none", report |-> [ver |-> 0, told |-> Told(Fresh("full"))],
                config |-> provider,
                graph |-> [research |-> "none", draft |-> "none", lean |-> "none"]]
  BY DEF Init
<1>2. 0 \in Version /\ Fresh("full") \in RunState
  BY WorkflowAssumption, FreshIs DEF Version
<1>3. Told(Fresh("full")) \in [Stage \ {"report"} -> Status]
  BY <1>2 DEF Told, RunState
<1>4. disk \in Disks
  BY <1>1, <1>2, <1>3 DEF Disks, PromptFile, TreeFile, DraftFile, LeanFile, Consents, ReportFile,
                          Entries, NoTree
<1>5. ~disk.tree.exists /\ disk.tree.archived = 0 /\ disk.tree.live = NoTree /\ disk.consent = "none"
  BY <1>1
<1>6. /\ s.archive = 0 /\ s.consent = "none" /\ s.intent = NoIntent
      /\ \A x \in Stage : s.st[x] = "pending" /\ s.rec[x] = 0
  BY DEF Fresh
<1>7. Ordered(s, disk)
  BY <1>6, StageFacts DEF Ordered, AfterPrompt, AfterResearch, AfterAudit, AfterManuscript, LeanStage,
                          Complete
<1>8. Filed(s, disk)
  BY <1>6, StageFacts DEF Filed, Stored
<1>9. Rooted(s, disk) /\ Trees(disk) = 0
  BY <1>5, <1>6 DEF Rooted, Trees
<1>10. Agreed(Now, s, disk)
  BY <1>6 DEF Agreed
<1> QED BY <1>4, <1>7, <1>8, <1>9, <1>10 DEF Good

\* The effect of a first save.
LEMMA SaveOne ==
    ASSUME NEW c, NEW d \in Disks, NEW s \in RunState, Sound(c, d), Good(c, s, d), Keeps(c, d.state, s)
    PROVE  /\ <<Save(s)>> \in Seq(Effects) /\ Holding(d, s) \in Disks
           /\ Walk(c, d, <<Save(s)>>, Holding(d, s))
           /\ Good(c, s, Holding(d, s)) /\ Holding(d, s).state = s
           /\ Only(d, Holding(d, s), "state") /\ Trees(Holding(d, s)) = Trees(d)
<1>1. Trees(d) <= c.turn
  BY DEF Sound
<1>2. /\ Leads(c, d, Save(s), Holding(d, s)) /\ Only(d, Holding(d, s), "state")
      /\ Holding(d, s) \in Disks /\ Holding(d, s).state = s /\ Good(c, s, Holding(d, s))
  BY <1>1, Saves
<1>3. Trees(Holding(d, s)) = Trees(d)
  BY <1>2, GoodElsewhere
<1> QED BY <1>2, <1>3, WalkOne

LEMMA Starting == Init => IInv
<1> SUFFICES ASSUME Init PROVE IInv
  OBVIOUS
<1>1. PICK opt \in Options : mem = Fresh(opt) /\ queue = <<Save(Fresh(opt))>>
  BY DEF Init
<1>2. /\ pc = "prompt" /\ cmd = [kind |-> "run", force |-> "none", provider |-> "keep"]
      /\ turn = 1 /\ upsets = 0 /\ calm = TRUE /\ forced = FALSE /\ end = "none"
      /\ disk.state = Fresh("full")
  BY DEF Init
<1>3. opt \in {"full", "no_lean", "research_only"}
  BY WorkflowAssumption
<1>4. Fresh(opt) \in RunState /\ Fresh("full") \in RunState
  BY <1>3, FreshIs
<1>5. disk \in Disks /\ Good(Now, Fresh(opt), disk) /\ Good(Now, Fresh("full"), disk) /\ Trees(disk) = 0
  BY <1>3, <1>4, InitGood
<1>6. Sound(Now, disk)
  BY <1>2, <1>5 DEF Sound, Now
<1>7. Keeps(Now, disk.state, Fresh(opt))
  BY <1>2, FreshIs DEF Keeps
<1> DEFINE z == Holding(disk, Fresh(opt))
<1>8. /\ queue \in Seq(Effects) /\ z \in Disks /\ Walk(Now, disk, queue, z)
      /\ Good(Now, Fresh(opt), z) /\ z.state = Fresh(opt) /\ Trees(z) = 0
  BY <1>1, <1>4, <1>5, <1>6, <1>7, SaveOne
<1> HIDE DEF z
<1>9. Stands(Now, pc, mem, z)
  <2>1. Fresh(opt).archive = 0 /\ ~Succ(Fresh(opt), "report") /\ Trees(z) < Now.turn
    BY <1>2, <1>3, <1>8, FreshIs, StageFacts DEF Fresh, Succ, Now
  <2> QED BY <1>1, <1>2, <1>8, <2>1 DEF Stands, Late
<1>10. ~Plain
  BY <1>2 DEF Plain
<1>11. Typed
  <2>1. 1 \in 1..MaxCommands /\ 0 \in 0..MaxUpsets
    BY WorkflowAssumption
  <2>2. cmd \in [kind : Commands, force : Forceable \cup {"none"}, provider : Providers \cup {"keep"}]
    BY <1>2 DEF Commands
  <2>3. calm \in BOOLEAN /\ forced \in BOOLEAN /\ pc \in Places
    BY <1>2 DEF Places
  <2> QED BY <1>1, <1>2, <1>4, <1>5, <1>8, <2>1, <2>2, <2>3 DEF Typed
<1>12. Asked /\ RefusedOnlyAfterForce
  BY <1>2 DEF Asked, RefusedOnlyAfterForce, Plain
<1> QED BY <1>8, <1>9, <1>10, <1>11, <1>12 DEF IInv, Journey

\* A write is the first step of the walk.
LEMMA WriteStep ==
    ASSUME IInv, Write
    PROVE  IInv' /\ disk' = Written(disk, Head(queue)) /\ Fits(Now, disk, disk')
<1>1. PICK z \in Disks : /\ Walk(Now, disk, queue, z) /\ Stands(Now, pc, mem, z)
                         /\ Plain => Smooth(pc, mem, z, end)
  BY DEF IInv, Journey
<1>2. disk \in Disks /\ queue \in Seq(Effects) /\ queue # <<>>
  BY DEF IInv, Typed, Write
<1>3. disk' = Written(disk, Head(queue)) /\ queue' = Tail(queue)
  BY DEF Write, Written
<1>4. disk' \in Disks /\ Walk(Now, disk', queue', z) /\ Fits(Now, disk, disk')
  BY <1>1, <1>2, <1>3, WalkFirst
<1>5. /\ mem' = mem /\ pc' = pc /\ cmd' = cmd /\ turn' = turn /\ upsets' = upsets /\ calm' = calm
      /\ forced' = forced /\ end' = end
  BY DEF Write
<1>6. Now' = Now /\ Plain' = Plain
  BY <1>5 DEF Now, Plain
<1>7. queue' \in Seq(Effects)
  BY <1>2, <1>3, HeadTailProperties
<1>8. Typed'
  BY <1>4, <1>5, <1>7 DEF IInv, Typed
<1>9. Asked' /\ RefusedOnlyAfterForce'
  BY <1>5, <1>6 DEF IInv, Asked, RefusedOnlyAfterForce
<1>10. Journey'
  <2>1. Walk(Now', disk', queue', z) /\ Stands(Now', pc', mem', z)
    BY <1>1, <1>4, <1>5, <1>6
  <2>2. Plain' => Smooth(pc', mem', z, end')
    BY <1>1, <1>5, <1>6
  <2> QED BY <2>1, <2>2 DEF Journey
<1> QED BY <1>3, <1>4, <1>8, <1>9, <1>10 DEF IInv

\* A further command.
LEMMA IssueStep ==
    ASSUME IInv, NEW command, Issue(command), Typed', Asked', RefusedOnlyAfterForce', forced => forced'
    PROVE  IInv'
<1>1. /\ disk' = disk /\ queue' = queue /\ mem' = mem /\ turn' = turn + 1 /\ pc' = "load"
      /\ queue = <<>>
  BY DEF Issue, At
<1>2. /\ disk \in Disks /\ disk.state \in RunState /\ Good(Now, disk.state, disk)
      /\ Trees(disk) <= turn /\ turn \in Nat
  BY <1>1, AtRest
<1>3. Agreed(Now', disk.state, disk)
  BY <1>2 DEF Good, Agreed, Now
<1>4. Good(Now', disk.state, disk)
  BY <1>2, <1>3 DEF Good
<1>5. Trees(disk) \in Nat
  BY <1>2, WorkflowAssumption DEF Disks, TreeFile, Version, Trees
<1>6. Trees(disk) < Now'.turn
  BY <1>1, <1>2, <1>5 DEF Now
<1>7. Sound(Now', disk)
  BY <1>2, <1>4, <1>5, <1>6, <1>1 DEF Sound, Now
<1>8. Walk(Now', disk', queue', disk)
  BY <1>1, <1>2, <1>7, NoWalk
<1>9. Stands(Now', pc', mem', disk)
  BY <1>1, <1>6 DEF Stands, Late
<1>10. Smooth(pc', mem', disk, end')
  BY <1>1 DEF Smooth
<1> QED BY <1>2, <1>8, <1>9, <1>10 DEF IInv, Journey

LEMMA CommandStep ==
    ASSUME IInv, Resume \/ SwitchBackend \/ ForceStage \/ Report
    PROVE  IInv' /\ disk' = disk
<1> DEFINE Given(command) ==
             command \in [kind : Commands, force : Forceable \cup {"none"},
                          provider : Providers \cup {"keep"}]
<1>1. ASSUME NEW command, Issue(command), Given(command), upsets' \in 0..MaxUpsets,
             calm' \in BOOLEAN, forced' \in BOOLEAN
      PROVE  Typed' /\ cmd' = command /\ pc' = "load" /\ end' = "none" /\ disk' = disk
  <2>1. /\ disk' = disk /\ queue' = queue /\ mem' = mem /\ turn' = turn + 1 /\ pc' = "load"
        /\ cmd' = command /\ end' = "none" /\ turn < MaxCommands
    BY <1>1 DEF Issue
  <2>2. turn' \in 1..MaxCommands
    BY <2>1, WorkflowAssumption DEF IInv, Typed
  <2>3. pc' \in Places
    BY <2>1 DEF Places
  <2> QED BY <1>1, <2>1, <2>2, <2>3 DEF IInv, Typed
<1>2. upsets \in 0..MaxUpsets /\ MaxUpsets \in Nat /\ forced \in BOOLEAN
  BY WorkflowAssumption DEF IInv, Typed
<1>3. Upset => upsets' \in 0..MaxUpsets /\ calm' = FALSE
  BY <1>2 DEF Upset
<1>4. ASSUME pc' = "load", end' = "none" PROVE RefusedOnlyAfterForce'
  BY <1>4 DEF RefusedOnlyAfterForce
<1>5. CASE Resume
  <2> DEFINE command == [kind |-> "resume", force |-> "none", provider |-> "keep"]
  <2>1. Issue(command) /\ calm' = TRUE /\ upsets' = upsets /\ forced' = forced
    BY <1>5 DEF Resume
  <2>2. Given(command)
    BY DEF Commands
  <2>3. Typed' /\ cmd' = command /\ pc' = "load" /\ end' = "none" /\ disk' = disk
    BY <1>1, <1>2, <2>1, <2>2
  <2>4. Asked'
    BY <2>3 DEF Asked
  <2> QED BY <1>4, <2>1, <2>3, <2>4, IssueStep
<1>6. CASE SwitchBackend
  <2>1. PICK provider \in Providers :
            Issue([kind |-> "resume", force |-> "none", provider |-> provider])
    BY <1>6 DEF SwitchBackend
  <2> DEFINE command == [kind |-> "resume", force |-> "none", provider |-> provider]
  <2>2. Upset /\ forced' = forced
    BY <1>6 DEF SwitchBackend
  <2>3. Given(command)
    BY DEF Commands
  <2>4. Typed' /\ cmd' = command /\ pc' = "load" /\ end' = "none" /\ disk' = disk
    BY <1>1, <1>2, <1>3, <2>1, <2>2, <2>3
  <2>5. Asked'
    BY <1>3, <2>2, <2>4 DEF Asked, Plain
  <2> QED BY <1>4, <2>1, <2>2, <2>4, <2>5, IssueStep
<1>7. CASE ForceStage
  <2>1. PICK stage \in Forceable :
            Issue([kind |-> "resume", force |-> stage, provider |-> "keep"])
    BY <1>7 DEF ForceStage
  <2> DEFINE command == [kind |-> "resume", force |-> stage, provider |-> "keep"]
  <2>2. Upset /\ forced' = TRUE
    BY <1>7 DEF ForceStage
  <2>3. Given(command)
    BY DEF Commands
  <2>4. Typed' /\ cmd' = command /\ pc' = "load" /\ end' = "none" /\ disk' = disk
    BY <1>1, <1>3, <2>1, <2>2, <2>3
  <2>5. Asked'
    BY <1>3, <2>2, <2>4 DEF Asked, Plain
  <2> QED BY <1>4, <2>1, <2>2, <2>4, <2>5, IssueStep
<1>8. CASE Report
  <2>1. PICK kind \in {"regenerate", "rewrite"} :
            /\ Issue([kind |-> kind, force |-> "none", provider |-> "keep"])
            /\ forced' = (forced \/ kind = "rewrite")
    BY <1>8 DEF Report
  <2> DEFINE command == [kind |-> kind, force |-> "none", provider |-> "keep"]
  <2>2. Upset
    BY <1>8 DEF Report
  <2>3. Given(command)
    BY DEF Commands
  <2>4. forced' \in BOOLEAN /\ (forced => forced') /\ (kind = "rewrite" => forced')
    BY <2>1, Zenon
  <2>5. Typed' /\ cmd' = command /\ pc' = "load" /\ end' = "none" /\ disk' = disk
    BY <1>1, <1>3, <2>1, <2>2, <2>3, <2>4
  <2>6. Asked'
    BY <1>3, <2>2, <2>4, <2>5 DEF Asked, Plain
  <2> QED BY <1>4, <2>1, <2>4, <2>5, <2>6, IssueStep
<1> QED BY <1>5, <1>6, <1>7, <1>8

\* The process dies between two writes.
LEMMA CrashStep ==
    ASSUME IInv, Crash
    PROVE  IInv' /\ disk' = disk
<1>1. PICK z \in Disks : Walk(Now, disk, queue, z)
  BY DEF IInv, Journey
<1>2. /\ disk \in Disks /\ disk.state \in RunState /\ queue \in Seq(Effects) /\ Sound(Now, disk)
  BY <1>1, WalkStart, FileTypes DEF IInv, Typed
<1>3. /\ pc' = "off" /\ queue' = <<>> /\ mem' = disk.state /\ end' = "crashed"
      /\ disk' = disk /\ cmd' = cmd /\ turn' = turn /\ forced' = forced /\ Upset
  BY DEF Crash
<1>4. Now' = Now
  BY <1>3 DEF Now
<1>5. ~Plain'
  BY <1>3, Zenon DEF Plain, Upset
<1>6. Typed'
  <2>1. upsets' \in 0..MaxUpsets /\ pc' \in Places /\ queue' \in Seq(Effects)
    BY <1>3, WorkflowAssumption DEF IInv, Typed, Upset, Places
  <2>2. calm' \in BOOLEAN
    BY <1>3 DEF Upset
  <2> QED BY <1>2, <1>3, <2>1, <2>2 DEF IInv, Typed
<1>7. Asked' /\ RefusedOnlyAfterForce'
  BY <1>3, <1>5 DEF IInv, Asked, RefusedOnlyAfterForce
<1>8. Walk(Now', disk', queue', disk)
  BY <1>2, <1>3, <1>4, NoWalk
<1>9. Stands(Now', pc', mem', disk)
  BY <1>3 DEF Stands, Late
<1> QED BY <1>2, <1>3, <1>5, <1>6, <1>7, <1>8, <1>9 DEF IInv, Journey

(* ---- resume: the archive --------------------------------------------------- *)
LEMMA OtherFields ==
    ASSUME NEW s \in RunState, NEW x \in Stage, NEW v, NEW n, NEW stages
    PROVE  /\ \A t \in {With(s, x, v), Succeeded(s, x, n), SkipPending(s, stages), Interrupted(s)} :
                 /\ t.archive = s.archive /\ t.opt = s.opt /\ t.consent = s.consent
                 /\ t.correct = s.correct /\ t.gen = s.gen /\ t.intent = s.intent
BY DEF With, Succeeded, SkipPending, Interrupted, RunState

\* Marks of the state beside statuses and records, the pending archive included.
LEMMA Marks ==
    ASSUME NEW c, NEW s \in RunState, NEW d \in Disks, NEW t \in RunState,
           Ordered(s, d), Filed(s, d), t.st = s.st, t.rec = s.rec, t.opt = s.opt,
           t.consent = s.consent \/ s.consent # "no" \/ s.st["feasibility"] # "skipped",
           Rooted(t, d), Agreed(c, t, d)
    PROVE  Good(c, t, d)
<1>1. Ordered(t, d)
  BY DEF Ordered, Goes
<1>2. Filed(t, d)
  BY DEF Filed, Stored, Told
<1> QED BY <1>1, <1>2 DEF Good

LEMMA TreesIs ==
    ASSUME NEW d \in Disks
    PROVE  /\ Trees(d) \in Nat /\ d.tree.archived \in Nat
           /\ d.tree.exists => Trees(d) = d.tree.archived + 1
           /\ ~d.tree.exists => Trees(d) = d.tree.archived
BY WorkflowAssumption DEF Disks, TreeFile, Version, Trees

\* The three effects of _archive_research_generation, if there is a directory.
LEMMA Moving ==
    ASSUME NEW c, NEW d \in Disks, d.tree = disk.tree, NEW s \in RunState, Sound(c, d),
           Ordered(s, d), Filed(s, d), Agreed(c, s, d), s.archive = 0, s.st["research"] = "pending",
           Keeps(c, d.state, s), Trees(d) < c.turn, c.turn \in 1..MaxCommands
    PROVE  /\ Moves(s) \in Seq(Effects) /\ Archived(s) \in RunState
           /\ Archived(s).st = s.st /\ Archived(s).rec = s.rec /\ Archived(s).opt = s.opt
           /\ Archived(s).consent = s.consent /\ Archived(s).intent = s.intent
           /\ Archived(s).gen = s.gen /\ Archived(s).correct = s.correct /\ Archived(s).archive = 0
           /\ \E z \in Disks : /\ Walk(c, d, Moves(s), z) /\ Good(c, Archived(s), z)
                               /\ Keeps(c, z.state, Archived(s)) /\ Trees(z) = Trees(d)
<1>1. Trees(d) \in Version /\ d.tree.archived + 1 \in Nat /\ Trees(d) <= c.turn
  BY TreesIs, WorkflowAssumption DEF Version
<1>2. CASE ~disk.tree.exists
  <2>1. Moves(s) = <<>> /\ Archived(s) = s
    BY <1>2 DEF Moves, Archived
  <2>2. Rooted(s, d)
    BY <1>2 DEF Rooted, Sound, Good
  <2>3. Good(c, s, d)
    BY <2>2 DEF Good
  <2>4. Walk(c, d, <<>>, d) /\ <<>> \in Seq(Effects)
    BY NoWalk
  <2> QED BY <2>1, <2>3, <2>4
<1>3. CASE disk.tree.exists
  <2> DEFINE a == [s EXCEPT !.archive = disk.tree.archived + 1]
             b == Archived(s)
             d1 == Holding(d, a)
             d2 == Written(d1, Put("tree", MovedTree))
             d3 == Holding(d2, b)
  <2>1. Trees(d) = disk.tree.archived + 1
    BY <1>3, TreesIs
  <2>2. Moves(s) = <<Save(a), Put("tree", MovedTree), Save(b)>>
    BY <1>3 DEF Moves
  <2>3. /\ a \in RunState /\ a.st = s.st /\ a.rec = s.rec /\ a.opt = s.opt
        /\ a.consent = s.consent /\ a.intent = s.intent /\ a.gen = s.gen /\ a.archive = Trees(d)
    BY <1>1, <2>1 DEF RunState
  <2>4. /\ b \in RunState /\ b.st = s.st /\ b.rec = s.rec /\ b.opt = s.opt
        /\ b.consent = s.consent /\ b.intent = s.intent /\ b.gen = s.gen /\ b.archive = 0
        /\ b.correct = s.correct
    <3>1. 0 \in Version
      BY WorkflowAssumption DEF Version
    <3> QED BY <1>1, <1>3, <2>1, <3>1 DEF RunState, Archived
  <2>5. MovedTree = [live |-> NoTree, exists |-> FALSE, archived |-> d.tree.archived + 1]
        /\ Put("tree", MovedTree) \in Effects
    <3>1. MovedTree \in TreeFile
      <4>1. d.tree.archived + 1 \in Version /\ 0 \in Version
        BY <1>1, <2>1, WorkflowAssumption DEF Version
      <4> QED BY <4>1 DEF MovedTree, TreeFile, NoTree
    <3> QED BY <3>1, EffectIs DEF MovedTree
  <2> HIDE DEF a, b
  <2>6. Good(c, a, d)
    <3>1. Rooted(a, d)
      BY <1>3, <2>1, <2>3, TreesIs DEF Rooted
    <3>2. Agreed(c, a, d)
      BY <2>3 DEF Agreed
    <3> QED BY <2>3, <3>1, <3>2, Marks
  <2>7. Keeps(c, d.state, a)
    BY <2>3 DEF Keeps
  <2>8. /\ Leads(c, d, Save(a), d1) /\ Only(d, d1, "state") /\ d1 \in Disks /\ d1.state = a
        /\ Good(c, a, d1) /\ Trees(d1) = Trees(d)
    <3>1. /\ Leads(c, d, Save(a), d1) /\ Only(d, d1, "state") /\ d1 \in Disks /\ d1.state = a
      BY <1>1, <2>3, <2>6, <2>7, Saves
    <3> QED BY <2>3, <2>6, <3>1, GoodElsewhere
  <2>9. Only(d1, d2, "tree") /\ d2.tree = MovedTree
    BY <2>5, <2>8, PutIs DEF Files
  <2>10. d1.tree = d.tree /\ d2 \in Disks
    BY <2>8, <2>9 DEF Only, Files
  <2> HIDE DEF d1, d2, d3
  <2>11. TreeMoves(a, d1, d2)
    <3>1. a.archive # 0 /\ d1.tree.exists
      BY <1>3, <2>1, <2>3, <2>10, TreesIs
    <3> QED BY <2>5, <2>9, <2>10, <3>1 DEF TreeMoves
  <2>12. Good(c, a, d2) /\ Trees(d2) = Trees(d)
    <3>1. a.archive # 0
      BY <2>1, <2>3, TreesIs
    <3> QED BY <2>3, <2>8, <2>9, <2>11, <3>1, GoodTree
  <2>13. Leads(c, d1, Put("tree", MovedTree), d2) /\ d2.state = a
    BY <1>1, <2>5, <2>8, <2>12, Puts DEF Files, d2
  <2>14. Good(c, b, d2)
    <3>1. ~d2.tree.exists
      BY <2>9 DEF MovedTree
    <3>2. Rooted(b, d2)
      BY <2>4, <2>12, <3>1 DEF Rooted, Good
    <3>3. Agreed(c, b, d2)
      BY <2>3, <2>4, <2>12 DEF Agreed, Good
    <3>4. Ordered(a, d2) /\ Filed(a, d2)
      BY <2>12 DEF Good
    <3> QED BY <2>3, <2>4, <2>10, <3>2, <3>3, <3>4, Marks
  <2>15. Keeps(c, d2.state, b)
    BY <2>3, <2>4, <2>13 DEF Keeps
  <2>16. /\ Leads(c, d2, Save(b), d3) /\ Only(d2, d3, "state") /\ d3 \in Disks /\ d3.state = b
         /\ Good(c, b, d3) /\ Trees(d3) = Trees(d)
    <3>1. /\ Leads(c, d2, Save(b), d3) /\ Only(d2, d3, "state") /\ d3 \in Disks /\ d3.state = b
      BY <1>1, <2>4, <2>10, <2>12, <2>14, <2>15, Saves DEF d3
    <3> QED BY <2>4, <2>10, <2>12, <2>14, <3>1, GoodElsewhere
  <2>17. Moves(s) \in Seq(Effects) /\ Walk(c, d, Moves(s), d3)
    BY <2>2, <2>8, <2>13, <2>16, WalkThree
  <2>18. Keeps(c, d3.state, b)
    BY <2>16, KeepsSame
  <2> QED BY <2>4, <2>16, <2>17, <2>18 DEF b
<1> QED BY <1>2, <1>3

LEMMA LoadStep ==
    ASSUME IInv, Load
    PROVE  IInv' /\ disk' = disk
<1> DEFINE s == disk.state
           r == [s EXCEPT !.archive = 0, !.history = s.archive]
<1>1. pc = "load" /\ queue = <<>> /\ Quiet /\ disk' = disk
  BY DEF Load, At, Go, Ends
<1>2. /\ disk \in Disks /\ s \in RunState /\ Sound(Now, disk) /\ Good(Now, s, disk)
      /\ Trees(disk) < turn /\ turn = Now.turn
  BY <1>1, AtRest DEF Stands, Now
<1>3. /\ r \in RunState /\ r.st = s.st /\ r.rec = s.rec /\ r.opt = s.opt /\ r.consent = s.consent
      /\ r.intent = s.intent /\ r.gen = s.gen /\ r.archive = 0
  <2>1. 0 \in Version
    BY WorkflowAssumption DEF Version
  <2> QED BY <1>2, <2>1 DEF RunState
<1>4. <<>> \in Seq(Effects) /\ Walk(Now, disk, <<>>, disk)
  BY <1>2, NoWalk
<1>5. "plan" \in Places \ {"off"} /\ pc # "off"
  BY <1>1 DEF Places
<1>6. ASSUME NEW t \in RunState, NEW z \in Disks, Good(Now, t, z), t.archive = 0, z.state = t,
             Trees(z) = Trees(disk)
      PROVE  Stands(Now, "plan", t, z) /\ Smooth("plan", t, z, "none")
  BY <1>2, <1>6 DEF Stands, Smooth, Late
<1> HIDE DEF r
<1>7. CASE s.archive = 0
  <2>1. Go("plan", s, <<>>)
    BY <1>7 DEF Load
  <2> QED BY <1>1, <1>2, <1>4, <1>5, <1>6, <1>7, <2>1, Arrives
<1>8. CASE s.archive # 0
  <2>1. s.archive = Trees(disk)
    BY <1>2, <1>8 DEF Good, Rooted
  <2>2. CASE disk.tree.exists
    <3> DEFINE d1 == Written(disk, Put("tree", MovedTree))
               d2 == Holding(d1, r)
    <3>1. s.archive = disk.tree.archived + 1
      BY <1>2, <2>1, <2>2, TreesIs
    <3>2. Go("plan", r, <<Put("tree", MovedTree), Save(r)>>)
      BY <1>8, <2>2, <3>1 DEF Load, r
    <3>3. MovedTree = [live |-> NoTree, exists |-> FALSE, archived |-> disk.tree.archived + 1]
          /\ Put("tree", MovedTree) \in Effects
      <4>1. disk.tree.archived + 1 \in Version /\ 0 \in Version
        BY <1>2, <3>1, WorkflowAssumption DEF Version, RunState
      <4>2. MovedTree \in TreeFile
        BY <4>1 DEF MovedTree, TreeFile, NoTree
      <4> QED BY <4>2, EffectIs DEF MovedTree
    <3>4. Only(disk, d1, "tree") /\ d1.tree = MovedTree
      BY <1>2, <3>3, PutIs DEF Files
    <3>5. d1 \in Disks
      BY <3>4 DEF Only
    <3>6. TreeMoves(s, disk, d1)
      BY <1>8, <2>2, <3>3, <3>4 DEF TreeMoves
    <3>7. Good(Now, s, d1) /\ Trees(d1) = Trees(disk)
      BY <1>2, <1>8, <3>4, <3>6, GoodTree
    <3> HIDE DEF d1, d2
    <3>8. Trees(d1) <= Now.turn
      BY <1>2, <3>7 DEF Sound
    <3>9. Leads(Now, disk, Put("tree", MovedTree), d1) /\ d1.state = s
      BY <1>2, <3>3, <3>7, <3>8, Puts DEF Files, d1
    <3>10. Good(Now, r, d1)
      <4>1. ~d1.tree.exists
        BY <3>4 DEF MovedTree
      <4>2. Rooted(r, d1)
        BY <1>3, <3>7, <4>1 DEF Rooted, Good
      <4>3. Agreed(Now, r, d1)
        BY <1>3, <3>7 DEF Agreed, Good
      <4>4. Ordered(s, d1) /\ Filed(s, d1)
        BY <3>7 DEF Good
      <4> QED BY <1>2, <1>3, <3>5, <4>2, <4>3, <4>4, Marks
    <3>11. Keeps(Now, d1.state, r)
      BY <1>3, <3>9, KeepsSame
    <3>12. /\ Leads(Now, d1, Save(r), d2) /\ Only(d1, d2, "state") /\ d2 \in Disks /\ d2.state = r
           /\ Good(Now, r, d2)
      BY <1>3, <3>5, <3>8, <3>10, <3>11, Saves DEF d2
    <3>13. Trees(d2) = Trees(disk)
      BY <1>3, <3>5, <3>7, <3>10, <3>12, GoodElsewhere
    <3>14. /\ <<Put("tree", MovedTree), Save(r)>> \in Seq(Effects)
           /\ Walk(Now, disk, <<Put("tree", MovedTree), Save(r)>>, d2)
      BY <1>2, <3>9, <3>12, WalkTwo
    <3>15. Stands(Now, "plan", r, d2) /\ Smooth("plan", r, d2, "none")
      BY <1>3, <1>6, <3>12, <3>13
    <3> QED BY <1>1, <1>3, <1>5, <3>2, <3>12, <3>14, <3>15, Arrives
  <2>3. CASE ~disk.tree.exists
    <3>1. s.archive = disk.tree.archived
      BY <1>2, <2>1, <2>3, TreesIs
    <3>2. Go("plan", r, <<Save(r)>>)
      BY <1>8, <2>3, <3>1 DEF Load, r
    <3>3. Good(Now, r, disk)
      <4>1. Rooted(r, disk)
        BY <1>2, <1>3, <2>3 DEF Rooted, Good
      <4>2. Agreed(Now, r, disk)
        BY <1>2, <1>3 DEF Agreed, Good
      <4>3. Ordered(s, disk) /\ Filed(s, disk)
        BY <1>2 DEF Good
      <4> QED BY <1>2, <1>3, <4>1, <4>2, <4>3, Marks
    <3>4. Keeps(Now, disk.state, r)
      BY <1>3, KeepsSame
    <3> DEFINE z == Holding(disk, r)
    <3>5. /\ <<Save(r)>> \in Seq(Effects) /\ z \in Disks /\ Walk(Now, disk, <<Save(r)>>, z)
          /\ Good(Now, r, z) /\ z.state = r /\ Trees(z) = Trees(disk)
      BY <1>2, <1>3, <3>3, <3>4, SaveOne
    <3> HIDE DEF z
    <3>6. Stands(Now, "plan", r, z) /\ Smooth("plan", r, z, "none")
      BY <1>3, <1>6, <3>5
    <3> QED BY <1>1, <1>3, <1>5, <3>2, <3>5, <3>6, Arrives
  <2> QED BY <2>2, <2>3
<1> QED BY <1>7, <1>8

(* ---- resume: the plan ------------------------------------------------------ *)
LEMMA VerifiedIs ==
    ASSUME NEW s, Filed(s, disk)
    PROVE  Verified(s)
<1>1. \A x : FileOf(x) = Artifact(disk, x)
  BY DEF FileOf, Artifact
<1> QED BY <1>1 DEF Filed, Stored, Verified

LEMMA ForcedIs ==
    ASSUME IInv, pc = "plan", queue = <<>>, cmd.force # "none"
    PROVE  /\ ForcedState(mem) \in RunState /\ Boundary(cmd.force) \in Boundaries /\ forced
           /\ Ordered(ForcedState(mem), disk) /\ Filed(ForcedState(mem), disk)
           /\ Agreed(Now, ForcedState(mem), disk) /\ ForcedState(mem).archive = 0
           /\ ForcedState(mem).consent = mem.consent
           /\ Boundary(cmd.force) # "prompt" => Good(Now, ForcedState(mem), disk)
           /\ \A x \in Downstream(Boundary(cmd.force)) : ForcedState(mem).st[x] = "pending"
           /\ Keeps(Now, mem, ForcedState(mem)) /\ ~Succ(ForcedState(mem), "report")
<1> DEFINE b == Boundary(cmd.force)
           m == [mem EXCEPT !.correct = @ \/ (cmd.force = "bibliography" /\ Correctable)]
           t == InvalidateFrom(m, b)
           s == ForcedState(mem)
<1>1. cmd.force \in Stage /\ forced /\ cmd.kind = "resume"
  BY WorkflowAssumption DEF IInv, Typed, Asked
<1>2. b \in Boundaries
  BY <1>1, BoundaryIs
<1>3. disk \in Disks /\ mem \in RunState /\ Good(Now, mem, disk) /\ mem.archive = 0
  BY AtRest DEF Stands
<1>4. /\ m \in RunState /\ m.st = mem.st /\ m.rec = mem.rec /\ m.opt = mem.opt
      /\ m.archive = 0 /\ m.consent = mem.consent /\ m.intent = mem.intent /\ m.gen = mem.gen
  <2>1. (mem.correct \/ (cmd.force = "bibliography" /\ Correctable)) \in BOOLEAN
    OBVIOUS
  <2> QED BY <1>3, <2>1 DEF RunState
<1>5. s = IF cmd.force = "prompt" THEN t ELSE [t EXCEPT !.gen = @ + 1]
  BY DEF ForcedState
<1> HIDE DEF m, s
<1>6. Nearly(Now, m, disk)
  <2>1. Agreed(Now, m, disk)
    BY <1>3, <1>4 DEF Good, Agreed
  <2>2. Good(Now, m, disk)
    BY <1>3, <1>4, <2>1, Aside
  <2> QED BY <2>2, GoodNearly
<1>7. ASSUME NEW x \in Boundaries, NEW u, u = InvalidateFrom(m, x)
      PROVE  /\ u \in RunState /\ u.archive = 0 /\ u.consent = mem.consent /\ u.intent = mem.intent
             /\ Ordered(u, disk) /\ Filed(u, disk) /\ Agreed(Now, u, disk)
             /\ x # "prompt" => Good(Now, u, disk)
             /\ \A y \in Stage : u.st[y] = IF y \in Downstream(x) THEN "pending" ELSE mem.st[y]
  <2>1. /\ u \in RunState /\ u.archive = m.archive /\ u.consent = m.consent /\ u.intent = m.intent
        /\ Ordered(u, disk) /\ Filed(u, disk) /\ Agreed(Now, u, disk)
        /\ x # "prompt" => Good(Now, u, disk)
    BY <1>3, <1>4, <1>6, <1>7, Invalidates
  <2>2. \A y \in Stage : u.st[y] = IF y \in Downstream(x) THEN "pending" ELSE m.st[y]
    BY <1>4, <1>7 DEF InvalidateFrom, RunState
  <2> QED BY <1>4, <2>1, <2>2
<1>8. /\ t \in RunState /\ t.archive = 0 /\ t.consent = mem.consent /\ t.intent = mem.intent
      /\ Ordered(t, disk) /\ Filed(t, disk) /\ Agreed(Now, t, disk)
      /\ b # "prompt" => Good(Now, t, disk)
      /\ \A x \in Stage : t.st[x] = IF x \in Downstream(b) THEN "pending" ELSE mem.st[x]
  <2> HIDE DEF b
  <2> QED BY <1>2, <1>7
<1>9. /\ s \in RunState /\ s.st = t.st /\ s.rec = t.rec /\ s.opt = t.opt
      /\ s.archive = t.archive /\ s.consent = t.consent /\ s.intent = t.intent
  <2> HIDE DEF t
  <2>1. [t EXCEPT !.gen = @ + 1] \in RunState
    BY <1>8 DEF RunState
  <2> QED BY <1>5, <1>8, <2>1 DEF RunState
<1> HIDE DEF t
<1>10. Agreed(Now, s, disk)
  <2>1. Now.forced
    BY <1>1 DEF Now
  <2> QED BY <1>8, <1>9, <2>1 DEF Agreed
<1>11. Ordered(s, disk) /\ Filed(s, disk)
  <2>1. Ordered(s, disk)
    BY <1>8, <1>9 DEF Ordered, Goes
  <2>2. Filed(s, disk)
    BY <1>8, <1>9 DEF Filed, Stored, Told
  <2> QED BY <2>1, <2>2
<1>12. b # "prompt" => Good(Now, s, disk)
  <2>1. ASSUME b # "prompt" PROVE Rooted(s, disk)
    BY <1>8, <1>9, <2>1 DEF Good, Rooted
  <2> QED BY <1>10, <1>11, <2>1 DEF Good
<1>13. Keeps(Now, mem, s)
  <2>1. Now.cmd.force # "none" /\ Boundary(Now.cmd.force) = b
    BY DEF Now
  <2> QED BY <1>8, <1>9, <2>1 DEF Keeps, Excused
<1>14. Downstream(b) \subseteq Stage /\ "report" \in Downstream(b)
  BY <1>2, Downstreams DEF Boundaries, Downstream
<1>15. ~Succ(s, "report")
  BY <1>8, <1>9, <1>14 DEF Succ
<1> QED BY <1>1, <1>2, <1>8, <1>8, <1>9, <1>10, <1>11, <1>12, <1>13, <1>14, <1>15 DEF s

LEMMA PlanForcedStep ==
    ASSUME IInv, PlanForced
    PROVE  IInv' /\ disk' = disk
<1> DEFINE s == ForcedState(mem)
           b == Boundary(cmd.force)
           moved == Archived(s)
<1>1. pc = "plan" /\ queue = <<>> /\ cmd.force # "none" /\ Quiet /\ disk' = disk
  BY DEF PlanForced, At, Go, Ends
<1>2. /\ disk \in Disks /\ mem \in RunState /\ Sound(Now, disk) /\ Good(Now, mem, disk)
      /\ disk.state = mem /\ Trees(disk) < turn /\ turn = Now.turn /\ turn \in 1..MaxCommands
      /\ Trees(disk) <= Now.turn
  <2>1. /\ disk \in Disks /\ mem \in RunState /\ Sound(Now, disk) /\ Good(Now, mem, disk)
        /\ disk.state = mem /\ Trees(disk) < Now.turn /\ turn = Now.turn /\ turn \in 1..MaxCommands
    BY <1>1, AtRest DEF Stands, Now
  <2> QED BY <2>1 DEF Sound
<1>3. /\ s \in RunState /\ b \in Boundaries /\ forced
      /\ Ordered(s, disk) /\ Filed(s, disk) /\ Agreed(Now, s, disk) /\ s.archive = 0
      /\ s.consent = mem.consent /\ (b # "prompt" => Good(Now, s, disk))
      /\ \A x \in Downstream(b) : s.st[x] = "pending"
      /\ Keeps(Now, mem, s) /\ ~Succ(s, "report")
  BY <1>1, ForcedIs
<1> HIDE DEF s
<1>4. ~Plain
  BY <1>1 DEF IInv, Asked
<1>5. <<>> \in Seq(Effects) /\ Walk(Now, disk, <<>>, disk)
  BY <1>2, NoWalk
<1>6. "migrate" \in Places \ {"off"} /\ pc # "off"
  BY <1>1 DEF Places
<1>7. ASSUME NEW t \in RunState, NEW z \in Disks, Good(Now, t, z), t.archive = 0,
             Keeps(Now, z.state, t), Trees(z) = Trees(disk), ~Succ(t, "report")
      PROVE  Stands(Now, "migrate", t, z)
  BY <1>2, <1>7 DEF Stands, Late
<1>8. CASE ForcesConsent /\ ConsentBroken(s)
  <2>1. Ends("consent lost", s, <<>>)
    BY <1>8 DEF PlanForced, s
  <2>2. Fair("consent lost")
    BY <1>3 DEF Fair
  <2> QED BY <1>1, <1>2, <1>3, <1>4, <1>5, <2>1, <2>2, Finishes
<1>9. CASE ~(ForcesConsent /\ ConsentBroken(s))
  <2>1. Verified(s)
    BY <1>3, VerifiedIs
  <2>2. CASE ForcesResearch
    <3> DEFINE t == [moved EXCEPT !.replay = cmd.force = "prompt" /\ (@ \/ moved.history > 0)]
    <3>1. Go("migrate", t, Moves(s))
      BY <1>9, <2>1, <2>2 DEF PlanForced, s
    <3>2. s.st["research"] = "pending"
      <4>1. "research" \in Downstream(b)
        BY <2>2, Downstreams DEF ForcesResearch, AfterPrompt
      <4> QED BY <1>3, <4>1
    <3>3. /\ Moves(s) \in Seq(Effects) /\ moved \in RunState /\ moved.st = s.st
          /\ moved.archive = 0 /\ moved.consent = s.consent
          /\ \E z \in Disks : /\ Walk(Now, disk, Moves(s), z) /\ Good(Now, moved, z)
                              /\ Keeps(Now, z.state, moved) /\ Trees(z) = Trees(disk)
      BY <1>2, <1>3, <3>2, Moving
    <3> HIDE DEF moved
    <3>4. PICK z \in Disks : /\ Walk(Now, disk, Moves(s), z) /\ Good(Now, moved, z)
                             /\ Keeps(Now, z.state, moved) /\ Trees(z) = Trees(disk)
      BY <3>3
    <3>5. /\ t \in RunState /\ t.st = moved.st /\ t.rec = moved.rec /\ t.opt = moved.opt
          /\ t.archive = moved.archive /\ t.consent = moved.consent /\ t.intent = moved.intent
          /\ t.gen = moved.gen
      <4>1. (cmd.force = "prompt" /\ (moved.replay \/ moved.history > 0)) \in BOOLEAN
        OBVIOUS
      <4> QED BY <3>3, <4>1 DEF RunState
    <3> HIDE DEF t
    <3>6. Good(Now, t, z)
      <4>1. Agreed(Now, t, z)
        BY <3>4, <3>5 DEF Good, Agreed
      <4> QED BY <3>3, <3>4, <3>5, <4>1, Aside
    <3>7. Keeps(Now, z.state, t) /\ ~Succ(t, "report") /\ t.archive = 0
      BY <1>3, <3>3, <3>4, <3>5 DEF Keeps, Succ
    <3>8. Stands(Now, "migrate", t, z)
      BY <1>7, <3>4, <3>5, <3>6, <3>7
    <3> QED BY <1>1, <1>4, <1>6, <3>1, <3>3, <3>4, <3>5, <3>8, Arrives
  <2>3. CASE ~ForcesResearch /\ ForcesConsent
    <3> DEFINE t == [s EXCEPT !.consent = "none"]
               q == IF s.consent = "none" THEN <<>> ELSE <<Put("consent", "none")>>
               e == Written(disk, Put("consent", "none"))
    <3>1. Go("migrate", t, q)
      BY <1>9, <2>1, <2>3 DEF PlanForced, s
    <3>2. b # "prompt" /\ Good(Now, s, disk) /\ s.st["feasibility"] = "pending"
      <4>1. b \in {"manuscript", "feasibility"}
        BY <1>3, <2>3, BoundaryIs, StageFacts DEF ForcesConsent, LeanStage
      <4>2. "feasibility" \in Downstream(b)
        BY <4>1, Downstreams DEF AfterAudit, AfterManuscript, LeanStage
      <4> QED BY <1>3, <4>1, <4>2
    <3>3. /\ t \in RunState /\ t.st = s.st /\ t.rec = s.rec /\ t.opt = s.opt
          /\ t.archive = s.archive /\ t.consent = "none" /\ t.intent = s.intent /\ t.gen = s.gen
      BY <1>3 DEF RunState
    <3> HIDE DEF t
    <3>4. Good(Now, t, disk)
      <4>1. Agreed(Now, t, disk)
        BY <1>3, <3>3 DEF Agreed
      <4> QED BY <1>2, <1>3, <3>2, <3>3, <4>1, Aside
    <3>5. Keeps(Now, mem, t) /\ ~Succ(t, "report") /\ t.archive = 0
      BY <1>3, <3>3 DEF Keeps, Succ
    <3>6. CASE s.consent = "none"
      <4>1. Stands(Now, "migrate", t, disk)
        BY <1>2, <1>7, <3>3, <3>4, <3>5
      <4>2. Go("migrate", t, <<>>)
        BY <3>1, <3>6
      <4> QED BY <1>1, <1>2, <1>4, <1>5, <1>6, <3>3, <4>1, <4>2, Arrives
    <3>7. CASE s.consent # "none"
      <4>1. Put("consent", "none") \in Effects
        BY EffectIs DEF Consents
      <4>2. Only(disk, e, "consent")
        BY <1>2, <4>1, PutIs DEF Files
      <4>3. Now.forced /\ Now.cmd.force \in {"manuscript", "bibliography"} \cup LeanStage
        BY <1>3, <2>3 DEF Now, ForcesConsent
      <4>4. Good(Now, mem, e) /\ Good(Now, t, e) /\ Trees(e) = Trees(disk)
        BY <1>2, <3>3, <3>4, <4>2, <4>3, GoodConsent
      <4>5. Leads(Now, disk, Put("consent", "none"), e) /\ e \in Disks /\ e.state = mem
        <5> HIDE DEF e
        <5>1. Good(Now, disk.state, e) /\ Trees(e) <= Now.turn
          BY <1>2, <4>4
        <5> QED BY <1>2, <4>1, <4>3, <5>1, Puts DEF Files, e
      <4> HIDE DEF e
      <4>6. <<Put("consent", "none")>> \in Seq(Effects) /\ Walk(Now, disk, <<Put("consent", "none")>>, e)
        BY <1>2, <4>5, WalkOne
      <4>7. Stands(Now, "migrate", t, e)
        BY <1>7, <3>3, <3>5, <4>4, <4>5
      <4>8. Go("migrate", t, <<Put("consent", "none")>>)
        BY <3>1, <3>7
      <4> QED BY <1>1, <1>4, <1>6, <3>3, <4>5, <4>6, <4>7, <4>8, Arrives
    <3> QED BY <3>6, <3>7
  <2>4. CASE ~ForcesResearch /\ ~ForcesConsent
    <3>1. Go("migrate", s, <<>>)
      BY <2>1, <2>4 DEF PlanForced, s
    <3>2. Good(Now, s, disk)
      BY <1>3, <2>4 DEF ForcesResearch
    <3>3. Stands(Now, "migrate", s, disk)
      BY <1>2, <1>3, <1>7, <3>2
    <3> QED BY <1>1, <1>2, <1>3, <1>4, <1>5, <1>6, <3>1, <3>3, Arrives
  <2> QED BY <2>2, <2>3, <2>4
<1> QED BY <1>8, <1>9

\* Nothing is left running, and a draft is not left without its bibliography.
Settled(s) ==
    /\ \A x \in Stage : s.st[x] # "running"
    /\ s.st["manuscript"] \in Complete => s.st["bibliography"] \in Complete

\* What a withdrawal from a stage of the plan leaves.
LEMMA WithdrawnIs ==
    ASSUME NEW c, NEW s \in RunState, NEW d \in Disks,
           NEW b \in {"manuscript", "feasibility", "report"}, Good(c, s, d),
           NEW t, t = InvalidateFrom(Interrupted(s), b)
    PROVE  t \in RunState /\ t.archive = s.archive /\ Good(c, t, d) /\ ~Succ(t, "report")
<1> DEFINE i == Interrupted(s)
<1>1. i \in RunState /\ Nearly(c, i, d) /\ i.archive = s.archive
  BY GoodNearly, Interrupts, OtherFields, StageFacts
<1> HIDE DEF i
<1>2. t = InvalidateFrom(i, b) /\ b \in Boundaries /\ b # "prompt"
  BY DEF i, Boundaries
<1>3. t \in RunState /\ t.archive = i.archive /\ Good(c, t, d)
  BY <1>1, <1>2, Invalidates
<1>4. "report" \in Downstream(b) /\ "report" \in Stage
  BY Downstreams, StageFacts
<1>5. t.st["report"] = "pending"
  BY <1>1, <1>2, <1>4 DEF InvalidateFrom, RunState
<1> QED BY <1>1, <1>3, <1>5 DEF Succ

LEMMA WithdrawnStatus ==
    ASSUME NEW s \in RunState, NEW b, NEW t, t = InvalidateFrom(Interrupted(s), b)
    PROVE  \A x \in Stage : t.st[x] = IF x \in Downstream(b) THEN "pending"
                                      ELSE IF s.st[x] = "running" THEN "interrupted" ELSE s.st[x]
<1> DEFINE i == Interrupted(s)
<1>1. i \in RunState
  BY InterruptedIs
<1>2. \A x \in Stage : i.st[x] = IF s.st[x] = "running" THEN "interrupted" ELSE s.st[x]
  BY InterruptedIs
<1> HIDE DEF i
<1>3. t.st = [x \in Stage |-> IF x \in Downstream(b) THEN "pending" ELSE i.st[x]]
  <2>1. t = InvalidateFrom(i, b)
    BY DEF i
  <2> QED BY <1>1, <2>1 DEF InvalidateFrom, RunState
<1>4. \A x \in Stage : t.st[x] = IF x \in Downstream(b) THEN "pending" ELSE i.st[x]
  BY <1>3
<1> QED BY <1>2, <1>4

\* Before the first unfinished stage all are finished.
LEMMA EarlierDone ==
    ASSUME NEW st, Unfinished(st) # {}
    PROVE  /\ FirstIncomplete(st) = "bibliography" => st["manuscript"] \in Complete
           /\ FirstIncomplete(st) \notin {"prompt", "research", "audit", "manuscript", "bibliography"} =>
                 st["manuscript"] \in Complete /\ st["bibliography"] \in Complete
<1>1. /\ FirstIncomplete(st) \in Stage
      /\ \A y \in Stage : Position(y) < Position(FirstIncomplete(st)) => st[y] \in Complete
  BY FirstIs
<1> QED BY <1>1, StageFacts, Positions

LEMMA PreparedIs ==
    ASSUME NEW c, NEW s \in RunState, NEW d \in Disks, Good(c, s, d), s.archive = 0,
           c.cmd.kind = "resume", c.cmd.force = "none", Unfinished(Interrupted(s).st) # {}
    PROVE  /\ Prepared(s) \in RunState /\ Prepared(s).archive = 0 /\ Good(c, Prepared(s), d)
           /\ ~Succ(Prepared(s), "report") /\ Keeps(c, s, Prepared(s)) /\ Settled(Prepared(s))
<1> DEFINE i == Interrupted(s)
           first == FirstIncomplete(i.st)
           p == Prepared(s)
<1>1. /\ i \in RunState /\ i.archive = 0 /\ (~Succ(s, "report") => Good(c, i, d))
      /\ \A x \in Stage : i.st[x] = IF s.st[x] = "running" THEN "interrupted" ELSE s.st[x]
  <2>1. i \in RunState /\ i.archive = 0 /\ (~Succ(s, "report") => Good(c, i, d))
    BY GoodNearly, Interrupts, OtherFields, StageFacts
  <2>2. \A x \in Stage : i.st[x] = IF s.st[x] = "running" THEN "interrupted" ELSE s.st[x]
    BY InterruptedIs
  <2> QED BY <2>1, <2>2
<1>2. first \in Stage /\ i.st[first] \notin Complete
  BY FirstIs
<1>3. /\ first = "bibliography" => i.st["manuscript"] \in Complete
      /\ first \notin {"prompt", "research", "audit", "manuscript", "bibliography"} =>
            i.st["manuscript"] \in Complete /\ i.st["bibliography"] \in Complete
  BY EarlierDone
<1>4. p = IF first = "bibliography"
          THEN [InvalidateFrom(i, "manuscript") EXCEPT !.correct = TRUE]
          ELSE IF first \in LeanStage \ {"feasibility"} THEN InvalidateFrom(i, "feasibility")
          ELSE IF first # "report" /\ i.st["report"] = "succeeded" THEN InvalidateFrom(i, "report")
          ELSE i
  BY DEF Prepared
<1> HIDE DEF p, first
<1>5. \A x \in Stage : i.st[x] \in Complete <=> s.st[x] \in Complete
  BY <1>1 DEF Complete
<1>6. first \in Unfinished(s.st)
  BY <1>2, <1>5 DEF Unfinished
<1> HIDE DEF i
<1>7. CASE first = "bibliography"
  <2> DEFINE t == InvalidateFrom(i, "manuscript")
  <2>1. /\ t \in RunState /\ t.archive = 0 /\ Good(c, t, d) /\ ~Succ(t, "report")
        /\ \A x \in Stage : t.st[x] = IF x \in Downstream("manuscript") THEN "pending"
                                      ELSE IF s.st[x] = "running" THEN "interrupted" ELSE s.st[x]
    <3>1. t = InvalidateFrom(Interrupted(s), "manuscript")
      BY DEF i
    <3> HIDE DEF t
    <3> QED BY <3>1, WithdrawnIs, WithdrawnStatus
  <2> HIDE DEF t
  <2>2. p = [t EXCEPT !.correct = TRUE]
    BY <1>4, <1>7 DEF t
  <2>3. /\ p \in RunState /\ p.st = t.st /\ p.rec = t.rec /\ p.opt = t.opt /\ p.archive = t.archive
        /\ p.consent = t.consent /\ p.intent = t.intent /\ p.gen = t.gen
    BY <2>1, <2>2 DEF RunState
  <2>4. Good(c, p, d)
    <3>1. Agreed(c, p, d)
      BY <2>1, <2>3 DEF Good, Agreed
    <3> QED BY <2>1, <2>3, <3>1, Aside
  <2>5. Keeps(c, s, p)
    <3>1. s.st["manuscript"] \in Complete /\ s.st["bibliography"] \notin Complete
      BY <1>2, <1>3, <1>5, <1>7, StageFacts
    <3>2. /\ s.st["bibliography"] # "succeeded"
          /\ \A x \in LeanStage : s.st[x] # "succeeded"
      BY <3>1 DEF Good, Ordered, Complete
    <3>3. "report" \in Stage /\ Unfinished(s.st) # {}
      BY <1>6, StageFacts
    <3>4. ASSUME NEW x \in Stage, s.st[x] = "succeeded", p.st[x] # "succeeded"
          PROVE  Excused(c, s, x)
      <4>1. x \in Downstream("manuscript")
        BY <2>1, <2>3, <3>4
      <4>2. x \in {"manuscript", "report"}
        BY <3>2, <3>4, <4>1, Downstreams DEF AfterAudit, AfterManuscript
      <4> QED BY <3>1, <3>3, <4>2 DEF Excused
    <3> QED BY <3>4 DEF Keeps
  <2>6. Settled(p)
    <3>1. p.st["manuscript"] = "pending"
      BY <2>1, <2>3, Downstreams, StageFacts DEF AfterAudit
    <3> QED BY <2>1, <2>3, <3>1 DEF Settled, Complete
  <2> QED BY <2>1, <2>3, <2>4, <2>5, <2>6 DEF Succ, p
<1>8. CASE first \in LeanStage \ {"feasibility"}
  <2>1. p = InvalidateFrom(i, "feasibility")
    BY <1>4, <1>8 DEF LeanStage
  <2>2. /\ p \in RunState /\ p.archive = 0 /\ Good(c, p, d) /\ ~Succ(p, "report")
        /\ \A x \in Stage : p.st[x] = IF x \in Downstream("feasibility") THEN "pending"
                                      ELSE IF s.st[x] = "running" THEN "interrupted" ELSE s.st[x]
    <3>1. p = InvalidateFrom(Interrupted(s), "feasibility")
      BY <2>1 DEF i
    <3> QED BY <3>1, WithdrawnIs, WithdrawnStatus
  <2>3. Keeps(c, s, p)
    <3>1. Unfinished(s.st) \cap LeanStage # {} /\ Unfinished(s.st) # {}
      BY <1>6, <1>8
    <3>2. ASSUME NEW x \in Stage, s.st[x] = "succeeded", p.st[x] # "succeeded"
          PROVE  Excused(c, s, x)
      <4>1. x \in Downstream("feasibility")
        BY <2>2, <3>2
      <4> QED BY <3>1, <4>1, Downstreams DEF Excused
    <3> QED BY <3>2 DEF Keeps
  <2>4. Settled(p)
    <3>1. first \notin {"prompt", "research", "audit", "manuscript", "bibliography"}
      BY <1>8 DEF LeanStage
    <3>2. s.st["bibliography"] \in Complete
      BY <1>3, <1>5, <3>1, StageFacts
    <3>3. p.st["bibliography"] = s.st["bibliography"]
      BY <2>2, <3>2, Downstreams, StageFacts DEF LeanStage, Complete
    <3> QED BY <2>2, <3>2, <3>3 DEF Settled
  <2> QED BY <2>2, <2>3, <2>4 DEF p
<1>9. CASE first \notin {"bibliography"} \cup (LeanStage \ {"feasibility"})
  <2>1. ASSUME \A x \in {"manuscript", "bibliography"} : p.st[x] \in Complete <=> s.st[x] \in Complete
        PROVE  p.st["manuscript"] \in Complete => p.st["bibliography"] \in Complete
    <3>1. ASSUME s.st["manuscript"] \in Complete, s.st["bibliography"] \notin Complete
          PROVE  FALSE
      <4>1. first \in {"prompt", "research", "audit"}
        BY <1>2, <1>3, <1>5, <1>9, <3>1, StageFacts DEF LeanStage
      <4>2. s.st[first] \notin Complete
        BY <1>2, <1>5
      <4>3. s.st["manuscript"] = "pending"
        BY <4>1, <4>2, StageFacts DEF Good, Ordered, AfterPrompt, AfterResearch, AfterAudit, Complete
      <4> QED BY <3>1, <4>3 DEF Complete
    <3> QED BY <2>1, <3>1
  <2>2. CASE i.st["report"] = "succeeded"
    <3>1. first # "report"
      BY <1>2, <2>2 DEF Complete
    <3>2. p = InvalidateFrom(i, "report")
      BY <1>4, <1>9, <2>2, <3>1
    <3>3. /\ p \in RunState /\ p.archive = 0 /\ Good(c, p, d) /\ ~Succ(p, "report")
          /\ \A x \in Stage : p.st[x] = IF x \in Downstream("report") THEN "pending"
                                        ELSE IF s.st[x] = "running" THEN "interrupted" ELSE s.st[x]
      <4>1. p = InvalidateFrom(Interrupted(s), "report")
        BY <3>2 DEF i
      <4> QED BY <4>1, WithdrawnIs, WithdrawnStatus
    <3>4. Keeps(c, s, p)
      BY <1>6, <3>3, Downstreams DEF Keeps, Excused
    <3>5. Settled(p)
      <4>1. \A x \in {"manuscript", "bibliography"} : p.st[x] \in Complete <=> s.st[x] \in Complete
        BY <3>3, Downstreams, StageFacts DEF Complete
      <4> QED BY <2>1, <3>3, <4>1 DEF Settled
    <3> QED BY <3>3, <3>4, <3>5 DEF p
  <2>3. CASE i.st["report"] # "succeeded"
    <3>1. p = i
      BY <1>4, <1>9, <2>3
    <3>2. ~Succ(s, "report") /\ ~Succ(p, "report")
      BY <1>1, <2>3, <3>1, StageFacts DEF Succ
    <3>3. Good(c, p, d) /\ p \in RunState /\ p.archive = 0
      BY <1>1, <3>1, <3>2
    <3>4. Keeps(c, s, p)
      BY <1>1, <3>1 DEF Keeps
    <3>5. Settled(p)
      BY <1>1, <1>5, <2>1, <3>1, StageFacts DEF Settled
    <3> QED BY <3>2, <3>3, <3>4, <3>5 DEF p
  <2> QED BY <2>2, <2>3
<1> QED BY <1>7, <1>8, <1>9

\* What is known at the plan of a command.
LEMMA AtPlan ==
    ASSUME IInv, pc = "plan", queue = <<>>
    PROVE  /\ disk \in Disks /\ mem \in RunState /\ Sound(Now, disk) /\ Good(Now, mem, disk)
           /\ disk.state = mem /\ mem.archive = 0 /\ Trees(disk) < Now.turn
           /\ turn = Now.turn /\ Now.cmd = cmd /\ pc # "off"
           /\ <<>> \in Seq(Effects) /\ Walk(Now, disk, <<>>, disk) /\ Verified(mem)
<1>1. /\ disk \in Disks /\ mem \in RunState /\ Sound(Now, disk) /\ Good(Now, mem, disk)
      /\ disk.state = mem /\ mem.archive = 0 /\ Trees(disk) < Now.turn
  BY AtRest DEF Stands
<1>2. Walk(Now, disk, <<>>, disk)
  BY <1>1, NoWalk
<1>3. Verified(mem)
  BY <1>1, VerifiedIs DEF Good
<1> QED BY <1>1, <1>2, <1>3 DEF Now

LEMMA PlanResumeStep ==
    ASSUME IInv, PlanResume
    PROVE  IInv' /\ disk' = disk
<1>1. /\ pc = "plan" /\ queue = <<>> /\ cmd.kind = "resume" /\ cmd.force = "none" /\ Quiet
      /\ disk' = disk
  BY DEF PlanResume, At, Go, Ends
<1>2. /\ disk \in Disks /\ mem \in RunState /\ Sound(Now, disk) /\ Good(Now, mem, disk)
      /\ disk.state = mem /\ mem.archive = 0 /\ Trees(disk) < Now.turn
      /\ turn = Now.turn /\ Now.cmd = cmd /\ pc # "off"
      /\ <<>> \in Seq(Effects) /\ Walk(Now, disk, <<>>, disk) /\ Verified(mem)
  BY <1>1, AtPlan
<1>3. CASE Unfinished(Interrupted(mem).st) = {}
  <2>1. Ends("done", mem, <<>>)
    BY <1>2, <1>3, NoneIncomplete DEF PlanResume
  <2>2. \A x \in Stage : Interrupted(mem).st[x] = IF mem.st[x] = "running" THEN "interrupted" ELSE mem.st[x]
    BY <1>2, InterruptedIs
  <2>3. Unfinished(mem.st) = {}
    BY <1>3, <2>2 DEF Unfinished, Complete
  <2>4. Smooth("off", mem, disk, "done")
    BY <1>2, <2>3 DEF Smooth
  <2>5. Fair("done")
    BY DEF Fair
  <2> QED BY <1>1, <1>2, <2>1, <2>4, <2>5, Finishes
<1>4. CASE Unfinished(Interrupted(mem).st) # {}
  <2> DEFINE p == Prepared(mem)
  <2>1. Go("migrate", p, <<>>)
    BY <1>2, <1>4, NoneIncomplete DEF PlanResume
  <2>2. /\ p \in RunState /\ p.archive = 0 /\ Good(Now, p, disk) /\ ~Succ(p, "report")
        /\ Keeps(Now, mem, p) /\ Settled(p)
    <3>1. Now.cmd.kind = "resume" /\ Now.cmd.force = "none"
      BY <1>1, <1>2
    <3> QED BY <1>2, <1>4, <3>1, PreparedIs
  <2> HIDE DEF p
  <2>3. Stands(Now, "migrate", p, disk)
    BY <1>2, <2>2 DEF Stands, Late
  <2>4. Smooth("migrate", p, disk, "none")
    BY <2>2 DEF Smooth, Settled
  <2>5. "migrate" \in Places \ {"off"}
    BY DEF Places
  <2> QED BY <1>1, <1>2, <2>1, <2>2, <2>3, <2>4, <2>5, Arrives
<1> QED BY <1>3, <1>4

\* A report that is to be written again is withdrawn first.
LEMMA ReportWithdrawn ==
    ASSUME IInv, pc = "plan", queue = <<>>, cmd.kind \in {"regenerate", "rewrite"},
           NEW s, s = InvalidateFrom(mem, "report")
    PROVE  /\ s \in RunState /\ s.archive = 0 /\ Good(Now, s, disk) /\ ~Succ(s, "report")
           /\ s.st["report"] = "pending" /\ Keeps(Now, mem, s)
<1>1. mem \in RunState /\ disk \in Disks /\ Good(Now, mem, disk) /\ mem.archive = 0 /\ Now.cmd = cmd
  BY AtPlan
<1>2. s \in RunState /\ s.archive = 0 /\ Good(Now, s, disk)
  BY <1>1, GoodNearly, Invalidates DEF Boundaries
<1>3. s.st = [x \in Stage |-> IF x \in Downstream("report") THEN "pending" ELSE mem.st[x]]
  BY <1>1 DEF InvalidateFrom, RunState
<1>4. \A x \in Stage : s.st[x] = IF x = "report" THEN "pending" ELSE mem.st[x]
  BY <1>3, Downstreams
<1>5. Keeps(Now, mem, s)
  BY <1>1, <1>4 DEF Keeps, Excused
<1> QED BY <1>2, <1>4, <1>5, StageFacts DEF Succ

LEMMA PlanRegenerateStep ==
    ASSUME IInv, PlanRegenerate
    PROVE  IInv' /\ disk' = disk
<1> DEFINE s == InvalidateFrom(mem, "report")
           z == Holding(disk, s)
<1>1. pc = "plan" /\ queue = <<>> /\ cmd.kind = "regenerate" /\ Quiet /\ disk' = disk
  BY DEF PlanRegenerate, At, Go, Ends
<1>2. /\ disk \in Disks /\ mem \in RunState /\ Sound(Now, disk) /\ disk.state = mem /\ pc # "off"
  BY <1>1, AtPlan
<1>3. /\ s \in RunState /\ s.archive = 0 /\ Good(Now, s, disk) /\ ~Succ(s, "report")
      /\ Keeps(Now, mem, s)
  BY <1>1, ReportWithdrawn
<1> HIDE DEF s
<1>4. Verified(s)
  BY <1>3, VerifiedIs DEF Good
<1>5. Go("report", s, <<Save(s)>>)
  BY <1>4 DEF PlanRegenerate, s
<1>6. /\ <<Save(s)>> \in Seq(Effects) /\ z \in Disks /\ Walk(Now, disk, <<Save(s)>>, z)
      /\ Good(Now, s, z) /\ z.state = s
  BY <1>2, <1>3, SaveOne
<1> HIDE DEF z
<1>7. Stands(Now, "report", s, z)
  BY <1>3, <1>6 DEF Stands, Late
<1>8. ~Plain /\ "report" \in Places \ {"off"}
  BY <1>1 DEF Plain, Places
<1> QED BY <1>1, <1>2, <1>3, <1>5, <1>6, <1>7, <1>8, Arrives

LEMMA PlanRewriteStep ==
    ASSUME IInv, PlanRewrite
    PROVE  IInv' /\ disk' = disk
<1> DEFINE r == InvalidateFrom(mem, "report")
           s == [r EXCEPT !.gen = @ + 1]
           t == With(s, "report", "running")
           z == Holding(disk, t)
<1>1. pc = "plan" /\ queue = <<>> /\ cmd.kind = "rewrite" /\ Quiet /\ disk' = disk
  BY DEF PlanRewrite, At, Go, Ends
<1>2. /\ disk \in Disks /\ mem \in RunState /\ Sound(Now, disk) /\ disk.state = mem /\ pc # "off"
      /\ Now.cmd = cmd
  BY <1>1, AtPlan
<1>3. /\ r \in RunState /\ r.archive = 0 /\ Good(Now, r, disk) /\ ~Succ(r, "report")
      /\ r.st["report"] = "pending" /\ Keeps(Now, mem, r)
  BY <1>1, ReportWithdrawn
<1>4. IF Verified(s) THEN Go("rewriting", t, <<Save(t)>>) ELSE Ends("artifact changed", s, <<>>)
  BY DEF PlanRewrite
<1> HIDE DEF r
<1>5. /\ s \in RunState /\ s.st = r.st /\ s.rec = r.rec /\ s.opt = r.opt /\ s.archive = 0
      /\ s.consent = r.consent /\ s.intent = r.intent
  BY <1>3 DEF RunState
<1> HIDE DEF s
<1>6. Good(Now, s, disk)
  <2>1. Now.forced
    BY <1>1 DEF IInv, Asked, Now
  <2>2. Agreed(Now, s, disk)
    BY <1>3, <1>5, <2>1 DEF Good, Agreed
  <2> QED BY <1>2, <1>3, <1>5, <2>2, Aside
<1>7. Verified(s)
  BY <1>6, VerifiedIs DEF Good
<1>8. t \in RunState /\ Good(Now, t, disk) /\ Grows(s, t) /\ t.archive = 0
  <2>1. "report" \in Stage /\ "running" \in Active /\ s.st["report"] \notin Complete
    BY <1>3, <1>5, StageFacts DEF Active, Complete
  <2>2. Ready(s, disk, "report") /\ ~Succ(s, "report")
    BY <1>3, <1>5 DEF Ready, LeanStage, Succ
  <2> QED BY <1>2, <1>5, <1>6, <2>1, <2>2, Busy, OtherFields
<1>9. t.st["report"] = "running"
  BY <1>5, StageFacts DEF With, RunState
<1>10. Keeps(Now, mem, t)
  <2>1. Keeps(Now, mem, s)
    BY <1>3, <1>5 DEF Keeps
  <2> QED BY <1>8, <2>1, GrowsIs
<1> HIDE DEF t
<1>11. /\ <<Save(t)>> \in Seq(Effects) /\ z \in Disks /\ Walk(Now, disk, <<Save(t)>>, z)
       /\ Good(Now, t, z) /\ z.state = t
  BY <1>2, <1>8, <1>10, SaveOne
<1> HIDE DEF z
<1>12. Stands(Now, "rewriting", t, z)
  BY <1>1, <1>2, <1>8, <1>9, <1>11 DEF Stands, Late, Succ
<1>13. ~Plain /\ "rewriting" \in Places \ {"off"}
  BY <1>1 DEF Plain, Places
<1> QED BY <1>1, <1>2, <1>4, <1>7, <1>8, <1>11, <1>12, <1>13, Arrives

(* ---- resume: the backend --------------------------------------------------- *)
\* The configuration is written between two saves, the last one without intent.
LEMMA Committing ==
    ASSUME NEW c, NEW d \in Disks, NEW s \in RunState, Sound(c, d), Good(c, s, d),
           Keeps(c, d.state, s), Target \in Providers,
           NEW r, r = [s EXCEPT !.intent = NoIntent]
    PROVE  /\ Commit(s) \in Seq(Effects) /\ r \in RunState /\ r.st = s.st /\ r.archive = s.archive
           /\ \E z \in Disks : /\ Walk(c, d, Commit(s), z) /\ Good(c, r, z) /\ z.state = r
                               /\ Trees(z) = Trees(d)
<1> DEFINE d1 == Holding(d, s)
           d2 == Written(d1, Put("config", Target))
           d3 == Holding(d2, r)
<1>1. Commit(s) = <<Save(s), Put("config", Target), Save(r)>>
  BY DEF Commit
<1>2. /\ r \in RunState /\ r.st = s.st /\ r.rec = s.rec /\ r.opt = s.opt /\ r.archive = s.archive
      /\ r.consent = s.consent /\ r.gen = s.gen /\ r.intent = NoIntent
  <2>1. NoIntent \in [to : Providers \cup {"none"}, gen : Nat]
    BY DEF NoIntent
  <2> QED BY <2>1 DEF RunState
<1>3. Trees(d) <= c.turn
  BY DEF Sound
<1>4. /\ Leads(c, d, Save(s), d1) /\ Only(d, d1, "state") /\ d1 \in Disks /\ d1.state = s
      /\ Good(c, s, d1)
  BY <1>3, Saves
<1>5. Trees(d1) = Trees(d)
  BY <1>4, GoodElsewhere
<1>6. Put("config", Target) \in Effects
  BY EffectIs
<1>7. Only(d1, d2, "config")
  BY <1>4, <1>6, PutIs DEF Files
<1> HIDE DEF d1, d2, d3
<1>8. Good(c, s, d2) /\ Trees(d2) = Trees(d)
  BY <1>4, <1>5, <1>7, GoodElsewhere
<1>9. Leads(c, d1, Put("config", Target), d2) /\ d2 \in Disks /\ d2.state = s
  <2>1. Good(c, d1.state, d2) /\ Trees(d2) <= c.turn
    BY <1>3, <1>4, <1>8
  <2>2. "config" \in Files \ {"state"} /\ "config" # "consent"
    BY DEF Files
  <2> QED BY <1>4, <1>6, <2>1, <2>2, Puts DEF d2
<1>10. Good(c, r, d2)
  <2>1. Agreed(c, r, d2)
    BY <1>2, <1>8 DEF Good, Agreed
  <2> QED BY <1>2, <1>8, <1>9, <2>1, Aside
<1>11. Keeps(c, d2.state, r)
  BY <1>2, <1>9, KeepsSame
<1>12. /\ Leads(c, d2, Save(r), d3) /\ Only(d2, d3, "state") /\ d3 \in Disks /\ d3.state = r
       /\ Good(c, r, d3)
  BY <1>2, <1>3, <1>8, <1>9, <1>10, <1>11, Saves DEF d3
<1>13. Trees(d3) = Trees(d)
  BY <1>2, <1>8, <1>9, <1>10, <1>12, GoodElsewhere
<1>14. Commit(s) \in Seq(Effects) /\ Walk(c, d, Commit(s), d3)
  BY <1>1, <1>4, <1>9, <1>12, WalkThree
<1> QED BY <1>2, <1>12, <1>13, <1>14

\* What is known when the backend of a resume is settled.
LEMMA AtMigrate ==
    ASSUME IInv, pc = "migrate", queue = <<>>
    PROVE  /\ disk \in Disks /\ mem \in RunState /\ Sound(Now, disk) /\ Good(Now, mem, disk)
           /\ mem.archive = 0 /\ Trees(disk) < Now.turn /\ ~Succ(mem, "report")
           /\ Keeps(Now, disk.state, mem) /\ Target \in Providers
           /\ Now.turn \in 1..MaxCommands /\ (Plain => Settled(mem))
<1>1. /\ disk \in Disks /\ mem \in RunState /\ Sound(Now, disk) /\ Good(Now, mem, disk)
      /\ mem.archive = 0 /\ Trees(disk) < Now.turn /\ ~Succ(mem, "report")
      /\ Keeps(Now, disk.state, mem) /\ (Plain => Smooth("migrate", mem, disk, end))
  BY AtRest DEF Stands
<1>2. Target \in Providers
  <2>1. mem.intent = NoIntent \/ mem.intent.to \in Providers
    BY <1>1 DEF Good, Agreed
  <2>2. disk.config \in Providers
    BY <1>1, FileTypes
  <2>3. cmd.provider \in Providers \cup {"keep"}
    BY DEF IInv, Typed
  <2> QED BY <2>1, <2>2, <2>3 DEF Target
<1>3. Now.turn \in 1..MaxCommands
  BY AtRest DEF Now
<1>4. Plain => Settled(mem)
  BY <1>1 DEF Smooth, Settled, Awaits
<1> QED BY <1>1, <1>2, <1>3, <1>4

LEMMA StandsPrompt ==
    ASSUME NEW c, NEW s, NEW z, Good(c, s, z), s.archive = 0, z.state = s, ~Succ(s, "report"),
           Trees(z) < c.turn
    PROVE  Stands(c, "prompt", s, z) /\ (Settled(s) => Smooth("prompt", s, z, "none"))
BY DEF Stands, Late, Smooth, Settled

LEMMA KeepBackendStep ==
    ASSUME IInv, KeepBackend
    PROVE  IInv' /\ disk' = disk
<1>1. /\ pc = "migrate" /\ queue = <<>> /\ ~Migrating /\ Go("prompt", mem, Commit(mem)) /\ Quiet
      /\ disk' = disk
  BY DEF KeepBackend, At, Go
<1>2. /\ disk \in Disks /\ mem \in RunState /\ Sound(Now, disk) /\ Good(Now, mem, disk)
      /\ mem.archive = 0 /\ Trees(disk) < Now.turn /\ ~Succ(mem, "report")
      /\ Keeps(Now, disk.state, mem) /\ Target \in Providers /\ (Plain => Settled(mem))
  BY <1>1, AtMigrate
<1>3. mem.intent = NoIntent
  BY <1>1 DEF Migrating
<1>4. mem = [mem EXCEPT !.intent = NoIntent]
  BY <1>2, <1>3 DEF RunState
<1>5. /\ Commit(mem) \in Seq(Effects)
      /\ \E z \in Disks : /\ Walk(Now, disk, Commit(mem), z) /\ Good(Now, mem, z) /\ z.state = mem
                          /\ Trees(z) = Trees(disk)
  BY <1>2, <1>4, Committing
<1>6. PICK z \in Disks : /\ Walk(Now, disk, Commit(mem), z) /\ Good(Now, mem, z) /\ z.state = mem
                         /\ Trees(z) = Trees(disk)
  BY <1>5
<1>7. Stands(Now, "prompt", mem, z) /\ (Plain => Smooth("prompt", mem, z, "none"))
  BY <1>2, <1>6, StandsPrompt
<1>8. "prompt" \in Places \ {"off"} /\ pc # "off"
  BY <1>1 DEF Places
<1> QED BY <1>1, <1>2, <1>5, <1>6, <1>7, <1>8, Arrives

\* The intent, on disk before anything else, agrees with the state.
LEMMA IntendedIs ==
    ASSUME IInv, pc = "migrate", queue = <<>>
    PROVE  /\ Intended \in RunState /\ Intended.st = mem.st /\ Intended.rec = mem.rec
           /\ Intended.opt = mem.opt /\ Intended.archive = mem.archive
           /\ Intended.consent = mem.consent /\ Intended.intent.gen \in Nat
           /\ Intended.intent.to \in Providers /\ Good(Now, Intended, disk)
           /\ mem.gen > Intended.intent.gen => forced
<1>1. disk \in Disks /\ mem \in RunState /\ Good(Now, mem, disk) /\ Target \in Providers
  BY AtMigrate
<1>2. mem.gen \in Nat
  BY <1>1 DEF RunState
<1>3. CASE mem.intent # NoIntent
  <2>1. Intended = mem
    BY <1>3 DEF Intended
  <2>2. mem.intent.to \in Providers /\ mem.intent.gen \in Nat
    BY <1>1, <1>3 DEF Good, Agreed, RunState
  <2>3. mem.gen > mem.intent.gen => forced
    BY <1>1, <1>2, <1>3, <2>2 DEF Good, Agreed, Now
  <2> QED BY <1>1, <2>1, <2>2, <2>3
<1>4. CASE mem.intent = NoIntent
  <2> DEFINE i == [to |-> Target, gen |-> mem.gen + 1]
             m == [mem EXCEPT !.intent = i]
  <2>1. i \in [to : Providers \cup {"none"}, gen : Nat]
    BY <1>1, <1>2
  <2>2. i.to \in Providers /\ i.gen = mem.gen + 1 /\ i.gen \in Nat
    BY <1>1, <1>2
  <2>3. Intended = m
    BY <1>4 DEF Intended
  <2> HIDE DEF i
  <2>4. /\ m \in RunState /\ m.st = mem.st /\ m.rec = mem.rec /\ m.opt = mem.opt
        /\ m.archive = mem.archive /\ m.consent = mem.consent /\ m.intent = i /\ m.gen = mem.gen
    BY <1>1, <2>1 DEF RunState
  <2> HIDE DEF m
  <2>5. Agreed(Now, m, disk)
    BY <1>1, <1>2, <2>2, <2>4 DEF Good, Agreed
  <2>6. Good(Now, m, disk)
    BY <1>1, <2>4, <2>5, Aside
  <2>7. ~(mem.gen > i.gen)
    BY <1>2, <2>2
  <2> QED BY <2>2, <2>3, <2>4, <2>6, <2>7
<1> QED BY <1>3, <1>4

\* A research that is not finished is withdrawn, and nothing that has succeeded is.
LEMMA RenewedIs ==
    ASSUME NEW c, NEW s \in RunState, NEW d \in Disks, Good(c, s, d), s.archive = 0,
           ~Succ(s, "report")
    PROVE  /\ Renewed(s) \in RunState /\ Renewed(s).archive = 0 /\ Good(c, Renewed(s), d)
           /\ Grows(s, Renewed(s)) /\ ~Succ(Renewed(s), "report")
           /\ s.st["research"] \notin Complete => Renewed(s).st["research"] = "pending"
           /\ Settled(s) => Settled(Renewed(s))
<1>1. CASE s.st["research"] \in Complete
  <2>1. Renewed(s) = s
    BY <1>1 DEF Renewed
  <2> QED BY <1>1, <2>1 DEF Grows
<1>2. CASE s.st["research"] \notin Complete
  <2> DEFINE t == InvalidateFrom(s, "research")
  <2>1. Renewed(s) = t
    BY <1>2 DEF Renewed
  <2>2. t \in RunState /\ t.archive = 0 /\ Good(c, t, d)
    BY GoodNearly, Invalidates DEF Boundaries
  <2>3. t.st = [x \in Stage |-> IF x \in Downstream("research") THEN "pending" ELSE s.st[x]]
    BY DEF InvalidateFrom, RunState
  <2> HIDE DEF t
  <2>4. \A x \in Stage : t.st[x] = IF x \in Downstream("research") THEN "pending" ELSE s.st[x]
    BY <2>3
  <2>5. \A x \in Downstream("research") : ~Succ(s, x)
    BY <1>2, Downstreams DEF Succ, Good, Ordered, AfterPrompt, Complete
  <2>6. Grows(s, t) /\ ~Succ(t, "report")
    BY <2>4, <2>5, StageFacts DEF Grows, Succ
  <2>7. t.st["research"] = "pending" /\ t.st["manuscript"] = "pending"
    BY <2>4, Downstreams, StageFacts DEF AfterPrompt, AfterResearch, AfterAudit
  <2>8. Settled(s) => Settled(t)
    BY <2>4, <2>7 DEF Settled, Complete
  <2> QED BY <2>1, <2>2, <2>6, <2>7, <2>8
<1> QED BY <1>1, <1>2

LEMMA MigrateStep ==
    ASSUME IInv, Migrate
    PROVE  IInv' /\ disk' = disk
<1> DEFINE i == Intended
           s == [i EXCEPT !.gen = i.intent.gen]
           t == Renewed(s)
           finished == s.st["research"] \in Complete
           moved == IF finished THEN t ELSE Archived(t)
           r == [moved EXCEPT !.intent = NoIntent]
           q1 == IF mem.intent = NoIntent THEN <<Save(i)>> ELSE <<>>
           q2 == IF finished THEN <<>> ELSE Moves(t)
<1>1. pc = "migrate" /\ queue = <<>> /\ Quiet /\ disk' = disk
  BY DEF Migrate, At, Go, Ends
<1>2. /\ disk \in Disks /\ mem \in RunState /\ Sound(Now, disk) /\ Good(Now, mem, disk)
      /\ mem.archive = 0 /\ Trees(disk) < Now.turn /\ ~Succ(mem, "report")
      /\ Keeps(Now, disk.state, mem) /\ Target \in Providers
      /\ Now.turn \in 1..MaxCommands /\ (Plain => Settled(mem))
  BY <1>1, AtMigrate
<1>3. /\ i \in RunState /\ i.st = mem.st /\ i.rec = mem.rec /\ i.opt = mem.opt
      /\ i.archive = mem.archive /\ i.consent = mem.consent /\ i.intent.gen \in Nat
      /\ i.intent.to \in Providers /\ Good(Now, i, disk) /\ (mem.gen > i.intent.gen => forced)
  BY <1>1, IntendedIs
<1>4. <<>> \in Seq(Effects) /\ Walk(Now, disk, <<>>, disk)
  BY <1>2, NoWalk
<1>5. IF cmd.provider \notin {"keep", Target} THEN Ends("other backend pending", mem, <<>>)
      ELSE IF mem.gen > i.intent.gen THEN Ends("intent overtaken", mem, <<>>)
      ELSE Go("prompt", r, q1 \o q2 \o Commit(moved))
  BY DEF Migrate
<1> HIDE DEF i, s, t, moved, finished, r, q1, q2
<1>6. CASE cmd.provider \notin {"keep", Target}
  <2>1. ~Plain
    BY <1>6 DEF IInv, Asked
  <2>2. Fair("other backend pending")
    BY DEF Fair
  <2>3. Ends("other backend pending", mem, <<>>)
    BY <1>5, <1>6
  <2> QED BY <1>1, <1>2, <1>4, <2>1, <2>2, <2>3, Finishes
<1>7. CASE cmd.provider \in {"keep", Target} /\ mem.gen > i.intent.gen
  <2>1. Ends("intent overtaken", mem, <<>>)
    BY <1>5, <1>7
  <2>2. Fair("intent overtaken")
    BY <1>3, <1>7 DEF Fair
  <2>3. Smooth("off", mem, disk, "intent overtaken")
    BY DEF Smooth
  <2> QED BY <1>1, <1>2, <1>4, <2>1, <2>2, <2>3, Finishes
<1>8. CASE cmd.provider \in {"keep", Target} /\ ~(mem.gen > i.intent.gen)
  <2>1. Go("prompt", r, q1 \o q2 \o Commit(moved))
    BY <1>5, <1>8
  <2>2. /\ s \in RunState /\ s.st = i.st /\ s.rec = i.rec /\ s.opt = i.opt /\ s.archive = i.archive
        /\ s.consent = i.consent /\ s.intent = i.intent /\ s.gen = i.intent.gen
    BY <1>3 DEF RunState, s
  <2>3. Good(Now, s, disk)
    <3>1. Agreed(Now, s, disk)
      BY <1>3, <2>2 DEF Good, Agreed
    <3> QED BY <1>2, <1>3, <2>2, <3>1, Aside
  <2>4. s.archive = 0 /\ ~Succ(s, "report")
    BY <1>2, <1>3, <2>2 DEF Succ
  <2>5. /\ t \in RunState /\ t.archive = 0 /\ Good(Now, t, disk) /\ Grows(s, t)
        /\ ~Succ(t, "report") /\ (~finished => t.st["research"] = "pending")
        /\ (Settled(s) => Settled(t))
    BY <1>2, <2>2, <2>3, <2>4, RenewedIs DEF t, finished
  <2>6. \E y \in Disks : /\ q1 \in Seq(Effects) /\ Walk(Now, disk, q1, y) /\ y.tree = disk.tree
                         /\ Good(Now, t, y) /\ Keeps(Now, y.state, t) /\ Trees(y) = Trees(disk)
    <3>1. Keeps(Now, disk.state, i) /\ Keeps(Now, i, t)
      <4>1. Keeps(Now, disk.state, i)
        BY <1>2, <1>3 DEF Keeps
      <4>2. Grows(i, t)
        BY <2>2, <2>5 DEF Grows, Succ
      <4> QED BY <4>1, <4>2, GrowsIs
    <3>2. Keeps(Now, disk.state, t)
      <4>1. Grows(i, t)
        BY <2>2, <2>5 DEF Grows, Succ
      <4> QED BY <3>1, <4>1, GrowsIs
    <3>3. CASE mem.intent # NoIntent
      <4>1. q1 = <<>>
        BY <3>3 DEF q1
      <4> QED BY <1>2, <1>4, <2>5, <3>2, <4>1
    <3>4. CASE mem.intent = NoIntent
      <4> DEFINE y == Holding(disk, i)
      <4>1. q1 = <<Save(i)>>
        BY <3>4 DEF q1
      <4>2. /\ q1 \in Seq(Effects) /\ y \in Disks /\ Walk(Now, disk, q1, y) /\ y.state = i
            /\ Only(disk, y, "state") /\ Trees(y) = Trees(disk)
        BY <1>2, <1>3, <3>1, <4>1, SaveOne
      <4> HIDE DEF y
      <4>3. Good(Now, t, y)
        BY <1>2, <2>5, <4>2, GoodElsewhere
      <4>4. y.tree = disk.tree
        BY <4>2 DEF Only, Files
      <4> QED BY <3>1, <4>2, <4>3, <4>4
    <3> QED BY <3>3, <3>4
  <2>7. PICK y1 \in Disks : /\ q1 \in Seq(Effects) /\ Walk(Now, disk, q1, y1) /\ y1.tree = disk.tree
                            /\ Good(Now, t, y1) /\ Keeps(Now, y1.state, t)
                            /\ Trees(y1) = Trees(disk)
    BY <2>6
  <2>8. Sound(Now, y1)
    BY <1>2, <2>7, WalkStart
  <2>9. /\ q2 \in Seq(Effects) /\ moved \in RunState /\ moved.st = t.st /\ moved.archive = 0
        /\ \E y \in Disks : /\ Walk(Now, y1, q2, y) /\ Good(Now, moved, y)
                            /\ Keeps(Now, y.state, moved) /\ Trees(y) = Trees(disk)
    <3>1. CASE finished
      <4>1. q2 = <<>> /\ moved = t
        BY <3>1 DEF q2, moved
      <4>2. Walk(Now, y1, <<>>, y1)
        BY <2>8, NoWalk
      <4> QED BY <1>4, <2>5, <2>7, <4>1, <4>2
    <3>2. CASE ~finished
      <4>1. q2 = Moves(t) /\ moved = Archived(t)
        BY <3>2 DEF q2, moved
      <4>2. Ordered(t, y1) /\ Filed(t, y1) /\ Agreed(Now, t, y1)
        BY <2>7 DEF Good
      <4>3. Trees(y1) < Now.turn
        BY <1>2, <2>7
      <4> QED BY <1>2, <2>5, <2>7, <2>8, <3>2, <4>1, <4>2, <4>3, Moving
    <3> QED BY <3>1, <3>2
  <2>10. PICK y2 \in Disks : /\ Walk(Now, y1, q2, y2) /\ Good(Now, moved, y2)
                             /\ Keeps(Now, y2.state, moved) /\ Trees(y2) = Trees(disk)
    BY <2>9
  <2>11. Sound(Now, y2)
    BY <2>9, <2>10, WalkStart
  <2>12. r = [moved EXCEPT !.intent = NoIntent]
    BY DEF r
  <2>13. /\ Commit(moved) \in Seq(Effects) /\ r \in RunState /\ r.st = moved.st
         /\ r.archive = moved.archive
         /\ \E z \in Disks : /\ Walk(Now, y2, Commit(moved), z) /\ Good(Now, r, z) /\ z.state = r
                             /\ Trees(z) = Trees(y2)
    BY <1>2, <2>9, <2>10, <2>11, <2>12, Committing
  <2>14. PICK z \in Disks : /\ Walk(Now, y2, Commit(moved), z) /\ Good(Now, r, z) /\ z.state = r
                            /\ Trees(z) = Trees(y2)
    BY <2>13
  <2>15. q1 \o q2 \in Seq(Effects) /\ Walk(Now, disk, q1 \o q2, y2)
    BY <1>2, <2>7, <2>9, <2>10, WalkJoin
  <2> DEFINE q == (q1 \o q2) \o Commit(moved)
  <2>16. q \in Seq(Effects) /\ Walk(Now, disk, q, z)
    BY <1>2, <2>13, <2>14, <2>15, WalkJoin
  <2>17. ~Succ(r, "report") /\ r.archive = 0 /\ (Plain => Settled(r)) /\ Trees(z) < Now.turn
    BY <1>2, <1>3, <2>2, <2>5, <2>9, <2>10, <2>13, <2>14 DEF Succ, Settled
  <2>18. Stands(Now, "prompt", r, z) /\ (Plain => Smooth("prompt", r, z, "none"))
    BY <2>14, <2>17, StandsPrompt
  <2>19. "prompt" \in Places \ {"off"} /\ pc # "off"
    BY <1>1 DEF Places
  <2> QED BY <1>1, <2>1, <2>13, <2>16, <2>18, <2>19, Arrives
<1> QED BY <1>6, <1>7, <1>8

(* ---- the stages: what they share ------------------------------------------- *)
\* What is known where the state on disk is that of the process.
LEMMA AtStage ==
    ASSUME IInv, queue = <<>>, pc \notin {"off", "load", "plan", "migrate", "explaining"}
    PROVE  /\ disk \in Disks /\ mem \in RunState /\ Sound(Now, disk) /\ Good(Now, mem, disk)
           /\ disk.state = mem /\ mem.archive = 0 /\ ~Succ(mem, "report")
           /\ Trees(disk) <= Now.turn /\ Now.turn = turn /\ turn \in Version /\ turn # 0
           /\ Now.cmd = cmd
           /\ <<>> \in Seq(Effects) /\ Walk(Now, disk, <<>>, disk)
           /\ Stands(Now, pc, mem, disk) /\ (Plain => Smooth(pc, mem, disk, end))
<1>1. /\ disk \in Disks /\ mem \in RunState /\ Sound(Now, disk) /\ turn \in Version /\ turn # 0
      /\ Trees(disk) <= turn
      /\ Stands(Now, pc, mem, disk) /\ (Plain => Smooth(pc, mem, disk, end))
  BY AtRest
<1>2. Good(Now, mem, disk) /\ disk.state = mem /\ mem.archive = 0 /\ ~Succ(mem, "report")
  BY <1>1 DEF Stands
<1>3. Walk(Now, disk, <<>>, disk)
  BY <1>1, NoWalk
<1> QED BY <1>1, <1>2, <1>3 DEF Now

LEMMA SettledAt ==
    ASSUME NEW place, place \notin Awaits \ {"asking"}, place \notin {"off", "load", "plan"},
           NEW s, NEW z, NEW how, Smooth(place, s, z, how)
    PROVE  Settled(s)
BY DEF Smooth, Settled

LEMMA SmoothAwait ==
    ASSUME NEW await \in Awaits \ {"asking"}, NEW s \in RunState, Settled(s), NEW z, NEW how,
           NEW t, t = With(s, StageAt(await), "running")
    PROVE  Smooth(await, t, z, how)
<1>1. /\ StageAt(await) \in {"prompt", "research", "manuscript", "feasibility"}
      /\ StageAt(await) \in Stage
  BY StageFacts DEF StageAt, Awaits
<1>2. t.st = [s.st EXCEPT ![StageAt(await)] = "running"] /\ s.st \in [Stage -> Status]
  BY <1>1 DEF With, RunState
<1>3. \A x \in Stage : t.st[x] = IF x = StageAt(await) THEN "running" ELSE s.st[x]
  BY <1>2
<1>4. \A x \in Stage : t.st[x] = "running" => x = StageAt(await)
  BY <1>3 DEF Settled
<1>5. t.st["manuscript"] \in Complete => t.st["bibliography"] \in Complete
  BY <1>1, <1>3, StageFacts DEF Settled, Complete
<1> QED BY <1>4, <1>5 DEF Smooth, Awaits

\* The report is what is left, or what the process cannot go on from.
LEMMA StandsReport ==
    ASSUME NEW c, NEW s, NEW z, NEW place \in {"report", "explaining"},
           Good(c, s, z), s.archive = 0, z.state = s, ~Succ(s, "report")
    PROVE  Stands(c, place, s, z)
<1>1. Keeps(c, z.state, s)
  BY KeepsSame
<1> QED BY <1>1 DEF Stands, Late

LEMMA SmoothReport ==
    ASSUME NEW s, NEW z, Settled(s), Unfinished(s.st) \subseteq LeanStage \cup {"report"}
    PROVE  Smooth("report", s, z, "none")
BY DEF Smooth, Settled

\* After a paid stage the budget may be spent.
LEMMA OnwardsArrives ==
    ASSUME IInv, pc # "off", NEW place \in {"research", "report", "manuscript", "consent"},
           NEW s \in RunState, NEW q \in Seq(Effects), NEW z \in Disks,
           Walk(Now, disk, q, z), Stands(Now, place, s, z), Onwards(place, s, q),
           Plain => Smooth(place, s, z, "none")
    PROVE  IInv' /\ disk' = disk
<1>1. place \in Places \ {"off"} /\ "explaining" \in Places \ {"off"}
  BY DEF Places
<1>2. Stands(Now, "explaining", s, z)
  <2>1. Good(Now, s, z) /\ s.archive = 0 /\ z.state = s /\ ~Succ(s, "report")
    BY DEF Stands
  <2> QED BY <2>1, StandsReport
<1>3. disk' = disk
  BY DEF Onwards, Go
<1>4. (Go(place, s, q) /\ Quiet) \/ (Go("explaining", s, q) /\ Upset)
  BY DEF Onwards
<1> QED BY <1>1, <1>2, <1>3, <1>4, Arrives

LEMMA OnlyTwice ==
    ASSUME NEW d, NEW e, NEW f, NEW file, Only(d, e, file), Only(e, f, file)
    PROVE  Only(d, f, file)
BY DEF Only

\* Two saves in a row.
LEMMA SaveTwo ==
    ASSUME NEW c, NEW d \in Disks, NEW s \in RunState, NEW t \in RunState, Sound(c, d),
           Good(c, s, d), Good(c, t, d), Keeps(c, d.state, s), Grows(s, t)
    PROVE  /\ <<Save(s), Save(t)>> \in Seq(Effects)
           /\ \E z \in Disks : /\ Walk(c, d, <<Save(s), Save(t)>>, z) /\ Only(d, z, "state")
                               /\ Good(c, t, z) /\ z.state = t /\ Trees(z) = Trees(d)
<1> DEFINE y == Holding(d, s)
           z == Holding(y, t)
<1>1. Trees(d) <= c.turn
  BY DEF Sound
<1>2. /\ Leads(c, d, Save(s), y) /\ Only(d, y, "state") /\ y \in Disks /\ y.state = s
      /\ Trees(y) <= c.turn
  BY <1>1, Saves
<1> HIDE DEF y
<1>3. Good(c, t, y)
  BY <1>2, GoodElsewhere
<1>4. Keeps(c, y.state, t)
  BY <1>2, GrowsIs
<1>5. /\ Leads(c, y, Save(t), z) /\ Only(y, z, "state") /\ z \in Disks /\ z.state = t
      /\ Good(c, t, z)
  BY <1>2, <1>3, <1>4, Saves
<1> HIDE DEF z
<1>6. <<Save(s), Save(t)>> \in Seq(Effects) /\ Walk(c, d, <<Save(s), Save(t)>>, z)
  BY <1>2, <1>5, WalkTwo
<1>7. Only(d, z, "state")
  BY <1>2, <1>5, OnlyTwice
<1>8. Trees(z) = Trees(d)
  BY <1>5, <1>7, GoodElsewhere
<1> QED BY <1>5, <1>6, <1>7, <1>8

\* An artifact, and two saves.
LEMMA PutSaveTwo ==
    ASSUME NEW c, NEW d \in Disks, NEW e \in Effects, NEW y \in Disks, NEW s \in RunState,
           NEW t \in RunState, Sound(c, d), Leads(c, d, e, y), y.state = d.state,
           Good(c, s, y), Good(c, t, y), Keeps(c, d.state, s), Grows(s, t)
    PROVE  /\ <<e, Save(s), Save(t)>> \in Seq(Effects)
           /\ \E z \in Disks : /\ Walk(c, d, <<e, Save(s), Save(t)>>, z) /\ Only(y, z, "state")
                               /\ Good(c, t, z) /\ z.state = t /\ Trees(z) = Trees(y)
<1>1. Sound(c, y) /\ y = Written(d, e) /\ Fits(c, d, y)
  BY DEF Leads
<1>2. /\ <<Save(s), Save(t)>> \in Seq(Effects)
      /\ \E z \in Disks : /\ Walk(c, y, <<Save(s), Save(t)>>, z) /\ Only(y, z, "state")
                          /\ Good(c, t, z) /\ z.state = t /\ Trees(z) = Trees(y)
  BY <1>1, SaveTwo
<1>3. PICK z \in Disks : /\ Walk(c, y, <<Save(s), Save(t)>>, z) /\ Only(y, z, "state")
                         /\ Good(c, t, z) /\ z.state = t /\ Trees(z) = Trees(y)
  BY <1>2
<1>4. Save(s) \in Effects /\ Save(t) \in Effects
  BY EffectIs DEF Save
<1>5. <<e>> \o <<Save(s), Save(t)>> = <<e, Save(s), Save(t)>>
  BY <1>4, Tuples
<1>6. <<e, Save(s), Save(t)>> \in Seq(Effects) /\ Walk(c, d, <<e, Save(s), Save(t)>>, z)
  BY <1>1, <1>2, <1>3, <1>5, WalkCons
<1> QED BY <1>3, <1>6

(* ---- the prompt -------------------------------------------------------------- *)
LEMMA SkipSets == AllButPrompt = AfterPrompt /\ AllButResearch = AfterAudit
BY StageFacts DEF AllButPrompt, AllButResearch, AfterPrompt, AfterResearch, AfterAudit,
                  AfterManuscript, LeanStage

\* A run that ends with its problem or its research ends there.
LEMMA OverWithPrompt ==
    ASSUME NEW s \in RunState, NEW d \in Disks, Ordered(s, d), Succ(s, "prompt"), ~d.prompt.clear,
           NEW t, t = SkipPending(s, AllButPrompt)
    PROVE  Unfinished(t.st) \subseteq {"report"} /\ t.st["report"] = s.st["report"]
<1>1. \A x \in Stage : t.st[x] = IF x \in AfterPrompt /\ s.st[x] = "pending" THEN "skipped" ELSE s.st[x]
  BY SkipPendingIs, SkipSets
<1>2. \A x \in AfterPrompt : s.st[x] \in {"pending", "skipped"}
  BY DEF Ordered, Succ, Complete, AfterPrompt
<1>3. \A x \in Stage \ {"report"} : t.st[x] \in Complete
  BY <1>1, <1>2, StageFacts DEF Succ, Complete, AfterPrompt, AfterResearch, AfterAudit,
                                AfterManuscript, LeanStage
<1>4. "report" \in Stage /\ "report" \notin AfterPrompt
  BY StageFacts DEF AfterPrompt, AfterResearch, AfterAudit, AfterManuscript, LeanStage
<1> QED BY <1>1, <1>3, <1>4 DEF Unfinished

LEMMA OverWithResearch ==
    ASSUME NEW s \in RunState, NEW d \in Disks, Ordered(s, d), Succ(s, "research"),
           s.st["audit"] \in Complete, ~Goes(s, d), NEW t, t = SkipPending(s, AllButResearch)
    PROVE  Unfinished(t.st) \subseteq {"report"} /\ t.st["report"] = s.st["report"]
<1>1. \A x \in Stage : t.st[x] = IF x \in AfterAudit /\ s.st[x] = "pending" THEN "skipped" ELSE s.st[x]
  BY SkipPendingIs, SkipSets
<1>2. s.st["prompt"] = "succeeded"
  BY DEF Ordered, Succ, AfterPrompt
<1>3. s.st["manuscript"] \in {"pending", "skipped"}
  BY DEF Ordered
<1>4. \A x \in AfterAudit : s.st[x] \in {"pending", "skipped"}
  BY <1>3 DEF Ordered, Complete, AfterAudit, AfterManuscript
<1>5. \A x \in Stage \ {"report"} : t.st[x] \in Complete
  BY <1>1, <1>2, <1>4, StageFacts DEF Succ, Complete, AfterAudit, AfterManuscript, LeanStage
<1>6. "report" \in Stage /\ "report" \notin AfterAudit
  BY StageFacts DEF AfterAudit, AfterManuscript, LeanStage
<1> QED BY <1>1, <1>5, <1>6 DEF Unfinished

\* With a draft and its bibliography, only Lean and the report are left.
LEMMA LeftAfterDraft ==
    ASSUME NEW s \in RunState, NEW d \in Disks, Ordered(s, d), Succ(s, "manuscript"),
           s.st["bibliography"] \in Complete
    PROVE  Unfinished(s.st) \subseteq LeanStage \cup {"report"}
<1>1. s.st["prompt"] = "succeeded" /\ s.st["audit"] = "succeeded" /\ s.st["research"] \in Complete
  BY DEF Ordered, Succ, AfterPrompt, AfterResearch, AfterAudit, Complete
<1> QED BY <1>1, StageFacts DEF Unfinished, Complete, LeanStage, Succ

LEMMA SmoothOver ==
    ASSUME NEW t, NEW z, Unfinished(t.st) \subseteq {"report"}, t.st["report"] # "running"
    PROVE  Settled(t) /\ Smooth("report", t, z, "none")
<1>1. \A x \in Stage : x # "report" => t.st[x] \in Complete
  BY DEF Unfinished
<1>2. \A x \in Stage : t.st[x] # "running"
  BY <1>1 DEF Complete
<1>3. Settled(t)
  BY <1>1, <1>2, StageFacts DEF Settled
<1> QED BY <1>3, SmoothReport

\* _begin with a stage that may start.
LEMMA Begun ==
    ASSUME IInv, NEW place \in {"prompt", "research", "manuscript", "lean"}, Begins(place),
           Ready(mem, disk, StageAt(place)),
           NEW s, s = With(mem, StageAt(place), "running"), NEW z, z = Holding(disk, s)
    PROVE  /\ s \in RunState /\ z \in Disks /\ Good(Now, s, z) /\ Sound(Now, z)
           /\ Save(s) \in Effects /\ Leads(Now, disk, Save(s), z)
           /\ <<Save(s)>> \in Seq(Effects) /\ Walk(Now, disk, <<Save(s)>>, z) /\ z.state = s
           /\ Only(disk, z, "state") /\ Trees(z) = Trees(disk) /\ Grows(mem, s)
           /\ s.archive = 0 /\ s.consent = mem.consent /\ s.opt = mem.opt
           /\ s.st[StageAt(place)] = "running" /\ ~Succ(s, "report")
           /\ (Plain => Settled(mem))
<1> DEFINE x == StageAt(place)
<1>1. /\ x \in {"prompt", "research", "manuscript", "feasibility"} /\ x \in Stage
      /\ pc = place /\ queue = <<>> /\ mem.st[x] \in Startable
  BY StageFacts DEF Begins, At, StageAt
<1>2. /\ disk \in Disks /\ mem \in RunState /\ Sound(Now, disk) /\ Good(Now, mem, disk)
      /\ disk.state = mem /\ mem.archive = 0 /\ ~Succ(mem, "report") /\ Trees(disk) <= Now.turn
      /\ (Plain => Smooth(pc, mem, disk, end))
  BY <1>1, AtStage
<1> HIDE DEF x
<1>3. s = With(mem, x, "running") /\ Ready(mem, disk, x)
  BY DEF x
<1>4. mem.st[x] \notin Complete /\ "running" \in Active /\ "running" \in Status
  BY <1>1, StageFacts DEF Complete, Active
<1>5. s \in RunState /\ Good(Now, s, disk) /\ Grows(mem, s)
  BY <1>1, <1>2, <1>3, <1>4, Busy
<1>6. s.archive = 0 /\ s.consent = mem.consent /\ s.opt = mem.opt
  BY <1>1, <1>2, <1>3, OtherFields
<1>7. s.st = [mem.st EXCEPT ![x] = "running"] /\ mem.st \in [Stage -> Status]
  BY <1>1, <1>2, <1>3, <1>4, WithIs DEF RunState
<1>8. s.st[x] = "running" /\ s.st["report"] = mem.st["report"]
  BY <1>1, <1>7, StageFacts
<1>9. Keeps(Now, disk.state, s)
  BY <1>2, <1>5, GrowsIs
<1>10. /\ Leads(Now, disk, Save(s), z) /\ Only(disk, z, "state") /\ z \in Disks /\ z.state = s
       /\ Good(Now, s, z)
  BY <1>2, <1>5, <1>9, Saves
<1>11. /\ <<Save(s)>> \in Seq(Effects) /\ Walk(Now, disk, <<Save(s)>>, z)
       /\ Trees(z) = Trees(disk)
  BY <1>2, <1>5, <1>9, SaveOne
<1>12. Plain => Settled(mem)
  <2>1. pc \notin {"off", "load", "plan"} /\ pc \notin Awaits \ {"asking"}
    BY <1>1 DEF Awaits
  <2> QED BY <1>2, <2>1, SettledAt
<1> QED BY <1>2, <1>5, <1>6, <1>8, <1>10, <1>11, <1>12 DEF Succ, Leads, x

LEMMA StartPromptStep ==
    ASSUME IInv, StartPrompt
    PROVE  IInv' /\ disk' = disk
<1> DEFINE s == With(mem, "prompt", "running")
           z == Holding(disk, s)
<1>1. StageAt("prompt") = "prompt" /\ StageAt("compiling") = "prompt"
  BY DEF StageAt
<1>2. /\ Begins("prompt") /\ pc = "prompt" /\ queue = <<>> /\ Quiet
      /\ Go("compiling", s, <<Save(s)>> \o <<>>) /\ disk' = disk
  BY <1>1 DEF StartPrompt, Starts, Begins, At, Go
<1>3. Ready(mem, disk, "prompt")
  BY DEF Ready, LeanStage
<1>4. /\ s \in RunState /\ z \in Disks /\ Good(Now, s, z) /\ Save(s) \in Effects
      /\ <<Save(s)>> \in Seq(Effects) /\ Walk(Now, disk, <<Save(s)>>, z) /\ z.state = s
      /\ Trees(z) = Trees(disk) /\ s.archive = 0 /\ s.st["prompt"] = "running" /\ ~Succ(s, "report")
      /\ (Plain => Settled(mem))
  BY <1>1, <1>2, <1>3, Begun
<1>5. Trees(disk) < Now.turn /\ mem \in RunState
  BY <1>2, AtStage DEF Stands
<1> HIDE DEF z
<1>6. Plain => Smooth("compiling", s, z, "none")
  BY <1>1, <1>4, <1>5, SmoothAwait DEF Awaits
<1> HIDE DEF s
<1>7. Stands(Now, "compiling", s, z)
  BY <1>4, <1>5 DEF Stands, Late
<1>8. "compiling" \in Places \ {"off"} /\ pc # "off" /\ <<Save(s)>> \o <<>> = <<Save(s)>>
  BY <1>2, <1>4, Tuples DEF Places, Awaits
<1> QED BY <1>2, <1>4, <1>6, <1>7, <1>8, Arrives

LEMMA KeepPromptStep ==
    ASSUME IInv, KeepPrompt
    PROVE  IInv' /\ disk' = disk
<1> DEFINE s == IF disk.prompt.clear THEN mem ELSE SkipPending(mem, AllButPrompt)
           z == Holding(disk, s)
           place == IF disk.prompt.clear THEN "research" ELSE "report"
<1>1. /\ pc = "prompt" /\ queue = <<>> /\ mem.st["prompt"] \in Complete /\ Quiet
      /\ Go(place, s, <<Save(s)>>) /\ disk' = disk
  BY DEF KeepPrompt, Kept, At, StageAt, Skipping, Go
<1>2. /\ disk \in Disks /\ mem \in RunState /\ Sound(Now, disk) /\ Good(Now, mem, disk)
      /\ disk.state = mem /\ mem.archive = 0 /\ ~Succ(mem, "report")
      /\ Trees(disk) < Now.turn /\ (Plain => Smooth(pc, mem, disk, end))
  BY <1>1, AtStage DEF Stands
<1>3. Succ(mem, "prompt")
  BY <1>1, <1>2 DEF Good, Ordered, Succ, Complete
<1>4. /\ s \in RunState /\ Good(Now, s, disk) /\ Grows(mem, s) /\ s.archive = 0
      /\ s.st["report"] = mem.st["report"]
      /\ ~disk.prompt.clear => Unfinished(s.st) \subseteq {"report"}
  <2>1. CASE disk.prompt.clear
    BY <1>2, <2>1 DEF Grows
  <2>2. CASE ~disk.prompt.clear
    <3> DEFINE t == SkipPending(mem, AllButPrompt)
    <3>1. Skippable(mem, disk, AllButPrompt)
      BY <1>3, <2>2 DEF Skippable
    <3>2. t \in RunState /\ Good(Now, t, disk) /\ Grows(mem, t)
      BY <1>2, <3>1, Skips
    <3>3. Unfinished(t.st) \subseteq {"report"} /\ t.st["report"] = mem.st["report"]
      BY <1>2, <1>3, <2>2, OverWithPrompt DEF Good
    <3>4. t.archive = 0
      BY <1>2, OtherFields, StageFacts
    <3> QED BY <2>2, <3>2, <3>3, <3>4
  <2> QED BY <2>1, <2>2
<1>5. Keeps(Now, disk.state, s)
  BY <1>2, <1>4, GrowsIs
<1>6. /\ <<Save(s)>> \in Seq(Effects) /\ z \in Disks /\ Walk(Now, disk, <<Save(s)>>, z)
      /\ Good(Now, s, z) /\ z.state = s /\ Only(disk, z, "state") /\ Trees(z) = Trees(disk)
  BY <1>2, <1>4, <1>5, SaveOne
<1>7. Plain => Settled(mem)
  <2>1. pc \notin {"off", "load", "plan"} /\ pc \notin Awaits \ {"asking"}
    BY <1>1 DEF Awaits
  <2> QED BY <1>2, <2>1, SettledAt
<1>8. z.prompt = disk.prompt /\ ~Succ(s, "report") /\ Succ(s, "prompt") /\ place \in Places \ {"off"}
  BY <1>2, <1>3, <1>4, <1>6, StageFacts DEF Only, Files, Succ, Grows, Places
<1> HIDE DEF z
<1>9. CASE disk.prompt.clear
  <2>1. Stands(Now, "research", s, z)
    BY <1>2, <1>4, <1>6, <1>8, <1>9 DEF Stands, Late
  <2>2. Plain => Smooth("research", s, z, "none")
    BY <1>7, <1>9 DEF Smooth, Settled
  <2> HIDE DEF s
  <2> QED BY <1>1, <1>4, <1>6, <1>8, <1>9, <2>1, <2>2, Arrives
<1>10. CASE ~disk.prompt.clear
  <2> HIDE DEF s
  <2>1. Stands(Now, "report", s, z)
    BY <1>4, <1>6, <1>8, StandsReport
  <2>2. Plain => Smooth("report", s, z, "none")
    <3>1. Plain => s.st["report"] # "running"
      BY <1>4, <1>7, StageFacts DEF Settled
    <3> QED BY <1>4, <1>10, <3>1, SmoothOver
  <2> QED BY <1>1, <1>4, <1>6, <1>8, <1>10, <2>1, <2>2, Arrives
<1> QED BY <1>9, <1>10

LEMMA CompileStep ==
    ASSUME IInv, Compile
    PROVE  IInv' /\ disk' = disk
<1>1. PICK clear \in BOOLEAN :
          LET s == Succeeded(mem, "prompt", turn)
              t == IF clear THEN s ELSE SkipPending(s, AllButPrompt)
          IN Onwards(IF clear THEN "research" ELSE "report", t,
                     <<Put("prompt", [ver |-> turn, clear |-> clear]), Save(s), Save(t)>>)
  BY DEF Compile, Skipping
<1> DEFINE s == Succeeded(mem, "prompt", turn)
           t == IF clear THEN s ELSE SkipPending(s, AllButPrompt)
           v == [ver |-> turn, clear |-> clear]
           e == Put("prompt", v)
           y == Written(disk, e)
           place == IF clear THEN "research" ELSE "report"
<1>2. pc = "compiling" /\ queue = <<>> /\ Onwards(place, t, <<e, Save(s), Save(t)>>)
  BY <1>1 DEF Compile, At
<1>3. /\ disk \in Disks /\ mem \in RunState /\ Sound(Now, disk) /\ Good(Now, mem, disk)
      /\ disk.state = mem /\ mem.archive = 0 /\ ~Succ(mem, "report") /\ Trees(disk) < Now.turn
      /\ Trees(disk) <= Now.turn /\ mem.st["prompt"] = "running" /\ turn \in Version /\ turn # 0
      /\ (Plain => Smooth(pc, mem, disk, end))
  BY <1>2, AtStage DEF Stands
<1>4. e \in Effects /\ v.ver = turn /\ v.clear = clear
  BY <1>3, EffectIs DEF PromptFile
<1>5. Only(disk, y, "prompt") /\ y.prompt = v /\ y \in Disks
  <2>1. Only(disk, y, "prompt") /\ y["prompt"] = v
    BY <1>3, <1>4, PutIs DEF Files
  <2> QED BY <2>1 DEF Only
<1> HIDE DEF v
<1>6. Good(Now, mem, y) /\ Trees(y) = Trees(disk)
  BY <1>3, <1>5, GoodPrompt DEF Succ
<1>7. Leads(Now, disk, e, y) /\ y.state = mem
  <2>1. "prompt" \in Files \ {"state"}
    BY DEF Files
  <2>2. Good(Now, disk.state, y) /\ Trees(y) <= Now.turn
    BY <1>3, <1>6
  <2> QED BY <1>3, <1>4, <2>1, <2>2, Puts
<1> HIDE DEF e, y
<1>8. s \in RunState /\ Good(Now, s, y) /\ Grows(mem, s)
  <2>1. Made(mem, y, "prompt", turn)
    BY <1>4, <1>5 DEF Made, Artifact
  <2>2. Ready(mem, y, "prompt") /\ mem.st["prompt"] \notin Complete
    BY <1>3 DEF Ready, LeanStage, Complete
  <2> QED BY <1>3, <1>5, <1>6, <2>1, <2>2, Records
<1>9. /\ s.st = [mem.st EXCEPT !["prompt"] = "succeeded"] /\ mem.st \in [Stage -> Status]
      /\ s.archive = 0
  <2>1. "prompt" \in Stage
    BY StageFacts
  <2>2. s.st = [mem.st EXCEPT !["prompt"] = "succeeded"]
    BY <1>3 DEF Succeeded, RunState
  <2> QED BY <1>3, <2>1, <2>2, OtherFields DEF RunState
<1>10. Succ(s, "prompt") /\ ~Succ(s, "report") /\ s.st["report"] = mem.st["report"]
  BY <1>3, <1>9, StageFacts DEF Succ
<1> HIDE DEF s
<1>11. /\ t \in RunState /\ Good(Now, t, y) /\ Grows(s, t) /\ t.archive = 0
       /\ t.st["report"] = mem.st["report"]
       /\ ~clear => Unfinished(t.st) \subseteq {"report"}
  <2>1. CASE clear
    BY <1>8, <1>9, <1>10, <2>1 DEF Grows
  <2>2. CASE ~clear
    <3> DEFINE u == SkipPending(s, AllButPrompt)
    <3>1. Skippable(s, y, AllButPrompt)
      BY <1>4, <1>5, <1>10, <2>2 DEF Skippable
    <3>2. u \in RunState /\ Good(Now, u, y) /\ Grows(s, u)
      BY <1>5, <1>8, <1>9, <1>10, <3>1, Skips
    <3>3. Unfinished(u.st) \subseteq {"report"} /\ u.st["report"] = s.st["report"]
      BY <1>4, <1>5, <1>8, <1>10, <2>2, OverWithPrompt DEF Good
    <3>4. u.archive = 0
      BY <1>8, <1>9, OtherFields, StageFacts
    <3> QED BY <1>10, <2>2, <3>2, <3>3, <3>4
  <2> QED BY <2>1, <2>2
<1>12. ~Succ(t, "report") /\ Succ(t, "prompt")
  BY <1>3, <1>10, <1>11, StageFacts DEF Succ, Grows
<1>13. Keeps(Now, disk.state, s)
  BY <1>3, <1>8, GrowsIs
<1>14. /\ <<e, Save(s), Save(t)>> \in Seq(Effects)
       /\ \E z \in Disks : /\ Walk(Now, disk, <<e, Save(s), Save(t)>>, z) /\ Only(y, z, "state")
                           /\ Good(Now, t, z) /\ z.state = t /\ Trees(z) = Trees(y)
  <2> HIDE DEF t
  <2> QED BY <1>3, <1>4, <1>5, <1>7, <1>8, <1>11, <1>13, PutSaveTwo
<1>15. PICK z \in Disks : /\ Walk(Now, disk, <<e, Save(s), Save(t)>>, z) /\ Only(y, z, "state")
                          /\ Good(Now, t, z) /\ z.state = t /\ Trees(z) = Trees(y)
  BY <1>14
<1>16. z.prompt = v
  BY <1>5, <1>15 DEF Only, Files
<1>17. Plain => \A x \in Stage : mem.st[x] = "running" => x = "prompt"
  BY <1>2, <1>3 DEF Smooth, StageAt
<1>18. CASE clear
  <2>1. Stands(Now, "research", t, z)
    BY <1>3, <1>4, <1>6, <1>11, <1>12, <1>15, <1>16, <1>18 DEF Stands, Late
  <2>2. Plain => Smooth("research", t, z, "none")
    <3>1. t.st = s.st
      BY <1>18
    <3>2. Plain => \A x \in Stage : t.st[x] # "running"
      BY <1>9, <1>17, <3>1
    <3>3. Plain => (mem.st["manuscript"] \in Complete => mem.st["bibliography"] \in Complete)
      BY <1>2, <1>3 DEF Smooth
    <3>4. t.st["manuscript"] = mem.st["manuscript"] /\ t.st["bibliography"] = mem.st["bibliography"]
      BY <1>9, <3>1, StageFacts
    <3> QED BY <3>2, <3>3, <3>4 DEF Smooth
  <2> HIDE DEF t
  <2> QED BY <1>2, <1>11, <1>14, <1>15, <1>18, <2>1, <2>2, OnwardsArrives
<1>19. CASE ~clear
  <2> HIDE DEF t
  <2>1. Stands(Now, "report", t, z)
    BY <1>11, <1>12, <1>15, StandsReport
  <2>2. Plain => Smooth("report", t, z, "none")
    <3>1. Plain => t.st["report"] # "running"
      BY <1>11, <1>17, StageFacts
    <3> QED BY <1>11, <1>19, <3>1, SmoothOver
  <2> QED BY <1>2, <1>11, <1>14, <1>15, <1>19, <2>1, <2>2, OnwardsArrives
<1> QED BY <1>18, <1>19

(* ---- the research and its audit ---------------------------------------------- *)
LEMMA SettledOn ==
    ASSUME NEW s, NEW t, Settled(s), \A x \in Stage : t.st[x] = "running" => s.st[x] = "running",
           t.st["manuscript"] = s.st["manuscript"], t.st["bibliography"] = s.st["bibliography"]
    PROVE  Settled(t)
BY DEF Settled

\* A graph operation is applied once, and no run state speaks of the graph.
LEMMA RecordIs ==
    ASSUME disk \in Disks, NEW entry, NEW value,
           \/ entry = "research" /\ value \in Outcomes \cup {"none", "paused"}
           \/ entry = "draft" /\ value = "written"
           \/ entry = "lean" /\ value \in LeanOutcomes \cup {"none"}
    PROVE  Record(entry, value) \in Effects
<1>1. disk.graph \in Entries
  BY FileTypes
<1>2. Recorded(disk.graph, entry, value) \in Entries
  BY <1>1 DEF Recorded, Entries
<1> QED BY <1>2, EffectIs DEF Record

LEMMA Recording ==
    ASSUME NEW c, NEW d \in Disks, Sound(c, d), NEW entry, NEW value, Record(entry, value) \in Effects,
           NEW y, y = Written(d, Record(entry, value))
    PROVE  /\ Leads(c, d, Record(entry, value), y) /\ Sound(c, y) /\ Only(d, y, "graph") /\ y \in Disks
           /\ y.state = d.state /\ Trees(y) = Trees(d)
           /\ y.tree = d.tree /\ y.prompt = d.prompt /\ y.draft = d.draft /\ y.lean = d.lean
           /\ y.consent = d.consent
           /\ \A s \in RunState : Good(c, s, d) => Good(c, s, y)
<1> DEFINE v == Recorded(disk.graph, entry, value)
<1>1. Record(entry, value) = Put("graph", v)
  BY DEF Record
<1> HIDE DEF v
<1>2. Only(d, y, "graph")
  BY <1>1, PutIs DEF Files
<1>3. \A s \in RunState : Good(c, s, d) => Good(c, s, y) /\ Trees(y) = Trees(d)
  BY <1>2, GoodElsewhere
<1>4. d.state \in RunState /\ Good(c, d.state, d) /\ Trees(d) <= c.turn
  BY FileTypes DEF Sound
<1>5. Good(c, d.state, y) /\ Trees(y) = Trees(d)
  BY <1>3, <1>4
<1>6. /\ y \in Disks /\ y.tree = d.tree /\ y.prompt = d.prompt /\ y.draft = d.draft
      /\ y.lean = d.lean /\ y.state = d.state /\ y.consent = d.consent
  BY <1>2 DEF Only, Files
<1>7. Leads(c, d, Record(entry, value), y)
  <2>1. "graph" \in Files \ {"state"} /\ "graph" # "consent"
    BY DEF Files
  <2>2. Good(c, d.state, Written(d, Put("graph", v))) /\ Trees(Written(d, Put("graph", v))) <= c.turn
    BY <1>1, <1>4, <1>5
  <2> QED BY <1>1, <2>1, <2>2, Puts
<1> QED BY <1>2, <1>3, <1>5, <1>6, <1>7 DEF Leads

\* What is known while the research directory is in use.
LEMMA AtResearch ==
    ASSUME IInv, queue = <<>>, pc \in {"research", "researching"}
    PROVE  /\ disk \in Disks /\ mem \in RunState /\ Sound(Now, disk) /\ Good(Now, mem, disk)
           /\ disk.state = mem /\ mem.archive = 0 /\ ~Succ(mem, "report")
           /\ Trees(disk) <= Now.turn /\ turn \in Version /\ turn # 0
           /\ Succ(mem, "prompt") /\ disk.prompt.clear
           /\ disk.tree.exists => disk.tree.live.from = disk.prompt.ver
           /\ pc = "research" => Trees(disk) < Now.turn /\ (Plain => Settled(mem))
           /\ pc = "researching" =>
                 /\ mem.st["research"] = "running" /\ disk.tree.exists
                 /\ Plain => /\ \A x \in Stage : mem.st[x] = "running" => x = "research"
                             /\ mem.st["manuscript"] \in Complete => mem.st["bibliography"] \in Complete
<1>1. /\ disk \in Disks /\ mem \in RunState /\ Sound(Now, disk) /\ Good(Now, mem, disk)
      /\ disk.state = mem /\ mem.archive = 0 /\ ~Succ(mem, "report")
      /\ Trees(disk) <= Now.turn /\ turn \in Version /\ turn # 0
      /\ Stands(Now, pc, mem, disk) /\ (Plain => Smooth(pc, mem, disk, end))
  BY AtStage
<1>2. Succ(mem, "prompt") /\ disk.prompt.clear /\ (pc = "research" => Trees(disk) < Now.turn)
      /\ (pc = "researching" => mem.st["research"] = "running" /\ disk.tree.exists)
  BY <1>1 DEF Stands
<1>3. disk.tree.exists => disk.tree.live.from = disk.prompt.ver
  BY <1>1 DEF Good, Rooted
<1>4. pc = "research" => (Plain => Settled(mem))
  <2>1. "research" \notin Awaits \ {"asking"}
    BY DEF Awaits
  <2> QED BY <1>1, <2>1, SettledAt
<1>5. pc = "researching" =>
         (Plain => /\ \A x \in Stage : mem.st[x] = "running" => x = "research"
                   /\ mem.st["manuscript"] \in Complete => mem.st["bibliography"] \in Complete)
  BY <1>1 DEF Smooth, StageAt
<1> QED BY <1>1, <1>2, <1>3, <1>4, <1>5

LEMMA StartResearchStep ==
    ASSUME IInv, StartResearch
    PROVE  IInv' /\ disk' = disk
<1> DEFINE s == With(mem, "research", "running")
           z == Holding(disk, s)
           w == [NoTree EXCEPT !.from = disk.prompt.ver]
           v == [disk.tree EXCEPT !.exists = TRUE, !.live = w]
           e == Put("tree", v)
           y == Written(z, e)
<1>1. StageAt("research") = "research" /\ StageAt("researching") = "research"
  BY DEF StageAt
<1>2. /\ Begins("research") /\ pc = "research" /\ queue = <<>> /\ Quiet
      /\ Go("researching", s, <<Save(s)>> \o (IF disk.tree.exists THEN <<>> ELSE <<e>>)) /\ disk' = disk
  BY <1>1 DEF StartResearch, Starts, Begins, At, Go
<1>3. /\ disk \in Disks /\ mem \in RunState /\ Sound(Now, disk)
      /\ Trees(disk) < Now.turn /\ Succ(mem, "prompt") /\ disk.prompt.clear
  BY <1>2, AtResearch
<1>4. /\ s \in RunState /\ z \in Disks /\ Good(Now, s, z) /\ Save(s) \in Effects
      /\ <<Save(s)>> \in Seq(Effects) /\ Walk(Now, disk, <<Save(s)>>, z) /\ z.state = s
      /\ Leads(Now, disk, Save(s), z) /\ Only(disk, z, "state") /\ Grows(mem, s)
      /\ Trees(z) = Trees(disk) /\ s.archive = 0 /\ s.st["research"] = "running" /\ ~Succ(s, "report")
      /\ (Plain => Settled(mem))
  <2>1. Ready(mem, disk, "research")
    BY <1>3 DEF Ready, LeanStage
  <2> QED BY <1>1, <1>2, <2>1, Begun
<1>5. Plain => \A d : Smooth("researching", s, d, "none")
  BY <1>1, <1>3, <1>4, SmoothAwait DEF Awaits
<1>6. Succ(s, "prompt") /\ z.prompt = disk.prompt /\ z.tree = disk.tree
  BY <1>3, <1>4, StageFacts DEF Grows, Only, Files
<1>7. "researching" \in Places \ {"off"} /\ pc # "off"
  BY <1>2 DEF Places, Awaits
<1> HIDE DEF s, z
<1>8. CASE disk.tree.exists
  <2>1. Go("researching", s, <<Save(s)>>)
    BY <1>2, <1>4, <1>8, Tuples
  <2>2. Stands(Now, "researching", s, z)
    BY <1>3, <1>4, <1>6, <1>8 DEF Stands, Late
  <2> QED BY <1>2, <1>4, <1>5, <1>7, <2>1, <2>2, Arrives
<1>9. CASE ~disk.tree.exists
  <2>1. v \in TreeFile /\ v.exists /\ v.live.from = z.prompt.ver /\ v.archived = disk.tree.archived
    <3>1. disk.prompt.ver \in Version /\ 0 \in Version /\ disk.tree \in TreeFile
      BY <1>3, FileTypes, WorkflowAssumption DEF PromptFile, Version
    <3>2. /\ w \in [ver : Version, from : Version, outcome : Outcomes \cup {"none"}]
          /\ w.from = disk.prompt.ver
      BY <3>1 DEF NoTree
    <3> HIDE DEF w
    <3> QED BY <1>6, <3>1, <3>2 DEF TreeFile
  <2>2. e \in Effects
    BY <2>1, EffectIs
  <2> HIDE DEF v, w
  <2>3. Only(z, y, "tree") /\ y.tree = v
    <3>1. Only(z, y, "tree") /\ y["tree"] = v
      BY <1>4, <2>2, PutIs DEF Files
    <3> QED BY <3>1 DEF Only
  <2>4. Good(Now, s, y)
    <3>1. TreeMoves(s, z, y)
      BY <1>3, <1>4, <1>6, <2>1, <2>3 DEF TreeMoves, Complete
    <3> QED BY <1>4, <2>3, <3>1, GoodTree
  <2>5. Trees(y) <= Now.turn
    <3>1. Trees(disk) = disk.tree.archived /\ disk.tree.archived \in Nat /\ Now.turn \in Nat
      BY <1>3, <1>9, TreesIs, WorkflowAssumption DEF Now, IInv, Typed
    <3>2. Trees(y) = disk.tree.archived + 1
      BY <2>1, <2>3 DEF Trees
    <3> QED BY <1>3, <3>1, <3>2
  <2>6. Leads(Now, z, e, y) /\ y \in Disks /\ y.state = s
    <3>1. "tree" \in Files \ {"state"} /\ "tree" # "consent"
      BY DEF Files
    <3>2. Good(Now, z.state, y) /\ Trees(y) <= Now.turn
      BY <1>4, <2>4, <2>5
    <3> QED BY <1>4, <2>2, <3>1, <3>2, Puts
  <2> HIDE DEF e, y
  <2>7. <<Save(s), e>> \in Seq(Effects) /\ Walk(Now, disk, <<Save(s), e>>, y)
    BY <1>3, <1>4, <2>6, WalkTwo
  <2>8. Go("researching", s, <<Save(s), e>>)
    <3>1. <<Save(s)>> \o <<e>> = <<Save(s), e>>
      BY <1>4, <2>2, Tuples
    <3> QED BY <1>2, <1>9, <3>1
  <2>9. y.prompt = z.prompt
    BY <2>3 DEF Only, Files
  <2>10. Stands(Now, "researching", s, y)
    BY <1>3, <1>4, <1>6, <2>1, <2>3, <2>4, <2>6, <2>9 DEF Stands, Late
  <2> QED BY <1>2, <1>4, <1>5, <1>7, <2>6, <2>7, <2>8, <2>10, Arrives
<1> QED BY <1>8, <1>9

LEMMA ResearchStep ==
    ASSUME IInv, Research
    PROVE  IInv' /\ disk' = disk
<1> DEFINE r == Succeeded(mem, "research", turn)
           s == [r EXCEPT !.replay = FALSE]
<1>1. PICK outcome \in Outcomes :
          Go("audit", s, <<Researched(outcome), Record("research", outcome), Save(s)>>)
  BY DEF Research
<1> DEFINE v == [disk.tree EXCEPT !.live.ver = turn, !.live.outcome = outcome]
           e == Put("tree", v)
           f == Record("research", outcome)
           x == Written(disk, e)
           y == Written(x, f)
           z == Holding(y, s)
<1>2. pc = "researching" /\ queue = <<>> /\ Quiet /\ disk' = disk /\ e = Researched(outcome)
  BY <1>1 DEF Research, At, Go, Researched
<1>3. /\ disk \in Disks /\ mem \in RunState /\ Sound(Now, disk) /\ Good(Now, mem, disk)
      /\ disk.state = mem /\ mem.archive = 0 /\ ~Succ(mem, "report")
      /\ Trees(disk) <= Now.turn /\ turn \in Version /\ turn # 0
      /\ Succ(mem, "prompt") /\ disk.prompt.clear
      /\ mem.st["research"] = "running" /\ disk.tree.exists
      /\ disk.tree.live.from = disk.prompt.ver
      /\ Plain => /\ \A st \in Stage : mem.st[st] = "running" => st = "research"
                  /\ mem.st["manuscript"] \in Complete => mem.st["bibliography"] \in Complete
  BY <1>2, AtResearch
<1>4. /\ v \in TreeFile /\ v.exists /\ v.live.from = disk.prompt.ver /\ v.live.ver = turn
      /\ v.archived = disk.tree.archived
  BY <1>3 DEF Disks, TreeFile
<1>5. e \in Effects /\ f \in Effects
  BY <1>3, <1>4, EffectIs, RecordIs
<1> HIDE DEF v
<1>6. Only(disk, x, "tree") /\ x.tree = v
  <2>1. Only(disk, x, "tree") /\ x["tree"] = v
    BY <1>3, <1>5, PutIs DEF Files
  <2> QED BY <2>1 DEF Only
<1>7. Good(Now, mem, x)
  <2>1. TreeMoves(mem, disk, x)
    BY <1>3, <1>4, <1>6 DEF TreeMoves, Complete
  <2> QED BY <1>3, <1>6, <2>1, GoodTree
<1>8. Trees(x) = Trees(disk)
  BY <1>3, <1>4, <1>6 DEF Trees
<1>9. Leads(Now, disk, e, x) /\ x.state = mem /\ x \in Disks
  <2>1. "tree" \in Files \ {"state"} /\ "tree" # "consent"
    BY DEF Files
  <2>2. Good(Now, disk.state, x) /\ Trees(x) <= Now.turn
    BY <1>3, <1>7, <1>8
  <2> QED BY <1>3, <1>5, <2>1, <2>2, Puts
<1> HIDE DEF e, x
<1>10. /\ Leads(Now, x, f, y) /\ y \in Disks /\ y.state = mem /\ Trees(y) = Trees(x)
       /\ y.tree = v /\ y.prompt = disk.prompt /\ Good(Now, mem, y)
  <2>1. Sound(Now, x)
    BY <1>9 DEF Leads
  <2>2. x.prompt = disk.prompt
    BY <1>6 DEF Only, Files
  <2> QED BY <1>3, <1>5, <1>6, <1>7, <1>9, <2>1, <2>2, Recording
<1> HIDE DEF f, y
<1>11. r \in RunState /\ Good(Now, r, y) /\ Grows(mem, r)
  <2>1. Made(mem, y, "research", turn)
    BY <1>4, <1>10 DEF Made, Artifact
  <2>2. Ready(mem, y, "research") /\ mem.st["research"] \notin Complete
    BY <1>3, <1>10 DEF Ready, LeanStage, Complete
  <2> QED BY <1>3, <1>10, <2>1, <2>2, Records
<1>12. /\ r.st = [mem.st EXCEPT !["research"] = "succeeded"] /\ mem.st \in [Stage -> Status]
       /\ r.archive = 0
  <2>1. r.st = [mem.st EXCEPT !["research"] = "succeeded"] /\ r.archive = mem.archive
    BY <1>3 DEF Succeeded, RunState
  <2> QED BY <1>3, <2>1 DEF RunState
<1> HIDE DEF r
<1>13. /\ s \in RunState /\ s.st = r.st /\ s.rec = r.rec /\ s.opt = r.opt /\ s.archive = r.archive
       /\ s.consent = r.consent /\ s.intent = r.intent /\ s.gen = r.gen
  BY <1>11 DEF RunState
<1> HIDE DEF s
<1>14. Good(Now, s, y)
  <2>1. Agreed(Now, s, y)
    BY <1>11, <1>13 DEF Good, Agreed
  <2> QED BY <1>10, <1>11, <1>13, <2>1, Aside
<1>15. Keeps(Now, y.state, s)
  <2>1. Grows(mem, s)
    BY <1>11, <1>13 DEF Grows, Succ
  <2> QED BY <1>10, <2>1, GrowsIs
<1>16. /\ Leads(Now, y, Save(s), z) /\ Only(y, z, "state") /\ z \in Disks /\ z.state = s
       /\ Good(Now, s, z)
  <2>1. Trees(y) <= Now.turn
    BY <1>3, <1>8, <1>10
  <2> QED BY <1>10, <1>13, <1>14, <1>15, <2>1, Saves
<1> HIDE DEF z
<1>17. <<e, f, Save(s)>> \in Seq(Effects) /\ Walk(Now, disk, <<e, f, Save(s)>>, z)
  BY <1>3, <1>9, <1>10, <1>16, WalkThree
<1>18. Stands(Now, "audit", s, z)
  <2>1. s.archive = 0 /\ Succ(s, "research") /\ ~Succ(s, "report")
    BY <1>3, <1>12, <1>13, StageFacts DEF Succ
  <2> QED BY <1>16, <2>1 DEF Stands, Late
<1>19. Plain => Smooth("audit", s, z, "none")
  <2>1. \A a \in Stage : s.st[a] = IF a = "research" THEN "succeeded" ELSE mem.st[a]
    BY <1>12, <1>13
  <2> QED BY <1>3, <2>1, StageFacts DEF Smooth
<1>20. Go("audit", s, <<e, f, Save(s)>>)
  BY <1>1, <1>2 DEF s, f
<1>21. "audit" \in Places \ {"off"} /\ pc # "off"
  BY <1>2 DEF Places
<1> QED BY <1>2, <1>13, <1>16, <1>17, <1>18, <1>19, <1>20, <1>21, Arrives

LEMMA PauseResearchStep ==
    ASSUME IInv, PauseResearch
    PROVE  IInv' /\ disk' = disk
<1> DEFINE r == With(mem, "research", "interrupted")
           s == [r EXCEPT !.replay = FALSE]
           f == Record("research", "paused")
           y == Written(disk, f)
           z == Holding(y, s)
<1>1. pc = "researching" /\ queue = <<>> /\ Upset /\ disk' = disk /\ Go("report", s, <<f, Save(s)>>)
  BY DEF PauseResearch, At, Go
<1>2. /\ disk \in Disks /\ mem \in RunState /\ Sound(Now, disk) /\ Good(Now, mem, disk)
      /\ disk.state = mem /\ mem.archive = 0 /\ ~Succ(mem, "report")
      /\ Trees(disk) <= Now.turn /\ Succ(mem, "prompt") /\ disk.prompt.clear
      /\ mem.st["research"] = "running"
  BY <1>1, AtResearch
<1>3. /\ Leads(Now, disk, f, y) /\ y \in Disks /\ y.state = mem /\ Trees(y) = Trees(disk)
      /\ y.prompt = disk.prompt /\ Good(Now, mem, y)
  <2>1. f \in Effects
    BY <1>2, RecordIs
  <2> QED BY <1>2, <2>1, Recording
<1> HIDE DEF f, y
<1>4. r \in RunState /\ Good(Now, r, y) /\ Grows(mem, r)
  <2>1. Ready(mem, y, "research") /\ mem.st["research"] \notin Complete
    BY <1>2, <1>3 DEF Ready, LeanStage, Complete
  <2>2. "research" \in Stage /\ "interrupted" \in Active
    BY StageFacts DEF Active
  <2> QED BY <1>2, <1>3, <2>1, <2>2, Busy
<1>5. r.archive = 0 /\ ~Succ(r, "report")
  <2>1. r.st = [mem.st EXCEPT !["research"] = "interrupted"] /\ r.archive = mem.archive
    BY <1>2 DEF With, RunState
  <2> QED BY <1>2, <2>1, StageFacts DEF RunState, Succ
<1> HIDE DEF r
<1>6. /\ s \in RunState /\ s.st = r.st /\ s.rec = r.rec /\ s.opt = r.opt /\ s.archive = r.archive
      /\ s.consent = r.consent /\ s.intent = r.intent /\ s.gen = r.gen
  BY <1>4 DEF RunState
<1> HIDE DEF s
<1>7. Good(Now, s, y)
  <2>1. Agreed(Now, s, y)
    BY <1>4, <1>6 DEF Good, Agreed
  <2> QED BY <1>3, <1>4, <1>6, <2>1, Aside
<1>8. Keeps(Now, y.state, s)
  <2>1. Grows(mem, s)
    BY <1>4, <1>6 DEF Grows, Succ
  <2> QED BY <1>3, <2>1, GrowsIs
<1>9. /\ Leads(Now, y, Save(s), z) /\ z \in Disks /\ z.state = s /\ Good(Now, s, z)
  <2>1. Trees(y) <= Now.turn
    BY <1>2, <1>3
  <2> QED BY <1>3, <1>6, <1>7, <1>8, <2>1, Saves
<1> HIDE DEF z
<1>10. <<f, Save(s)>> \in Seq(Effects) /\ Walk(Now, disk, <<f, Save(s)>>, z)
  BY <1>2, <1>3, <1>9, WalkTwo
<1>11. Stands(Now, "report", s, z)
  BY <1>5, <1>6, <1>9, StandsReport DEF Succ
<1>12. "report" \in Places \ {"off"} /\ pc # "off"
  BY <1>1 DEF Places
<1> QED BY <1>1, <1>6, <1>9, <1>10, <1>11, <1>12, Arrives

LEMMA KeepResearchStep ==
    ASSUME IInv, KeepResearch
    PROVE  IInv' /\ disk' = disk
<1> DEFINE f == Record("research", disk.tree.live.outcome)
           y == Written(disk, f)
<1>1. /\ pc = "research" /\ queue = <<>> /\ mem.st["research"] \in Complete /\ Quiet /\ disk' = disk
      /\ Go("audit", mem, <<f>>)
  BY DEF KeepResearch, Kept, At, StageAt, Go
<1>2. /\ disk \in Disks /\ mem \in RunState /\ Sound(Now, disk) /\ Good(Now, mem, disk)
      /\ disk.state = mem /\ mem.archive = 0 /\ ~Succ(mem, "report")
      /\ Succ(mem, "prompt") /\ disk.prompt.clear /\ (Plain => Settled(mem))
  BY <1>1, AtResearch
<1>3. Succ(mem, "research")
  BY <1>1, <1>2 DEF Good, Ordered, Succ, Complete
<1>4. Leads(Now, disk, f, y) /\ y \in Disks /\ y.state = mem /\ Good(Now, mem, y)
  <2>1. disk.tree.live.outcome \in Outcomes \cup {"none", "paused"}
    BY <1>2 DEF Disks, TreeFile
  <2>2. f \in Effects
    BY <1>2, <2>1, RecordIs
  <2> QED BY <1>2, <2>2, Recording
<1> HIDE DEF f, y
<1>5. <<f>> \in Seq(Effects) /\ Walk(Now, disk, <<f>>, y)
  BY <1>2, <1>4, WalkOne
<1>6. Stands(Now, "audit", mem, y)
  BY <1>2, <1>3, <1>4 DEF Stands, Late
<1>7. Plain => Smooth("audit", mem, y, "none")
  BY <1>2 DEF Smooth, Settled
<1>8. "audit" \in Places \ {"off"} /\ pc # "off"
  BY <1>1 DEF Places
<1> QED BY <1>1, <1>2, <1>4, <1>5, <1>6, <1>7, <1>8, Arrives

\* _finalize_research_audit: the audit is settled, unless it was left running.
LEMMA AuditedIs ==
    ASSUME NEW c, NEW s \in RunState, Good(c, s, disk), disk \in Disks, s.archive = 0,
           ~Succ(s, "report"), Succ(s, "research"),
           ~(s.st["audit"] = "running" /\ disk.tree.live.outcome # "partial"),
           NEW t, t = Audited(s)
    PROVE  /\ t \in RunState /\ Good(c, t, disk) /\ Grows(s, t) /\ t.archive = 0
           /\ t.opt = s.opt /\ t.st["audit"] \in Complete
           /\ \A x \in Stage : x # "audit" => t.st[x] = s.st[x]
           /\ disk.tree.live.outcome # "partial" => Succ(t, "audit")
<1>1. s.st["audit"] \in Status /\ "audit" \in Stage
  BY StageFacts DEF RunState
<1>2. CASE disk.tree.live.outcome = "partial"
  <2>1. t = SkipPending(s, {"audit"})
    BY <1>2 DEF Audited
  <2>2. Skippable(s, disk, {"audit"})
    BY <1>2 DEF Skippable
  <2>3. t \in RunState /\ Good(c, t, disk) /\ Grows(s, t)
    BY <2>1, <2>2, Skips
  <2>4. t.archive = 0 /\ t.opt = s.opt
    BY <1>1, <2>1, OtherFields
  <2>5. \A x \in Stage : t.st[x] = IF x \in {"audit"} /\ s.st[x] = "pending" THEN "skipped" ELSE s.st[x]
    BY <2>1, SkipPendingIs
  <2>6. s.st["audit"] \in {"pending", "skipped"}
    BY <1>2 DEF Good, Ordered, Succ
  <2> QED BY <1>1, <1>2, <2>3, <2>4, <2>5, <2>6 DEF Complete
<1>3. CASE disk.tree.live.outcome # "partial" /\ s.st["audit"] \in Startable
  <2>1. t = With(s, "audit", "succeeded")
    BY <1>3 DEF Audited
  <2>2. Ready(s, disk, "audit") /\ "audit" \in AfterResearch \ {"manuscript", "feasibility"}
    BY <1>3 DEF Ready, LeanStage, AfterResearch
  <2>3. t \in RunState /\ Good(c, t, disk) /\ Grows(s, t)
    BY <2>1, <2>2, Passes
  <2>4. t.archive = 0 /\ t.opt = s.opt
    BY <1>1, <2>1, OtherFields
  <2>5. t.st = [s.st EXCEPT !["audit"] = "succeeded"] /\ s.st \in [Stage -> Status]
    BY <2>1 DEF With, RunState
  <2> QED BY <1>1, <2>3, <2>4, <2>5 DEF Complete, Succ
<1>4. CASE disk.tree.live.outcome # "partial" /\ s.st["audit"] \notin Startable
  <2>1. t = s
    BY <1>4 DEF Audited
  <2>2. s.st["audit"] \in Complete
    BY <1>1, <1>4, StageFacts DEF Complete
  <2>3. Succ(s, "audit")
    BY <1>4, <2>2 DEF Good, Ordered, Succ, Complete
  <2> QED BY <2>1, <2>2, <2>3 DEF Grows
<1> QED BY <1>2, <1>3, <1>4

LEMMA FinishAuditStep ==
    ASSUME IInv, FinishAudit
    PROVE  IInv' /\ disk' = disk
<1> DEFINE s == Audited(mem)
           r == With(mem, "audit", "running")
           goes == disk.tree.live.outcome = "accepted" /\ mem.opt # "research_only"
           began == disk.tree.live.outcome # "partial" /\ mem.st["audit"] \in Startable
           t == IF goes THEN s ELSE SkipPending(s, AllButResearch)
           place == IF goes THEN "manuscript" ELSE "report"
           q == (IF began THEN <<Save(r)>> ELSE <<>>) \o <<Save(s), Save(t)>>
<1>1. /\ pc = "audit" /\ queue = <<>> /\ Onwards(place, t, q)
      /\ ~(mem.st["audit"] = "running" /\ disk.tree.live.outcome # "partial")
  BY DEF FinishAudit, At, Skipping
<1>2. /\ disk \in Disks /\ mem \in RunState /\ Sound(Now, disk) /\ Good(Now, mem, disk)
      /\ disk.state = mem /\ mem.archive = 0 /\ ~Succ(mem, "report")
      /\ Stands(Now, pc, mem, disk) /\ (Plain => Smooth(pc, mem, disk, end))
  BY <1>1, AtStage
<1>3. Succ(mem, "research")
  BY <1>1, <1>2 DEF Stands
<1>4. Plain => Settled(mem)
  <2>1. "audit" \notin Awaits \ {"asking"}
    BY DEF Awaits
  <2> QED BY <1>1, <1>2, <2>1, SettledAt
<1>5. /\ s \in RunState /\ Good(Now, s, disk) /\ Grows(mem, s) /\ s.archive = 0
      /\ s.opt = mem.opt /\ s.st["audit"] \in Complete
      /\ \A x \in Stage : x # "audit" => s.st[x] = mem.st[x]
      /\ disk.tree.live.outcome # "partial" => Succ(s, "audit")
  BY <1>1, <1>2, <1>3, AuditedIs
<1> HIDE DEF s
<1>6. Succ(s, "research") /\ ~Succ(s, "report") /\ (goes <=> Goes(s, disk))
  BY <1>2, <1>3, <1>5, StageFacts DEF Succ, Goes
<1>7. Plain => Settled(s)
  <2>1. s.st["audit"] # "running" /\ s.st["manuscript"] = mem.st["manuscript"]
        /\ s.st["bibliography"] = mem.st["bibliography"]
    BY <1>5, StageFacts DEF Complete
  <2>2. \A x \in Stage : s.st[x] = "running" => mem.st[x] = "running"
    BY <1>5, <2>1
  <2> QED BY <1>4, <2>1, <2>2, SettledOn
<1>8. /\ t \in RunState /\ Good(Now, t, disk) /\ Grows(s, t) /\ t.archive = 0 /\ t.opt = s.opt
      /\ t.st["report"] = s.st["report"]
      /\ ~goes => Unfinished(t.st) \subseteq {"report"}
  <2>1. CASE goes
    BY <1>5, <2>1 DEF Grows
  <2>2. CASE ~goes
    <3>1. t = SkipPending(s, AllButResearch)
      BY <2>2
    <3>2. Skippable(s, disk, AllButResearch)
      BY <1>5, <1>6, <2>2 DEF Skippable
    <3> HIDE DEF goes, t
    <3>3. t \in RunState /\ Good(Now, t, disk) /\ Grows(s, t)
      BY <1>2, <1>5, <1>6, <3>1, <3>2, Skips
    <3>4. Unfinished(t.st) \subseteq {"report"} /\ t.st["report"] = s.st["report"]
      <4>1. Ordered(s, disk) /\ ~Goes(s, disk)
        BY <1>5, <1>6, <2>2 DEF Good
      <4> QED BY <1>2, <1>5, <1>6, <3>1, <4>1, OverWithResearch
    <3>5. t.archive = 0 /\ t.opt = s.opt
      BY <1>5, <3>1, OtherFields, StageFacts
    <3> QED BY <3>3, <3>4, <3>5
  <2> QED BY <2>1, <2>2
<1>9. t.st["report"] = s.st["report"] /\ ~Succ(t, "report") /\ Succ(t, "research")
  BY <1>6, <1>8, StageFacts DEF Succ, Grows
<1> HIDE DEF t
<1>10. /\ q \in Seq(Effects)
       /\ \E z \in Disks : /\ Walk(Now, disk, q, z) /\ Only(disk, z, "state")
                           /\ Good(Now, t, z) /\ z.state = t
  <2>1. CASE ~began
    <3>1. Keeps(Now, disk.state, s)
      BY <1>2, <1>5, GrowsIs
    <3>2. /\ <<Save(s), Save(t)>> \in Seq(Effects)
          /\ \E z \in Disks : /\ Walk(Now, disk, <<Save(s), Save(t)>>, z) /\ Only(disk, z, "state")
                              /\ Good(Now, t, z) /\ z.state = t
      BY <1>2, <1>5, <1>8, <3>1, SaveTwo
    <3>3. q = <<Save(s), Save(t)>>
      <4>1. <<>> \o <<Save(s), Save(t)>> = <<Save(s), Save(t)>>
        BY <3>2, ConcatEmptySeq
      <4> QED BY <2>1, <4>1
    <3> HIDE DEF q
    <3> QED BY <3>2, <3>3
  <2>2. CASE began
    <3> DEFINE y == Holding(disk, r)
    <3>1. r \in RunState /\ Good(Now, r, disk) /\ Grows(mem, r)
      <4>1. Ready(mem, disk, "audit")
        BY <1>3, <2>2 DEF Ready, LeanStage
      <4>2. "audit" \in Stage /\ "running" \in Active /\ mem.st["audit"] \notin Complete
        BY <2>2, StageFacts DEF Active, Complete
      <4> QED BY <1>2, <4>1, <4>2, Busy
    <3>2. r.st = [mem.st EXCEPT !["audit"] = "running"] /\ mem.st \in [Stage -> Status]
      BY <1>2 DEF With, RunState
    <3>3. Grows(r, s)
      <4>1. \A x \in Stage : r.st[x] = IF x = "audit" THEN "running" ELSE mem.st[x]
        BY <3>2
      <4>2. \A x \in Stage : Succ(r, x) => Succ(mem, x)
        BY <4>1 DEF Succ
      <4> QED BY <1>5, <4>2 DEF Grows
    <3> HIDE DEF r
    <3>4. Keeps(Now, disk.state, r) /\ Trees(disk) <= Now.turn
      BY <1>2, <3>1, GrowsIs DEF Sound
    <3>5. /\ Leads(Now, disk, Save(r), y) /\ Only(disk, y, "state") /\ y \in Disks /\ y.state = r
      BY <1>2, <3>1, <3>4, Saves
    <3> HIDE DEF y
    <3>6. Good(Now, s, y) /\ Good(Now, t, y)
      BY <1>2, <1>5, <1>8, <3>5, GoodElsewhere
    <3>7. /\ <<Save(s), Save(t)>> \in Seq(Effects)
          /\ \E z \in Disks : /\ Walk(Now, y, <<Save(s), Save(t)>>, z) /\ Only(y, z, "state")
                              /\ Good(Now, t, z) /\ z.state = t
      <4>1. Sound(Now, y) /\ Keeps(Now, y.state, s)
        BY <3>3, <3>5, GrowsIs DEF Leads
      <4> QED BY <1>5, <1>8, <3>5, <3>6, <4>1, SaveTwo
    <3>8. PICK z \in Disks : /\ Walk(Now, y, <<Save(s), Save(t)>>, z) /\ Only(y, z, "state")
                             /\ Good(Now, t, z) /\ z.state = t
      BY <3>7
    <3>9. q = <<Save(r)>> \o <<Save(s), Save(t)>>
      BY <2>2
    <3> HIDE DEF q
    <3>10. q \in Seq(Effects) /\ Walk(Now, disk, q, z)
      BY <1>2, <3>5, <3>7, <3>8, <3>9, WalkCons DEF Leads
    <3>11. Only(disk, z, "state")
      BY <3>5, <3>8, OnlyTwice
    <3> QED BY <3>8, <3>10, <3>11
  <2> QED BY <2>1, <2>2
<1>11. PICK z \in Disks : /\ Walk(Now, disk, q, z) /\ Only(disk, z, "state")
                          /\ Good(Now, t, z) /\ z.state = t
  BY <1>10
<1>12. z.tree = disk.tree
  BY <1>11 DEF Only, Files
<1>13. disk' = disk
  BY <1>1 DEF Onwards, Go
<1> HIDE DEF q
<1>14. CASE goes
  <2>1. Succ(t, "audit") /\ Goes(t, z)
    <3>1. disk.tree.live.outcome # "partial"
      BY <1>14
    <3> QED BY <1>5, <1>6, <1>8, <1>12, <1>14, <3>1, StageFacts DEF Grows, Goes
  <2>2. Stands(Now, "manuscript", t, z)
    BY <1>8, <1>9, <1>11, <2>1 DEF Stands, Late
  <2>3. Plain => Smooth("manuscript", t, z, "none")
    BY <1>7, <1>14 DEF Smooth, Settled, t
  <2>4. Onwards("manuscript", t, q)
    BY <1>1, <1>14
  <2> QED BY <1>1, <1>8, <1>10, <1>11, <2>2, <2>3, <2>4, OnwardsArrives
<1>15. CASE ~goes
  <2>1. Stands(Now, "report", t, z)
    BY <1>8, <1>9, <1>11, StandsReport
  <2>2. Plain => Smooth("report", t, z, "none")
    <3>1. Plain => t.st["report"] # "running"
      BY <1>7, <1>9, StageFacts DEF Settled
    <3>2. Unfinished(t.st) \subseteq {"report"}
      BY <1>8, <1>15
    <3> HIDE DEF goes
    <3> QED BY <3>1, <3>2, SmoothOver
  <2>3. Onwards("report", t, q)
    BY <1>1, <1>15
  <2> QED BY <1>1, <1>8, <1>10, <1>11, <2>1, <2>2, <2>3, OnwardsArrives
<1> QED BY <1>14, <1>15

(* ---- the manuscript ----------------------------------------------------------- *)
\* Where a draft leads, whatever was written beside it.
LEMMA AfterDraftIs ==
    ASSUME NEW c, NEW s \in RunState, NEW d \in Disks, Good(c, s, d), s.archive = 0,
           ~Succ(s, "report"), Succ(s, "manuscript"),
           NEW t, t = AfterDraft(s, d.draft.good), NEW place, place = AskNext(s, d.draft.good)
    PROVE  /\ t \in RunState /\ Good(c, t, d) /\ Grows(s, t) /\ place \in {"consent", "report"}
           /\ \A z \in Disks : Good(c, t, z) /\ z.state = t /\ z.draft = d.draft =>
                 /\ Stands(c, place, t, z)
                 /\ Settled(s) => Smooth(place, t, z, "none")
<1>1. /\ t \in RunState /\ Good(c, t, d) /\ Grows(s, t) /\ t.archive = 0 /\ t.opt = s.opt
      /\ t.st["report"] = s.st["report"] /\ t.st["manuscript"] = s.st["manuscript"]
      /\ t.st["bibliography"] = s.st["bibliography"]
      /\ \A x \in Stage : t.st[x] = "running" => s.st[x] = "running"
  <2>1. CASE d.draft.good /\ s.opt = "full"
    <3>1. t = s
      BY <2>1 DEF AfterDraft
    <3> QED BY <3>1 DEF Grows
  <2>2. CASE ~(d.draft.good /\ s.opt = "full")
    <3>1. t = SkipPending(s, LeanStage)
      BY <2>2 DEF AfterDraft, Skipping
    <3>2. Skippable(s, d, LeanStage)
      BY <2>2 DEF Skippable
    <3>3. t \in RunState /\ Good(c, t, d) /\ Grows(s, t)
      BY <3>1, <3>2, Skips
    <3>4. t.archive = 0 /\ t.opt = s.opt
      BY <3>1, OtherFields, StageFacts
    <3>5. \A x \in Stage : t.st[x] = IF x \in LeanStage /\ s.st[x] = "pending" THEN "skipped" ELSE s.st[x]
      BY <3>1, SkipPendingIs
    <3> QED BY <3>3, <3>4, <3>5, StageFacts DEF LeanStage
  <2> QED BY <2>1, <2>2
<1>2. place = IF d.draft.good /\ s.opt = "full" THEN "consent" ELSE "report"
  BY DEF AskNext
<1>3. ~Succ(t, "report") /\ Succ(t, "manuscript") /\ (Settled(s) => Settled(t))
  BY <1>1, SettledOn DEF Succ
<1>4. ASSUME NEW z \in Disks, Good(c, t, z), z.state = t, z.draft = d.draft
      PROVE  Stands(c, place, t, z) /\ (Settled(s) => Smooth(place, t, z, "none"))
  <2>1. CASE place = "consent"
    <3>1. z.draft.good /\ t.opt = "full"
      BY <1>1, <1>2, <1>4, <2>1
    <3>2. Succ(t, "audit") /\ Goes(t, z) /\ Succ(t, "research")
      BY <1>3, <1>4 DEF Good, Ordered, Succ, AfterResearch, Complete
    <3>3. Stands(c, "consent", t, z)
      BY <1>1, <1>3, <1>4, <3>1, <3>2 DEF Stands, Late
    <3>4. Settled(s) => Smooth("consent", t, z, "none")
      BY <1>3 DEF Smooth, Settled
    <3> QED BY <2>1, <3>3, <3>4
  <2>2. CASE place = "report"
    <3>1. Stands(c, "report", t, z)
      BY <1>1, <1>3, <1>4, StandsReport
    <3>2. ASSUME Settled(s) PROVE Smooth("report", t, z, "none")
      <4>1. Settled(t) /\ t.st["bibliography"] \in Complete
        BY <1>3, <3>2 DEF Settled, Succ, Complete
      <4>2. Unfinished(t.st) \subseteq LeanStage \cup {"report"}
        BY <1>1, <1>3, <1>4, <4>1, LeftAfterDraft DEF Good
      <4> QED BY <4>1, <4>2, SmoothReport
    <3> QED BY <2>2, <3>1, <3>2
  <2> QED BY <1>2, <2>1, <2>2
<1> QED BY <1>1, <1>2, <1>4

LEMMA StartManuscriptStep ==
    ASSUME IInv, StartManuscript
    PROVE  IInv' /\ disk' = disk
<1> DEFINE s == With(mem, "manuscript", "running")
           z == Holding(disk, s)
<1>1. StageAt("manuscript") = "manuscript" /\ StageAt("writing") = "manuscript"
  BY DEF StageAt
<1>2. /\ Begins("manuscript") /\ pc = "manuscript" /\ queue = <<>> /\ Quiet
      /\ Go("writing", s, <<Save(s)>> \o <<>>) /\ disk' = disk
  BY <1>1 DEF StartManuscript, Starts, Begins, At, Go
<1>3. Ready(mem, disk, "manuscript") /\ mem \in RunState
  <2>1. Stands(Now, "manuscript", mem, disk) /\ mem \in RunState
    BY <1>2, AtStage
  <2> QED BY <2>1 DEF Stands, Ready, LeanStage
<1>4. /\ s \in RunState /\ z \in Disks /\ Good(Now, s, z) /\ Save(s) \in Effects
      /\ <<Save(s)>> \in Seq(Effects) /\ Walk(Now, disk, <<Save(s)>>, z) /\ z.state = s
      /\ s.archive = 0 /\ s.st["manuscript"] = "running" /\ ~Succ(s, "report")
      /\ (Plain => Settled(mem))
  BY <1>1, <1>2, <1>3, Begun
<1> HIDE DEF z
<1>5. Plain => Smooth("writing", s, z, "none")
  BY <1>1, <1>3, <1>4, SmoothAwait DEF Awaits
<1> HIDE DEF s
<1>6. Stands(Now, "writing", s, z)
  BY <1>4 DEF Stands, Late
<1>7. "writing" \in Places \ {"off"} /\ pc # "off" /\ <<Save(s)>> \o <<>> = <<Save(s)>>
  BY <1>2, <1>4, Tuples DEF Places, Awaits
<1> QED BY <1>2, <1>4, <1>5, <1>6, <1>7, Arrives

LEMMA KeepManuscriptStep ==
    ASSUME IInv, KeepManuscript
    PROVE  IInv' /\ disk' = disk
<1> DEFINE s == AfterDraft(mem, disk.draft.good)
           place == AskNext(mem, disk.draft.good)
           f == Record("draft", "written")
           y == Written(disk, f)
<1>1. /\ pc = "manuscript" /\ queue = <<>> /\ mem.st["manuscript"] \in Complete /\ Quiet
      /\ Go(place, s, <<f, Save(mem), Save(s)>>) /\ disk' = disk
  BY DEF KeepManuscript, Kept, At, StageAt, Go
<1>2. /\ disk \in Disks /\ mem \in RunState /\ Sound(Now, disk) /\ Good(Now, mem, disk)
      /\ disk.state = mem /\ mem.archive = 0 /\ ~Succ(mem, "report")
      /\ Stands(Now, pc, mem, disk) /\ (Plain => Smooth(pc, mem, disk, end))
  BY <1>1, AtStage
<1>3. Succ(mem, "manuscript")
  BY <1>1, <1>2 DEF Stands, Good, Ordered, Succ, Complete
<1>4. Plain => Settled(mem)
  <2>1. "manuscript" \notin Awaits \ {"asking"}
    BY DEF Awaits
  <2> QED BY <1>1, <1>2, <2>1, SettledAt
<1>5. /\ Leads(Now, disk, f, y) /\ y \in Disks /\ y.state = mem /\ y.draft = disk.draft
      /\ Good(Now, mem, y)
  <2>1. f \in Effects
    BY <1>2, RecordIs
  <2> QED BY <1>2, <2>1, Recording
<1> HIDE DEF f, y
<1>6. s = AfterDraft(mem, y.draft.good) /\ place = AskNext(mem, y.draft.good)
  BY <1>5
<1> HIDE DEF s, place
<1>7. /\ s \in RunState /\ Good(Now, s, y) /\ Grows(mem, s) /\ place \in {"consent", "report"}
      /\ \A z \in Disks : Good(Now, s, z) /\ z.state = s /\ z.draft = y.draft =>
            Stands(Now, place, s, z) /\ (Settled(mem) => Smooth(place, s, z, "none"))
  BY <1>2, <1>3, <1>5, <1>6, AfterDraftIs
<1>8. Keeps(Now, disk.state, mem)
  BY <1>2, KeepsSame
<1>9. /\ <<f, Save(mem), Save(s)>> \in Seq(Effects)
      /\ \E z \in Disks : /\ Walk(Now, disk, <<f, Save(mem), Save(s)>>, z) /\ Only(y, z, "state")
                          /\ Good(Now, s, z) /\ z.state = s
  BY <1>2, <1>5, <1>7, <1>8, PutSaveTwo DEF Leads
<1>10. PICK z \in Disks : /\ Walk(Now, disk, <<f, Save(mem), Save(s)>>, z) /\ Only(y, z, "state")
                          /\ Good(Now, s, z) /\ z.state = s
  BY <1>9
<1>11. z.draft = y.draft
  BY <1>10 DEF Only, Files
<1>12. Stands(Now, place, s, z) /\ (Plain => Smooth(place, s, z, "none"))
  BY <1>4, <1>7, <1>10, <1>11
<1>13. place \in Places \ {"off"} /\ pc # "off"
  BY <1>1, <1>7 DEF Places
<1> QED BY <1>1, <1>7, <1>9, <1>10, <1>12, <1>13, Arrives

LEMMA FiveEffects ==
    ASSUME NEW e \in Effects, NEW f \in Effects, NEW g \in Effects, NEW h \in Effects, NEW i \in Effects
    PROVE  <<e, f, g>> \o <<h, i>> = <<e, f, g, h, i>>
<1>1. /\ <<e, f, g>> \in Seq(Effects) /\ <<h, i>> \in Seq(Effects)
      /\ <<e, f, g, h, i>> \in Seq(Effects)
  OBVIOUS
<1>2. \A n \in 1..5 : (<<e, f, g>> \o <<h, i>>)[n] = <<e, f, g, h, i>>[n]
  BY <1>1, ConcatProperties
<1>3. /\ <<e, f, g>> \o <<h, i>> \in Seq(Effects) /\ Len(<<e, f, g>> \o <<h, i>>) = 5
      /\ Len(<<e, f, g, h, i>>) = 5
  BY <1>1, ConcatProperties
<1> QED BY <1>1, <1>2, <1>3, SeqEqual

LEMMA WriteManuscriptStep ==
    ASSUME IInv, WriteManuscript
    PROVE  IInv' /\ disk' = disk
<1>1. PICK good \in BOOLEAN :
          LET s == Succeeded(mem, "manuscript", turn)
              t == [With(s, "bibliography", "succeeded") EXCEPT !.correct = FALSE]
              u == AfterDraft(t, good)
          IN Onwards(AskNext(t, good), u,
                     <<Put("draft", [ver |-> turn, from |-> disk.tree.live.ver, good |-> good]),
                       Record("draft", "written"), Save(With(s, "bibliography", "running")),
                       Save(t), Save(u)>>)
  BY DEF WriteManuscript
<1> DEFINE s == Succeeded(mem, "manuscript", turn)
           b == With(s, "bibliography", "running")
           r == With(s, "bibliography", "succeeded")
           t == [r EXCEPT !.correct = FALSE]
           u == AfterDraft(t, good)
           place == AskNext(t, good)
           v == [ver |-> turn, from |-> disk.tree.live.ver, good |-> good]
           e == Put("draft", v)
           f == Record("draft", "written")
           d1 == Written(disk, e)
           d2 == Written(d1, f)
           d3 == Holding(d2, b)
<1>2. /\ pc = "writing" /\ queue = <<>> /\ Onwards(place, u, <<e, f, Save(b), Save(t), Save(u)>>)
  BY <1>1 DEF WriteManuscript, At
<1>3. /\ disk \in Disks /\ mem \in RunState /\ Sound(Now, disk) /\ Good(Now, mem, disk)
      /\ disk.state = mem /\ mem.archive = 0 /\ ~Succ(mem, "report")
      /\ Trees(disk) <= Now.turn /\ turn \in Version /\ turn # 0
      /\ mem.st["manuscript"] = "running"
      /\ Plain => \A x \in Stage : mem.st[x] = "running" => x = "manuscript"
  <2>1. /\ disk \in Disks /\ mem \in RunState /\ Sound(Now, disk) /\ Good(Now, mem, disk)
        /\ disk.state = mem /\ mem.archive = 0 /\ ~Succ(mem, "report")
        /\ Trees(disk) <= Now.turn /\ turn \in Version /\ turn # 0
        /\ Stands(Now, pc, mem, disk) /\ (Plain => Smooth(pc, mem, disk, end))
    BY <1>2, AtStage
  <2>2. mem.st["manuscript"] = "running"
    BY <1>2, <2>1 DEF Stands
  <2>3. Plain => \A x \in Stage : mem.st[x] = "running" => x = "manuscript"
    BY <1>2, <2>1 DEF Smooth, StageAt
  <2> QED BY <2>1, <2>2, <2>3
<1>4. Ready(mem, disk, "manuscript")
  BY <1>3, Rests, StageFacts DEF Good
<1>5. v \in DraftFile /\ v.ver = turn /\ v.from = disk.tree.live.ver /\ v.good = good
  BY <1>3, FileTypes DEF DraftFile, TreeFile
<1>6. e \in Effects /\ f \in Effects
  BY <1>3, <1>5, EffectIs, RecordIs
<1> HIDE DEF v
<1>7. Only(disk, d1, "draft") /\ d1.draft = v
  <2>1. Only(disk, d1, "draft") /\ d1["draft"] = v
    BY <1>3, <1>6, PutIs DEF Files
  <2> QED BY <2>1 DEF Only
<1>8. Good(Now, mem, d1) /\ Trees(d1) = Trees(disk)
  BY <1>3, <1>7, GoodDraft DEF Succ
<1>9. Leads(Now, disk, e, d1) /\ d1.state = mem /\ d1 \in Disks
  <2>1. "draft" \in Files \ {"state"} /\ "draft" # "consent"
    BY DEF Files
  <2>2. Good(Now, disk.state, d1) /\ Trees(d1) <= Now.turn
    BY <1>3, <1>8
  <2> QED BY <1>3, <1>6, <2>1, <2>2, Puts
<1>10. d1.tree = disk.tree
  BY <1>7 DEF Only, Files
<1> HIDE DEF e, d1
<1>11. /\ Leads(Now, d1, f, d2) /\ d2 \in Disks /\ d2.state = mem /\ Trees(d2) = Trees(disk)
       /\ d2.tree = disk.tree /\ d2.draft = v /\ Good(Now, mem, d2)
  <2>1. Sound(Now, d1)
    BY <1>9 DEF Leads
  <2> QED BY <1>3, <1>6, <1>7, <1>8, <1>9, <1>10, <2>1, Recording
<1> HIDE DEF f, d2
<1>12. s \in RunState /\ Good(Now, s, d2) /\ Grows(mem, s)
  <2>1. Made(mem, d2, "manuscript", turn)
    BY <1>5, <1>11 DEF Made, Artifact
  <2>2. Ready(mem, d2, "manuscript") /\ mem.st["manuscript"] \notin Complete
    BY <1>3, <1>4, <1>11 DEF Ready, Goes, Complete
  <2> QED BY <1>3, <1>11, <2>1, <2>2, Records
<1>13. /\ s.st = [mem.st EXCEPT !["manuscript"] = "succeeded"] /\ s.archive = 0
       /\ mem.st \in [Stage -> Status]
  <2>1. s.st = [mem.st EXCEPT !["manuscript"] = "succeeded"] /\ s.archive = mem.archive
    BY <1>3 DEF Succeeded, RunState
  <2> QED BY <1>3, <2>1 DEF RunState
<1> HIDE DEF s
<1>14. /\ Succ(s, "manuscript") /\ ~Succ(s, "report") /\ s.st["bibliography"] \notin Complete
       /\ Ready(s, d2, "bibliography") /\ "bibliography" \in Stage /\ s.st \in [Stage -> Status]
  <2>1. mem.st["bibliography"] = "pending"
    BY <1>3 DEF Good, Ordered, Complete, AfterManuscript
  <2>2. Succ(s, "manuscript") /\ ~Succ(s, "report") /\ s.st["bibliography"] \notin Complete
    BY <1>3, <1>13, <2>1, StageFacts DEF Succ, Complete
  <2> QED BY <1>12, <2>2, StageFacts DEF Ready, LeanStage, RunState
<1>15. b \in RunState /\ Good(Now, b, d2) /\ Grows(s, b)
  <2>1. "running" \in Active
    BY DEF Active
  <2> QED BY <1>11, <1>12, <1>13, <1>14, <2>1, Busy
<1>16. r \in RunState /\ Good(Now, r, d2) /\ Grows(s, r)
  <2>1. "bibliography" \in AfterResearch \ {"manuscript", "feasibility"}
    BY DEF AfterResearch, AfterAudit, AfterManuscript
  <2> QED BY <1>11, <1>12, <1>13, <1>14, <2>1, Passes
<1>17. /\ b.st = [s.st EXCEPT !["bibliography"] = "running"]
       /\ r.st = [s.st EXCEPT !["bibliography"] = "succeeded"] /\ r.archive = 0
  <2>1. r.archive = s.archive
    BY <1>12 DEF With, RunState
  <2> QED BY <1>12, <1>13, <2>1 DEF With, RunState
<1> HIDE DEF b, r
<1>18. /\ t \in RunState /\ t.st = r.st /\ t.rec = r.rec /\ t.opt = r.opt /\ t.archive = r.archive
       /\ t.consent = r.consent /\ t.intent = r.intent /\ t.gen = r.gen
  BY <1>16 DEF RunState
<1> HIDE DEF t
<1>19. Good(Now, t, d2)
  <2>1. Agreed(Now, t, d2)
    BY <1>16, <1>18 DEF Good, Agreed
  <2> QED BY <1>11, <1>16, <1>18, <2>1, Aside
<1>20. Grows(b, t)
  <2>1. \A x \in Stage : b.st[x] = "succeeded" => t.st[x] = "succeeded"
    BY <1>14, <1>17, <1>18
  <2> QED BY <2>1 DEF Grows, Succ
<1>21. ~Succ(t, "report") /\ Succ(t, "manuscript") /\ t.archive = 0
  BY <1>14, <1>17, <1>18, StageFacts DEF Succ
<1>22. Plain => Settled(t)
  <2>1. \A x \in Stage : t.st[x] = IF x \in {"manuscript", "bibliography"} THEN "succeeded" ELSE mem.st[x]
    BY <1>13, <1>14, <1>17, <1>18
  <2> QED BY <1>3, <2>1, StageFacts DEF Settled, Complete
<1>23. u = AfterDraft(t, d2.draft.good) /\ place = AskNext(t, d2.draft.good)
  BY <1>5, <1>11
<1> HIDE DEF u, place
<1>24. /\ u \in RunState /\ Good(Now, u, d2) /\ Grows(t, u) /\ place \in {"consent", "report"}
       /\ \A z \in Disks : Good(Now, u, z) /\ z.state = u /\ z.draft = d2.draft =>
             Stands(Now, place, u, z) /\ (Settled(t) => Smooth(place, u, z, "none"))
  BY <1>11, <1>18, <1>19, <1>21, <1>23, AfterDraftIs
<1>25. /\ Leads(Now, d2, Save(b), d3) /\ Only(d2, d3, "state") /\ d3 \in Disks /\ d3.state = b
       /\ Sound(Now, d3)
  <2>1. Keeps(Now, d2.state, b)
    BY <1>11, <1>12, <1>15, GrowsIs
  <2>2. Trees(d2) <= Now.turn
    BY <1>3, <1>11
  <2> QED BY <1>11, <1>15, <2>1, <2>2, Saves DEF Leads
<1> HIDE DEF d3
<1>26. Good(Now, t, d3) /\ Good(Now, u, d3)
  BY <1>11, <1>18, <1>19, <1>24, <1>25, GoodElsewhere
<1>27. /\ <<Save(t), Save(u)>> \in Seq(Effects)
       /\ \E z \in Disks : /\ Walk(Now, d3, <<Save(t), Save(u)>>, z) /\ Only(d3, z, "state")
                           /\ Good(Now, u, z) /\ z.state = u
  <2>1. Keeps(Now, d3.state, t)
    BY <1>20, <1>25, GrowsIs
  <2> QED BY <1>18, <1>24, <1>25, <1>26, <2>1, SaveTwo
<1>28. PICK z \in Disks : /\ Walk(Now, d3, <<Save(t), Save(u)>>, z) /\ Only(d3, z, "state")
                          /\ Good(Now, u, z) /\ z.state = u
  BY <1>27
<1>29. <<e, f, Save(b)>> \in Seq(Effects) /\ Walk(Now, disk, <<e, f, Save(b)>>, d3)
  BY <1>3, <1>9, <1>11, <1>25, WalkThree
<1>30. /\ <<e, f, Save(b), Save(t), Save(u)>> \in Seq(Effects)
       /\ Walk(Now, disk, <<e, f, Save(b), Save(t), Save(u)>>, z)
  <2>1. Save(b) \in Effects /\ Save(t) \in Effects /\ Save(u) \in Effects
    BY <1>15, <1>18, <1>24, EffectIs DEF Save
  <2>2. <<e, f, Save(b)>> \o <<Save(t), Save(u)>> = <<e, f, Save(b), Save(t), Save(u)>>
    BY <1>6, <2>1, FiveEffects
  <2>3. /\ <<e, f, Save(b)>> \o <<Save(t), Save(u)>> \in Seq(Effects)
        /\ Walk(Now, disk, <<e, f, Save(b)>> \o <<Save(t), Save(u)>>, z)
    BY <1>3, <1>27, <1>28, <1>29, WalkJoin
  <2> QED BY <2>2, <2>3
<1>31. z.draft = d2.draft
  BY <1>25, <1>28 DEF Only, Files
<1>32. Stands(Now, place, u, z) /\ (Plain => Smooth(place, u, z, "none"))
  BY <1>22, <1>24, <1>28, <1>31
<1> QED BY <1>2, <1>24, <1>28, <1>30, <1>32, OnwardsArrives

(* ---- the Lean question -------------------------------------------------------- *)
LEMMA AtConsent ==
    ASSUME IInv, queue = <<>>, pc \in Late
    PROVE  /\ disk \in Disks /\ mem \in RunState /\ Sound(Now, disk) /\ Good(Now, mem, disk)
           /\ disk.state = mem /\ mem.archive = 0 /\ ~Succ(mem, "report")
           /\ Trees(disk) <= Now.turn /\ <<>> \in Seq(Effects) /\ Walk(Now, disk, <<>>, disk)
           /\ Succ(mem, "research") /\ Succ(mem, "audit") /\ Goes(mem, disk)
           /\ disk.draft.good /\ mem.opt = "full" /\ Succ(mem, "manuscript")
           /\ pc # "consent" => Succ(mem, "bibliography")
           /\ pc = "asking" => mem.consent = "none"
           /\ pc \in {"lean", "proving"} => mem.consent = "yes"
           /\ pc = "proving" => mem.st["feasibility"] = "running"
           /\ pc # "proving" => (Plain => Settled(mem))
<1>1. /\ disk \in Disks /\ mem \in RunState /\ Sound(Now, disk) /\ Good(Now, mem, disk)
      /\ disk.state = mem /\ mem.archive = 0 /\ ~Succ(mem, "report")
      /\ Trees(disk) <= Now.turn /\ <<>> \in Seq(Effects) /\ Walk(Now, disk, <<>>, disk)
      /\ Stands(Now, pc, mem, disk) /\ (Plain => Smooth(pc, mem, disk, end))
  BY AtStage DEF Late
<1>2. pc # "proving" => (Plain => Settled(mem))
  <2>1. pc # "proving" => pc \notin Awaits \ {"asking"}
    BY DEF Awaits, Late
  <2>2. pc \notin {"off", "load", "plan"}
    BY DEF Late
  <2> QED BY <1>1, <2>1, <2>2, SettledAt
<1> QED BY <1>1, <1>2 DEF Stands, Late

\* With the answer on record the run goes to Lean, or to its report.
LEMMA AskConsentStep ==
    ASSUME IInv, AskConsent
    PROVE  IInv' /\ disk' = disk
<1>1. /\ pc = "consent" /\ queue = <<>> /\ Quiet /\ disk' = disk /\ mem.consent = "none"
      /\ Go("asking", mem, <<>>) /\ Succ(mem, "bibliography")
  BY DEF AskConsent, Crosses, At, Go, Succ
<1>2. /\ disk \in Disks /\ mem \in RunState /\ Good(Now, mem, disk)
      /\ disk.state = mem /\ mem.archive = 0 /\ ~Succ(mem, "report")
      /\ <<>> \in Seq(Effects) /\ Walk(Now, disk, <<>>, disk)
      /\ Succ(mem, "research") /\ Succ(mem, "audit") /\ Goes(mem, disk)
      /\ disk.draft.good /\ mem.opt = "full" /\ Succ(mem, "manuscript")
      /\ (Plain => Settled(mem))
  BY <1>1, AtConsent DEF Late
<1>3. Stands(Now, "asking", mem, disk)
  BY <1>1, <1>2 DEF Stands, Late
<1>4. Plain => Smooth("asking", mem, disk, "none")
  BY <1>2 DEF Smooth, Settled
<1>5. "asking" \in Places \ {"off"} /\ pc # "off"
  BY <1>1 DEF Places, Awaits
<1> QED BY <1>1, <1>2, <1>3, <1>4, <1>5, Arrives

LEMMA ConsentLostStep ==
    ASSUME IInv, ConsentLost
    PROVE  IInv' /\ disk' = disk
<1>1. /\ pc = "consent" /\ queue = <<>> /\ Quiet /\ disk' = disk
      /\ mem.consent # "none" /\ disk.consent # mem.consent /\ Go("explaining", mem, <<>>)
  BY DEF ConsentLost, ConsentBroken, Crosses, At, Go
<1>2. /\ disk \in Disks /\ mem \in RunState /\ Good(Now, mem, disk)
      /\ disk.state = mem /\ mem.archive = 0 /\ ~Succ(mem, "report")
      /\ <<>> \in Seq(Effects) /\ Walk(Now, disk, <<>>, disk) /\ (Plain => Settled(mem))
  BY <1>1, AtConsent DEF Late
<1>3. Stands(Now, "explaining", mem, disk)
  BY <1>2, StandsReport
<1>4. Plain => Smooth("explaining", mem, disk, "none")
  BY <1>1, <1>2 DEF Smooth, Settled, Handled
<1>5. "explaining" \in Places \ {"off"} /\ pc # "off"
  BY <1>1 DEF Places
<1> QED BY <1>1, <1>2, <1>3, <1>4, <1>5, Arrives

\* Without consent the Lean stages are skipped.
LEMMA Declined ==
    ASSUME NEW c, NEW d \in Disks, NEW s \in RunState, Sound(c, d), Good(c, s, d), s.archive = 0,
           ~Succ(s, "report"), Succ(s, "manuscript"), Succ(s, "bibliography"), s.consent = "no",
           Keeps(c, d.state, s), NEW t, t = SkipPending(s, LeanStage), NEW z, z = Holding(d, t)
    PROVE  /\ t \in RunState /\ z \in Disks /\ Leads(c, d, Save(t), z)
           /\ <<Save(t)>> \in Seq(Effects) /\ Walk(c, d, <<Save(t)>>, z)
           /\ Stands(c, "report", t, z) /\ (Settled(s) => Smooth("report", t, z, "none"))
<1>1. t \in RunState /\ Good(c, t, d) /\ Grows(s, t)
  <2>1. Skippable(s, d, LeanStage)
    BY DEF Skippable
  <2> QED BY <2>1, Skips
<1>2. t.archive = 0
  BY OtherFields, StageFacts
<1>3. \A x \in Stage : t.st[x] = IF x \in LeanStage /\ s.st[x] = "pending" THEN "skipped" ELSE s.st[x]
  BY SkipPendingIs
<1>4. /\ ~Succ(t, "report") /\ Succ(t, "manuscript") /\ Succ(t, "bibliography")
      /\ (Settled(s) => Settled(t))
  <2>1. /\ t.st["report"] = s.st["report"] /\ t.st["manuscript"] = s.st["manuscript"]
        /\ t.st["bibliography"] = s.st["bibliography"]
    BY <1>3, StageFacts DEF LeanStage
  <2>2. \A x \in Stage : t.st[x] = "running" => s.st[x] = "running"
    BY <1>3
  <2> QED BY <2>1, <2>2, SettledOn DEF Succ
<1>5. Keeps(c, d.state, t) /\ Trees(d) <= c.turn
  BY <1>1, GrowsIs DEF Sound
<1>6. Leads(c, d, Save(t), z) /\ z \in Disks /\ z.state = t /\ Good(c, t, z)
  BY <1>1, <1>5, Saves
<1>7. <<Save(t)>> \in Seq(Effects) /\ Walk(c, d, <<Save(t)>>, z)
  BY <1>6, WalkOne
<1>8. Stands(c, "report", t, z)
  BY <1>2, <1>4, <1>6, StandsReport
<1>9. Settled(s) => Smooth("report", t, z, "none")
  <2>1. Unfinished(t.st) \subseteq LeanStage \cup {"report"}
    BY <1>1, <1>4, LeftAfterDraft DEF Good, Succ, Complete
  <2> QED BY <1>4, <2>1, SmoothReport
<1> QED BY <1>1, <1>6, <1>7, <1>8, <1>9

LEMMA StandsLean ==
    ASSUME NEW c, NEW s, NEW z, Good(c, s, z), s.archive = 0, z.state = s, ~Succ(s, "report"),
           Succ(s, "research"), Succ(s, "audit"), Goes(s, z), z.draft.good, s.opt = "full",
           Succ(s, "manuscript"), Succ(s, "bibliography"), s.consent = "yes"
    PROVE  Stands(c, "lean", s, z) /\ (Settled(s) => Smooth("lean", s, z, "none"))
<1>1. Stands(c, "lean", s, z)
  BY DEF Stands, Late
<1>2. Settled(s) => Smooth("lean", s, z, "none")
  BY DEF Smooth, Settled
<1> QED BY <1>1, <1>2

LEMMA ReuseConsentStep ==
    ASSUME IInv, ReuseConsent
    PROVE  IInv' /\ disk' = disk
<1>1. /\ pc = "consent" /\ queue = <<>> /\ Quiet /\ disk' = disk /\ mem.consent # "none"
      /\ Answered(mem, mem.consent, <<>>) /\ Succ(mem, "bibliography")
  BY DEF ReuseConsent, Crosses, At, Answered, Go, Succ
<1>2. /\ disk \in Disks /\ mem \in RunState /\ Sound(Now, disk) /\ Good(Now, mem, disk)
      /\ disk.state = mem /\ mem.archive = 0 /\ ~Succ(mem, "report")
      /\ <<>> \in Seq(Effects) /\ Walk(Now, disk, <<>>, disk)
      /\ Succ(mem, "research") /\ Succ(mem, "audit") /\ Goes(mem, disk)
      /\ disk.draft.good /\ mem.opt = "full" /\ Succ(mem, "manuscript")
      /\ (Plain => Settled(mem))
  BY <1>1, AtConsent DEF Late
<1>3. mem.consent \in {"yes", "no"}
  BY <1>1, <1>2 DEF RunState
<1>4. /\ "lean" \in Places \ {"off"} /\ "report" \in Places \ {"off"} /\ pc # "off"
  BY <1>1 DEF Places
<1>5. CASE mem.consent = "yes"
  <2>1. Go("lean", mem, <<>>)
    BY <1>1, <1>5 DEF Answered
  <2>2. Stands(Now, "lean", mem, disk) /\ (Settled(mem) => Smooth("lean", mem, disk, "none"))
    BY <1>1, <1>2, <1>5, StandsLean
  <2> QED BY <1>1, <1>2, <1>4, <2>1, <2>2, Arrives
<1>6. CASE mem.consent = "no"
  <2> DEFINE t == SkipPending(mem, LeanStage)
             z == Holding(disk, t)
  <2>1. Keeps(Now, disk.state, mem)
    BY <1>2, KeepsSame
  <2>2. /\ t \in RunState /\ z \in Disks /\ <<Save(t)>> \in Seq(Effects)
        /\ Walk(Now, disk, <<Save(t)>>, z)
        /\ Stands(Now, "report", t, z) /\ (Settled(mem) => Smooth("report", t, z, "none"))
    BY <1>1, <1>2, <1>6, <2>1, Declined
  <2>3. Go("report", t, <<>> \o <<Save(t)>>)
    BY <1>1, <1>6 DEF Answered, Skipping
  <2> HIDE DEF t, z
  <2>4. <<>> \o <<Save(t)>> = <<Save(t)>>
    BY <2>2, ConcatEmptySeq
  <2>5. Go("report", t, <<Save(t)>>)
    BY <2>3, <2>4
  <2> QED BY <1>1, <1>2, <1>4, <2>2, <2>5, Arrives
<1> QED BY <1>3, <1>5, <1>6

LEMMA AnswerConsentStep ==
    ASSUME IInv, AnswerConsent
    PROVE  IInv' /\ disk' = disk
<1>1. PICK answer \in {"yes", "no"} :
          LET s == [mem EXCEPT !.consent = answer]
          IN Answered(s, answer, <<Put("consent", answer), Save(s)>>)
  BY DEF AnswerConsent
<1> DEFINE s == [mem EXCEPT !.consent = answer]
           e == Put("consent", answer)
           y == Written(disk, e)
           x == Holding(y, s)
           t == SkipPending(s, LeanStage)
           z == Holding(x, t)
<1>2. /\ pc = "asking" /\ queue = <<>> /\ Quiet /\ disk' = disk
      /\ Answered(s, answer, <<e, Save(s)>>)
  BY <1>1 DEF AnswerConsent, At, Answered, Go
<1>3. /\ disk \in Disks /\ mem \in RunState /\ Sound(Now, disk) /\ Good(Now, mem, disk)
      /\ disk.state = mem /\ mem.archive = 0 /\ ~Succ(mem, "report") /\ Trees(disk) <= Now.turn
      /\ Succ(mem, "research") /\ Succ(mem, "audit") /\ Goes(mem, disk)
      /\ disk.draft.good /\ mem.opt = "full" /\ Succ(mem, "manuscript")
      /\ Succ(mem, "bibliography") /\ mem.consent = "none" /\ (Plain => Settled(mem))
  BY <1>2, AtConsent DEF Late
<1>4. e \in Effects
  BY EffectIs DEF Consents
<1>5. Only(disk, y, "consent") /\ y.consent = answer
  <2>1. Only(disk, y, "consent") /\ y["consent"] = answer
    BY <1>3, <1>4, PutIs DEF Files
  <2> QED BY <2>1 DEF Only
<1>6. Good(Now, mem, y) /\ Trees(y) = Trees(disk)
  BY <1>3, <1>5, GoodConsent
<1>7. Leads(Now, disk, e, y) /\ y \in Disks /\ y.state = mem
  <2>1. "consent" \in Files \ {"state"} /\ disk.state.consent = "none"
    BY <1>3 DEF Files
  <2>2. Good(Now, disk.state, y) /\ Trees(y) <= Now.turn
    BY <1>3, <1>6
  <2> QED BY <1>3, <1>4, <2>1, <2>2, Puts
<1>8. y.draft = disk.draft /\ y.tree = disk.tree
  BY <1>5 DEF Only, Files
<1> HIDE DEF e, y
<1>9. /\ s \in RunState /\ s.st = mem.st /\ s.rec = mem.rec /\ s.opt = mem.opt /\ s.archive = 0
      /\ s.intent = mem.intent /\ s.gen = mem.gen /\ s.consent = answer
  BY <1>3 DEF RunState
<1> HIDE DEF s
<1>10. Good(Now, s, y)
  <2>1. Agreed(Now, s, y)
    BY <1>5, <1>6, <1>9 DEF Good, Agreed
  <2> QED BY <1>3, <1>6, <1>7, <1>9, <2>1, Aside
<1>11. Keeps(Now, y.state, s)
  BY <1>7, <1>9, KeepsSame
<1>12. /\ Leads(Now, y, Save(s), x) /\ Only(y, x, "state") /\ x \in Disks /\ x.state = s
       /\ Good(Now, s, x) /\ Sound(Now, x)
  <2>1. Trees(y) <= Now.turn
    BY <1>3, <1>6
  <2> QED BY <1>7, <1>9, <1>10, <1>11, <2>1, Saves DEF Leads
<1> HIDE DEF x
<1>13. <<e, Save(s)>> \in Seq(Effects) /\ Walk(Now, disk, <<e, Save(s)>>, x)
  BY <1>3, <1>7, <1>12, WalkTwo
<1>14. /\ ~Succ(s, "report") /\ Succ(s, "research") /\ Succ(s, "audit") /\ Succ(s, "manuscript")
       /\ Succ(s, "bibliography") /\ (Plain => Settled(s))
  BY <1>3, <1>9 DEF Succ, Settled
<1>15. x.draft = disk.draft /\ x.tree = disk.tree
  BY <1>8, <1>12 DEF Only, Files
<1>16. /\ "lean" \in Places \ {"off"} /\ "report" \in Places \ {"off"} /\ pc # "off"
  BY <1>2 DEF Places
<1>17. CASE answer = "yes"
  <2>1. Go("lean", s, <<e, Save(s)>>)
    BY <1>2, <1>17 DEF Answered
  <2>2. Goes(s, x) /\ x.draft.good
    BY <1>3, <1>9, <1>15 DEF Goes
  <2>3. Stands(Now, "lean", s, x) /\ (Settled(s) => Smooth("lean", s, x, "none"))
    BY <1>3, <1>9, <1>12, <1>14, <1>17, <2>2, StandsLean
  <2> QED BY <1>2, <1>9, <1>12, <1>13, <1>14, <1>16, <2>1, <2>3, Arrives
<1>18. CASE answer = "no"
  <2>1. Keeps(Now, x.state, s)
    BY <1>12, KeepsSame
  <2>2. /\ t \in RunState /\ z \in Disks /\ <<Save(t)>> \in Seq(Effects)
        /\ Walk(Now, x, <<Save(t)>>, z) /\ Leads(Now, x, Save(t), z)
        /\ Stands(Now, "report", t, z) /\ (Settled(s) => Smooth("report", t, z, "none"))
    BY <1>9, <1>12, <1>14, <1>18, <2>1, Declined
  <2>3. Go("report", t, <<e, Save(s)>> \o <<Save(t)>>)
    BY <1>2, <1>18 DEF Answered, Skipping
  <2> HIDE DEF t, z
  <2>4. /\ <<e, Save(s)>> \o <<Save(t)>> \in Seq(Effects)
        /\ Walk(Now, disk, <<e, Save(s)>> \o <<Save(t)>>, z)
    BY <1>3, <1>13, <2>2, WalkJoin
  <2> QED BY <1>2, <1>14, <1>16, <2>2, <2>3, <2>4, Arrives
<1> QED BY <1>17, <1>18

(* ---- Lean --------------------------------------------------------------------- *)
LEMMA StartLeanStep ==
    ASSUME IInv, StartLean
    PROVE  IInv' /\ disk' = disk
<1> DEFINE s == With(mem, "feasibility", "running")
           z == Holding(disk, s)
<1>1. StageAt("lean") = "feasibility" /\ StageAt("proving") = "feasibility"
  BY DEF StageAt
<1>2. /\ Begins("lean") /\ pc = "lean" /\ queue = <<>> /\ Quiet
      /\ Go("proving", s, <<Save(s)>> \o <<>>) /\ disk' = disk
  BY <1>1 DEF StartLean, Starts, Begins, At, Go
<1>3. /\ disk \in Disks /\ mem \in RunState
      /\ Succ(mem, "research") /\ Succ(mem, "audit") /\ Goes(mem, disk)
      /\ disk.draft.good /\ mem.opt = "full" /\ Succ(mem, "manuscript")
      /\ Succ(mem, "bibliography") /\ mem.consent = "yes"
  BY <1>2, AtConsent DEF Late
<1>4. Ready(mem, disk, "feasibility")
  BY <1>3 DEF Ready
<1>5. /\ s \in RunState /\ z \in Disks /\ Good(Now, s, z) /\ Save(s) \in Effects
      /\ <<Save(s)>> \in Seq(Effects) /\ Walk(Now, disk, <<Save(s)>>, z) /\ z.state = s
      /\ Only(disk, z, "state") /\ Grows(mem, s) /\ s.consent = mem.consent /\ s.opt = mem.opt
      /\ s.archive = 0 /\ s.st["feasibility"] = "running" /\ ~Succ(s, "report")
      /\ (Plain => Settled(mem))
  BY <1>1, <1>2, <1>4, Begun
<1> HIDE DEF z
<1>6. Plain => Smooth("proving", s, z, "none")
  BY <1>1, <1>3, <1>5, SmoothAwait DEF Awaits
<1> HIDE DEF s
<1>7. /\ Succ(s, "research") /\ Succ(s, "audit") /\ Succ(s, "manuscript") /\ Succ(s, "bibliography")
      /\ Goes(s, z) /\ z.draft.good
  BY <1>3, <1>5, StageFacts DEF Grows, Goes, Only, Files
<1>8. Stands(Now, "proving", s, z)
  BY <1>3, <1>5, <1>7 DEF Stands, Late
<1>9. "proving" \in Places \ {"off"} /\ pc # "off" /\ <<Save(s)>> \o <<>> = <<Save(s)>>
  BY <1>2, <1>5, Tuples DEF Places, Awaits
<1> QED BY <1>2, <1>5, <1>6, <1>8, <1>9, Arrives

\* _apply_lean_result on the way: its saves lead from disk d to one that its run
\* state goes with.
Chain(c, d, done) ==
    /\ done \in [s : RunState, saves : Seq(Effects), legal : BOOLEAN]
    /\ Good(c, done.s, d) /\ done.s.archive = 0 /\ ~Succ(done.s, "report")
    /\ Succ(done.s, "manuscript") /\ Succ(done.s, "bibliography")
    /\ \E z \in Disks : /\ Walk(c, d, done.saves, z) /\ Only(d, z, "state")
                        /\ Keeps(c, z.state, done.s)

Even(done) == done.legal /\ Settled(done.s)

Parts  == {"alignment", "formalization", "verification"}
Finals == {"skipped", "failed", "succeeded"}

LEMMA AppendIs ==
    ASSUME NEW q \in Seq(Effects), NEW e \in Effects
    PROVE  Append(q, e) = q \o <<e>> /\ Append(q, e) \in Seq(Effects)
BY AppendIsConcat, AppendProperties

\* One more save at the end of a walk.
LEMMA ThenSaves ==
    ASSUME NEW c, NEW d \in Disks, NEW q \in Seq(Effects), NEW z \in Disks, NEW t \in RunState,
           Walk(c, d, q, z), Only(d, z, "state"), Good(c, t, d), Keeps(c, z.state, t),
           NEW y, y = Holding(z, t)
    PROVE  /\ Append(q, Save(t)) \in Seq(Effects) /\ Walk(c, d, Append(q, Save(t)), y)
           /\ y \in Disks /\ Only(d, y, "state") /\ y.state = t /\ Good(c, t, y)
<1>1. Good(c, t, z)
  BY GoodElsewhere
<1>2. Sound(c, z)
  BY WalkStart
<1>3. /\ <<Save(t)>> \in Seq(Effects) /\ Walk(c, z, <<Save(t)>>, y) /\ y \in Disks
      /\ Good(c, t, y) /\ y.state = t /\ Only(z, y, "state")
  BY <1>1, <1>2, SaveOne
<1>4. Only(d, y, "state")
  BY <1>3, OnlyTwice
<1>5. q \o <<Save(t)>> \in Seq(Effects) /\ Walk(c, d, q \o <<Save(t)>>, y)
  BY <1>3, WalkJoin
<1>6. Append(q, Save(t)) = q \o <<Save(t)>>
  <2>1. Save(t) \in Effects
    BY EffectIs DEF Save
  <2> QED BY <2>1, AppendIs
<1> QED BY <1>3, <1>4, <1>5, <1>6

LEMMA SettleStep ==
    ASSUME NEW c, NEW d \in Disks, NEW done, Chain(c, d, done), NEW x \in Parts, NEW v \in Finals,
           NEW next, next = Settle(done, x, v)
    PROVE  Chain(c, d, next) /\ (Even(done) => Even(next))
<1> DEFINE s == done.s
<1>1. /\ s \in RunState /\ done.saves \in Seq(Effects)
      /\ done \in [s : RunState, saves : Seq(Effects), legal : BOOLEAN]
      /\ Good(c, s, d) /\ s.archive = 0 /\ ~Succ(s, "report")
      /\ Succ(s, "manuscript") /\ Succ(s, "bibliography")
  BY DEF Chain
<1>2. x \in Stage /\ x \in LeanStage /\ x \notin {"report", "manuscript", "bibliography", "feasibility"}
  BY StageFacts DEF Parts, LeanStage
<1>3. PICK z \in Disks : /\ Walk(c, d, done.saves, z) /\ Only(d, z, "state")
                         /\ Keeps(c, z.state, s)
  BY DEF Chain
<1>4. s.st[x] \in {"pending", "running", "failed", "interrupted", "succeeded", "skipped"}
  BY <1>1, <1>2, StatusIs
<1>5. ASSUME NEW t \in RunState, t.archive = s.archive, \A y \in Stage : y # x => t.st[y] = s.st[y]
      PROVE  /\ t.archive = 0 /\ ~Succ(t, "report") /\ Succ(t, "manuscript") /\ Succ(t, "bibliography")
             /\ t.st[x] # "running" => (Settled(s) => Settled(t))
  <2>1. /\ t.st["report"] = s.st["report"] /\ t.st["manuscript"] = s.st["manuscript"]
        /\ t.st["bibliography"] = s.st["bibliography"]
    BY <1>2, <1>5, StageFacts
  <2>2. t.st[x] # "running" => \A y \in Stage : t.st[y] = "running" => s.st[y] = "running"
    BY <1>5
  <2> QED BY <1>1, <1>5, <2>1, <2>2, SettledOn DEF Succ
<1>6. CASE ~done.legal
  BY <1>6 DEF Settle
<1>7. CASE done.legal /\ v = "skipped"
  <2> DEFINE t == SkipPending(s, {x})
  <2>1. next = [done EXCEPT !.s = t]
    BY <1>7 DEF Settle
  <2>2. t \in RunState /\ Good(c, t, d) /\ Grows(s, t)
    <3>1. Skippable(s, d, {x})
      BY <1>1, <1>2 DEF Skippable
    <3> QED BY <1>1, <3>1, Skips
  <2>3. t.archive = s.archive
    BY <1>1, <1>2, OtherFields
  <2>4. \A y \in Stage : t.st[y] = IF y \in {x} /\ s.st[y] = "pending" THEN "skipped" ELSE s.st[y]
    BY <1>1, SkipPendingIs
  <2> HIDE DEF t
  <2>5. /\ t.archive = 0 /\ ~Succ(t, "report") /\ Succ(t, "manuscript") /\ Succ(t, "bibliography")
        /\ t.st[x] # "running" => (Settled(s) => Settled(t))
    BY <1>5, <2>2, <2>3, <2>4
  <2>6. /\ next \in [s : RunState, saves : Seq(Effects), legal : BOOLEAN]
        /\ next.s = t /\ next.saves = done.saves /\ next.legal
    BY <1>1, <1>7, <2>1, <2>2
  <2>7. Keeps(c, z.state, t)
    BY <1>3, <2>2, GrowsIs
  <2>8. Settled(s) => Settled(t)
    <3>1. Settled(s) => t.st[x] # "running"
      BY <1>2, <2>4 DEF Settled
    <3> QED BY <2>5, <3>1
  <2> QED BY <1>3, <2>2, <2>5, <2>6, <2>7, <2>8 DEF Chain, Even
<1>8. CASE done.legal /\ v # "skipped" /\ s.st[x] \in Complete
  BY <1>8 DEF Settle
<1>9. CASE done.legal /\ v # "skipped" /\ s.st[x] = "running"
  <2>1. next = [done EXCEPT !.legal = FALSE]
    BY <1>9 DEF Settle, Complete
  <2>2. /\ next \in [s : RunState, saves : Seq(Effects), legal : BOOLEAN]
        /\ next.s = s /\ next.saves = done.saves
    BY <1>1, <2>1
  <2>3. ~Settled(s)
    BY <1>2, <1>9 DEF Settled
  <2> QED BY <1>1, <1>3, <2>2, <2>3 DEF Chain, Even
<1>10. CASE done.legal /\ v # "skipped" /\ s.st[x] \notin Complete \cup {"running"}
  <2> DEFINE r == With(s, x, "running")
             t == With(s, x, v)
             y == Holding(z, r)
  <2>1. next = [done EXCEPT !.s = t, !.saves = Append(@, Save(r))]
    BY <1>10 DEF Settle
  <2>2. Ready(s, d, x) /\ s.st[x] \notin Complete /\ v \in {"failed", "succeeded"}
    BY <1>1, <1>2, <1>10 DEF Ready, Finals, Parts
  <2>3. r \in RunState /\ Good(c, r, d) /\ Grows(s, r)
    BY <1>1, <1>2, <2>2, Busy DEF Active
  <2>4. t \in RunState /\ Good(c, t, d) /\ Grows(s, t)
    <3>1. CASE v = "failed"
      BY <1>1, <1>2, <2>2, <3>1, Busy DEF Active
    <3>2. CASE v = "succeeded"
      <4>1. x \in AfterResearch \ {"manuscript", "feasibility"}
        BY <1>2 DEF AfterResearch, AfterAudit, AfterManuscript
      <4> QED BY <1>1, <2>2, <3>2, <4>1, Passes
    <3> QED BY <2>2, <3>1, <3>2
  <2>5. /\ r.st = [s.st EXCEPT ![x] = "running"] /\ t.st = [s.st EXCEPT ![x] = v]
        /\ s.st \in [Stage -> Status] /\ t.archive = s.archive
    BY <1>1 DEF With, RunState
  <2> HIDE DEF r, t
  <2>6. Grows(r, t)
    BY <1>2, <2>5 DEF Grows, Succ
  <2>7. \A a \in Stage : a # x => t.st[a] = s.st[a]
    BY <2>5
  <2>8. t.st[x] # "running"
    BY <1>2, <2>2, <2>5
  <2>9. /\ t.archive = 0 /\ ~Succ(t, "report") /\ Succ(t, "manuscript") /\ Succ(t, "bibliography")
        /\ (Settled(s) => Settled(t))
    BY <1>5, <2>4, <2>5, <2>7, <2>8
  <2>10. Keeps(c, z.state, r)
    BY <1>3, <2>3, GrowsIs
  <2>11. /\ Append(done.saves, Save(r)) \in Seq(Effects) /\ Walk(c, d, Append(done.saves, Save(r)), y)
         /\ y \in Disks /\ Only(d, y, "state") /\ y.state = r
    BY <1>1, <1>3, <2>3, <2>10, ThenSaves
  <2> HIDE DEF y
  <2>12. Keeps(c, y.state, t)
    BY <2>6, <2>11, GrowsIs
  <2>13. /\ next \in [s : RunState, saves : Seq(Effects), legal : BOOLEAN]
         /\ next.s = t /\ next.saves = Append(done.saves, Save(r)) /\ next.legal
    BY <1>1, <1>10, <2>1, <2>4, <2>11
  <2> QED BY <2>4, <2>9, <2>11, <2>12, <2>13 DEF Chain, Even
<1> QED BY <1>1, <1>4, <1>6, <1>7, <1>8, <1>9, <1>10 DEF Complete, Chain

LEMMA SettlesIs ==
    ASSUME NEW outcome \in LeanOutcomes
    PROVE  /\ Settles(outcome).alignment \in Finals /\ Settles(outcome).formalization \in Finals
           /\ Settles(outcome).verification \in Finals
BY DEF Settles, LeanOutcomes, Finals

LEMMA AppliedIs ==
    ASSUME NEW c, NEW d \in Disks, NEW s \in RunState, Sound(c, d), Good(c, s, d), s.archive = 0,
           ~Succ(s, "report"), Succ(s, "manuscript"), Succ(s, "bibliography"), Keeps(c, d.state, s),
           NEW outcome \in LeanOutcomes, NEW done, done = Applied(s, outcome)
    PROVE  Chain(c, d, done) /\ (Settled(s) => Even(done))
<1> DEFINE then == Settles(outcome)
           first == [s |-> s, saves |-> <<>>, legal |-> TRUE]
           aligned == Settle(first, "alignment", then.alignment)
           formal == Settle(aligned, "formalization", then.formalization)
<1>1. done = Settle(formal, "verification", then.verification)
  BY DEF Applied
<1>2. then.alignment \in Finals /\ then.formalization \in Finals /\ then.verification \in Finals
  BY SettlesIs
<1>3. Chain(c, d, first) /\ (Settled(s) => Even(first))
  <2>1. first \in [s : RunState, saves : Seq(Effects), legal : BOOLEAN]
        /\ first.s = s /\ first.saves = <<>> /\ first.legal
    BY NoWalk
  <2>2. Walk(c, d, <<>>, d) /\ Only(d, d, "state")
    BY NoWalk DEF Only
  <2> HIDE DEF first
  <2> QED BY <2>1, <2>2 DEF Chain, Even
<1> HIDE DEF then, first
<1>4. Chain(c, d, aligned) /\ (Even(first) => Even(aligned))
  BY <1>2, <1>3, SettleStep DEF Parts
<1> HIDE DEF aligned
<1>5. Chain(c, d, formal) /\ (Even(aligned) => Even(formal))
  BY <1>2, <1>4, SettleStep DEF Parts
<1> HIDE DEF formal
<1>6. Chain(c, d, done) /\ (Even(formal) => Even(done))
  BY <1>1, <1>2, <1>5, SettleStep DEF Parts
<1> QED BY <1>3, <1>4, <1>5, <1>6

\* The result of the Lean workflow is applied after effects that lead to disk y.
LEMMA ApplyStep ==
    ASSUME IInv, pc \in {"lean", "proving"}, NEW y \in Disks, NEW s \in RunState, Sound(Now, y),
           Good(Now, s, y), s.archive = 0, ~Succ(s, "report"), Succ(s, "manuscript"),
           Succ(s, "bibliography"), Keeps(Now, y.state, s), NEW outcome \in LeanOutcomes,
           NEW q \in Seq(Effects), disk \in Disks, Walk(Now, disk, q, y), Apply(s, outcome, q),
           Plain => Settled(s)
    PROVE  IInv' /\ disk' = disk
<1> DEFINE done == Applied(s, outcome)
           t == done.s
<1>1. IF done.legal THEN Onwards("report", done.s, q \o Append(done.saves, Save(done.s)))
      ELSE Go("explaining", done.s, q \o done.saves) /\ Quiet
  BY DEF Apply
<1>2. Chain(Now, y, done) /\ (Settled(s) => Even(done))
  BY AppliedIs
<1> HIDE DEF done
<1>3. /\ t \in RunState /\ done.saves \in Seq(Effects) /\ done.legal \in BOOLEAN
      /\ Good(Now, t, y) /\ t.archive = 0 /\ ~Succ(t, "report") /\ Succ(t, "manuscript")
      /\ Succ(t, "bibliography")
  BY <1>2 DEF Chain
<1>4. PICK z \in Disks : /\ Walk(Now, y, done.saves, z) /\ Only(y, z, "state")
                         /\ Keeps(Now, z.state, t)
  BY <1>2 DEF Chain
<1>5. pc # "off" /\ "explaining" \in Places \ {"off"}
  BY DEF Places
<1>6. CASE done.legal
  <2> DEFINE x == Holding(z, t)
             p == Append(done.saves, Save(t))
  <2>1. /\ p \in Seq(Effects) /\ Walk(Now, y, p, x) /\ x \in Disks /\ x.state = t /\ Good(Now, t, x)
    <3> HIDE DEF t
    <3> QED BY <1>3, <1>4, ThenSaves
  <2>2. Onwards("report", t, q \o p)
    BY <1>1, <1>6
  <2> HIDE DEF x, p, t
  <2>3. q \o p \in Seq(Effects) /\ Walk(Now, disk, q \o p, x)
    BY <2>1, WalkJoin
  <2>4. Stands(Now, "report", t, x)
    BY <1>3, <2>1, StandsReport
  <2>5. Plain => Smooth("report", t, x, "none")
    <3>1. Unfinished(t.st) \subseteq LeanStage \cup {"report"}
      BY <1>3, <2>1, LeftAfterDraft DEF Good, Succ, Complete
    <3>2. Settled(s) => Settled(t)
      BY <1>2 DEF Even, t
    <3> QED BY <3>1, <3>2, SmoothReport
  <2> QED BY <1>3, <1>5, <2>1, <2>2, <2>3, <2>4, <2>5, OnwardsArrives
<1>7. CASE ~done.legal
  <2>1. Go("explaining", t, q \o done.saves) /\ Quiet /\ disk' = disk
    BY <1>1, <1>7 DEF Go
  <2>2. ~Plain
    BY <1>2, <1>7 DEF Even
  <2> HIDE DEF t
  <2>3. q \o done.saves \in Seq(Effects) /\ Walk(Now, disk, q \o done.saves, z)
    BY <1>3, <1>4, WalkJoin
  <2>4. Good(Now, t, z)
    BY <1>3, <1>4, GoodElsewhere
  <2>5. Stands(Now, "explaining", t, z)
    BY <1>3, <1>4, <2>4 DEF Stands, Late
  <2> QED BY <1>3, <1>4, <1>5, <2>1, <2>2, <2>3, <2>5, Arrives
<1> QED BY <1>3, <1>6, <1>7

LEMMA ProveStep ==
    ASSUME IInv, Prove
    PROVE  IInv' /\ disk' = disk
<1>1. PICK outcome \in LeanOutcomes :
          Apply(Succeeded(mem, "feasibility", turn), outcome,
                <<Put("lean", [ver |-> turn, from |-> disk.draft.ver, outcome |-> outcome]),
                  Record("lean", outcome)>>)
  BY DEF Prove
<1> DEFINE s == Succeeded(mem, "feasibility", turn)
           v == [ver |-> turn, from |-> disk.draft.ver, outcome |-> outcome]
           e == Put("lean", v)
           f == Record("lean", outcome)
           x == Written(disk, e)
           y == Written(x, f)
<1>2. pc = "proving" /\ queue = <<>> /\ Apply(s, outcome, <<e, f>>)
  BY <1>1 DEF Prove, At
<1>3. /\ disk \in Disks /\ mem \in RunState /\ Sound(Now, disk) /\ Good(Now, mem, disk)
      /\ disk.state = mem /\ mem.archive = 0 /\ ~Succ(mem, "report") /\ Trees(disk) <= Now.turn
      /\ Succ(mem, "manuscript") /\ Succ(mem, "bibliography") /\ mem.st["feasibility"] = "running"
  BY <1>2, AtConsent DEF Late
<1>4. turn \in Version /\ turn # 0
  BY <1>2, AtRest
<1>5. Plain => \A st \in Stage : mem.st[st] = "running" => st = "feasibility"
  BY <1>2, AtRest DEF Smooth, StageAt
<1>6. /\ v \in LeanFile /\ v.ver = turn /\ v.from = disk.draft.ver /\ v.outcome = outcome
  BY <1>3, <1>4, FileTypes DEF LeanFile, DraftFile
<1>7. e \in Effects /\ f \in Effects
  BY <1>3, <1>6, EffectIs, RecordIs
<1> HIDE DEF v
<1>8. Only(disk, x, "lean") /\ x.lean = v
  <2>1. Only(disk, x, "lean") /\ x["lean"] = v
    BY <1>3, <1>7, PutIs DEF Files
  <2> QED BY <2>1 DEF Only
<1>9. Good(Now, mem, x) /\ Trees(x) = Trees(disk)
  BY <1>3, <1>8, GoodLean DEF Succ
<1>10. Leads(Now, disk, e, x) /\ x.state = mem /\ x \in Disks
  <2>1. "lean" \in Files \ {"state"} /\ "lean" # "consent"
    BY DEF Files
  <2>2. Good(Now, disk.state, x) /\ Trees(x) <= Now.turn
    BY <1>3, <1>9
  <2> QED BY <1>3, <1>7, <2>1, <2>2, Puts
<1>11. x.draft = disk.draft
  BY <1>8 DEF Only, Files
<1> HIDE DEF e, x
<1>12. /\ Leads(Now, x, f, y) /\ y \in Disks /\ y.state = mem /\ Sound(Now, y)
       /\ y.lean = v /\ y.draft = disk.draft /\ Good(Now, mem, y)
  <2>1. Sound(Now, x)
    BY <1>10 DEF Leads
  <2> QED BY <1>3, <1>7, <1>8, <1>9, <1>10, <1>11, <2>1, Recording
<1> HIDE DEF f, y
<1>13. s \in RunState /\ Good(Now, s, y) /\ Grows(mem, s)
  <2>1. Made(mem, y, "feasibility", turn)
    BY <1>6, <1>12 DEF Made, Artifact
  <2>2. Ready(mem, y, "feasibility") /\ mem.st["feasibility"] \notin Complete
    BY <1>3 DEF Ready, Complete
  <2> QED BY <1>3, <1>4, <1>12, <2>1, <2>2, Records
<1>14. /\ s.st = [mem.st EXCEPT !["feasibility"] = "succeeded"] /\ s.archive = 0
       /\ mem.st \in [Stage -> Status]
  <2>1. s.st = [mem.st EXCEPT !["feasibility"] = "succeeded"] /\ s.archive = mem.archive
    BY <1>3 DEF Succeeded, RunState
  <2> QED BY <1>3, <2>1 DEF RunState
<1> HIDE DEF s
<1>15. /\ ~Succ(s, "report") /\ Succ(s, "manuscript") /\ Succ(s, "bibliography")
  BY <1>3, <1>14, StageFacts DEF Succ
<1>16. Plain => Settled(s)
  <2>1. \A a \in Stage : s.st[a] = IF a = "feasibility" THEN "succeeded" ELSE mem.st[a]
    BY <1>14
  <2> QED BY <1>5, <1>15, <2>1, StageFacts DEF Settled, Succ, Complete
<1>17. <<e, f>> \in Seq(Effects) /\ Walk(Now, disk, <<e, f>>, y)
  BY <1>3, <1>10, <1>12, WalkTwo
<1>18. Keeps(Now, y.state, s)
  BY <1>12, <1>13, GrowsIs
<1> QED BY <1>2, <1>3, <1>12, <1>13, <1>14, <1>15, <1>16, <1>17, <1>18, ApplyStep

LEMMA KeepLeanStep ==
    ASSUME IInv, KeepLean
    PROVE  IInv' /\ disk' = disk
<1> DEFINE f == Record("lean", disk.lean.outcome)
           y == Written(disk, f)
<1>1. /\ pc = "lean" /\ queue = <<>> /\ mem.st["feasibility"] \in Complete
      /\ Apply(mem, disk.lean.outcome, <<f>>)
  BY DEF KeepLean, Kept, At, StageAt
<1>2. /\ disk \in Disks /\ mem \in RunState /\ Sound(Now, disk) /\ Good(Now, mem, disk)
      /\ disk.state = mem /\ mem.archive = 0 /\ ~Succ(mem, "report")
      /\ disk.draft.good /\ mem.opt = "full" /\ Succ(mem, "manuscript")
      /\ Succ(mem, "bibliography") /\ mem.consent = "yes" /\ (Plain => Settled(mem))
  BY <1>1, AtConsent DEF Late
<1>3. Succ(mem, "feasibility")
  BY <1>1, <1>2 DEF Good, Ordered, Succ, Complete
<1>4. disk.lean.outcome \in LeanOutcomes
  BY <1>2, <1>3 DEF Good, Filed, Stored, Succ
<1>5. f \in Effects
  BY <1>2, <1>4, RecordIs
<1>6. Leads(Now, disk, f, y) /\ y \in Disks /\ y.state = mem /\ Sound(Now, y) /\ Good(Now, mem, y)
  BY <1>2, <1>5, Recording
<1> HIDE DEF f, y
<1>7. <<f>> \in Seq(Effects) /\ Walk(Now, disk, <<f>>, y)
  BY <1>2, <1>6, WalkOne
<1>8. Keeps(Now, y.state, mem)
  BY <1>6, KeepsSame
<1> QED BY <1>1, <1>2, <1>4, <1>6, <1>7, <1>8, ApplyStep

(* ---- what goes wrong in a stage ----------------------------------------------- *)
\* The process goes to its explanation with nothing written.
LEMMA Explains ==
    ASSUME IInv, queue = <<>>, pc \notin {"off", "load", "plan", "migrate", "explaining"},
           Go("explaining", mem, <<>>), Quiet, ~Plain
    PROVE  IInv' /\ disk' = disk
<1>1. /\ disk \in Disks /\ mem \in RunState /\ Good(Now, mem, disk)
      /\ disk.state = mem /\ mem.archive = 0 /\ ~Succ(mem, "report")
      /\ <<>> \in Seq(Effects) /\ Walk(Now, disk, <<>>, disk)
  BY AtStage
<1>2. Stands(Now, "explaining", mem, disk)
  BY <1>1, StandsReport
<1>3. "explaining" \in Places \ {"off"} /\ disk' = disk
  BY DEF Places, Go
<1> QED BY <1>1, <1>2, <1>3, Arrives

LEMMA BeginRefusedStep ==
    ASSUME IInv, BeginRefused
    PROVE  IInv' /\ disk' = disk
<1>1. /\ pc \in {"prompt", "research", "audit", "manuscript", "lean"} /\ queue = <<>>
      /\ mem.st[StageAt(pc)] = "running" /\ Go("explaining", mem, <<>>) /\ Quiet
  BY DEF BeginRefused, At
<1>2. ~Plain
  <2>1. /\ pc \notin Awaits /\ StageAt(pc) \in Stage
    BY <1>1, StageFacts DEF Awaits, StageAt
  <2>2. Plain => Smooth(pc, mem, disk, end)
    BY <1>1, AtStage
  <2>3. ~Smooth(pc, mem, disk, end)
    BY <1>1, <2>1 DEF Smooth
  <2> QED BY <2>2, <2>3
<1> QED BY <1>1, <1>2, Explains

LEMMA BoundaryClosedStep ==
    ASSUME IInv, BoundaryClosed
    PROVE  IInv' /\ disk' = disk
<1>1. PICK place \in {"manuscript", "consent"} : At(place) /\ ~Crosses(place)
  BY DEF BoundaryClosed
<1>2. pc = place /\ queue = <<>> /\ Go("explaining", mem, <<>>) /\ Quiet
  BY <1>1 DEF BoundaryClosed, At
<1>3. /\ mem \in RunState /\ Good(Now, mem, disk) /\ Stands(Now, pc, mem, disk)
      /\ (Plain => Smooth(pc, mem, disk, end))
  BY <1>2, AtStage
<1>4. Verified(mem)
  BY <1>3, VerifiedIs DEF Good
<1>5. ~Plain
  <2>1. CASE place = "manuscript"
    <3>1. mem.st["research"] = "succeeded" /\ mem.st["audit"] = "succeeded"
      BY <1>2, <1>3, <2>1 DEF Stands, Succ
    <3> QED BY <1>1, <1>4, <2>1, <3>1 DEF Crosses
  <2>2. CASE place = "consent"
    <3>1. mem.st["manuscript"] = "succeeded"
      BY <1>2, <1>3, <2>2 DEF Stands, Succ, Late
    <3>2. mem.st["bibliography"] # "succeeded"
      BY <1>1, <1>4, <2>2, <3>1 DEF Crosses
    <3>3. ~Smooth(pc, mem, disk, end)
      BY <1>2, <1>3, <2>2, <3>1, <3>2 DEF Smooth, Good, Ordered, Complete
    <3> QED BY <1>3, <3>3
  <2> QED BY <2>1, <2>2
<1> QED BY <1>2, <1>5, Explains

LEMMA StageFailsStep ==
    ASSUME IInv, StageFails
    PROVE  IInv' /\ disk' = disk
<1> DEFINE x == StageAt(pc)
           s == With(mem, x, "failed")
           z == Holding(disk, s)
<1>1. /\ pc \in Awaits \ {"asking"} /\ queue = <<>> /\ Go("explaining", s, <<Save(s)>>)
      /\ (IF Refused THEN Quiet ELSE Upset) /\ disk' = disk
  BY DEF StageFails, At, Go
<1>2. /\ x \in {"prompt", "research", "manuscript", "feasibility"} /\ x \in Stage
      /\ pc = "writing" => x = "manuscript"
  BY <1>1, StageFacts DEF Awaits, StageAt
<1>3. /\ disk \in Disks /\ mem \in RunState /\ Sound(Now, disk) /\ Good(Now, mem, disk)
      /\ disk.state = mem /\ mem.archive = 0 /\ ~Succ(mem, "report")
      /\ Stands(Now, pc, mem, disk) /\ (Plain => Smooth(pc, mem, disk, end))
  BY <1>1, AtStage DEF Awaits
<1>4. mem.st[x] = "running"
  BY <1>1, <1>3 DEF Stands, StageAt, Awaits
<1>5. Plain => \A a \in Stage : mem.st[a] = "running" => a = x
  BY <1>1, <1>3 DEF Smooth, Awaits
<1>6. Plain => (mem.st["manuscript"] \in Complete => mem.st["bibliography"] \in Complete)
  BY <1>1, <1>3 DEF Smooth, Awaits
<1> HIDE DEF x
<1>7. s \in RunState /\ Good(Now, s, disk) /\ Grows(mem, s)
  <2>1. Ready(mem, disk, x)
    BY <1>2, <1>3, <1>4, Rests DEF Good
  <2> QED BY <1>2, <1>3, <1>4, <2>1, Busy DEF Active, Complete
<1>8. /\ s.st = [mem.st EXCEPT ![x] = "failed"] /\ s.archive = 0 /\ s.correct = mem.correct
      /\ mem.st \in [Stage -> Status]
  <2>1. s.archive = mem.archive /\ s.correct = mem.correct
    BY <1>3 DEF With, RunState
  <2> QED BY <1>3, <2>1 DEF With, RunState
<1> HIDE DEF s
<1>9. /\ <<Save(s)>> \in Seq(Effects) /\ z \in Disks /\ Walk(Now, disk, <<Save(s)>>, z)
      /\ Good(Now, s, z) /\ z.state = s /\ Only(disk, z, "state")
  <2>1. Keeps(Now, disk.state, s)
    BY <1>3, <1>7, GrowsIs
  <2> QED BY <1>3, <1>7, <2>1, SaveOne
<1> HIDE DEF z
<1>10. Stands(Now, "explaining", s, z)
  <2>1. ~Succ(s, "report")
    BY <1>2, <1>3, <1>8, StageFacts DEF Succ
  <2> QED BY <1>8, <1>9, <2>1, StandsReport
<1>11. "explaining" \in Places \ {"off"} /\ pc # "off"
  BY <1>1 DEF Places, Awaits
<1>12. CASE ~Refused
  BY <1>1, <1>7, <1>9, <1>10, <1>11, <1>12, Arrives
<1>13. CASE Refused
  <2>1. pc = "writing" /\ mem.correct /\ ~(Correctable /\ disk.draft.from = disk.tree.live.ver)
    <3>1. pc = "researching" => disk.tree.live.from = disk.prompt.ver
      BY <1>1, AtResearch
    <3> QED BY <1>13, <3>1 DEF Refused
  <2>2. Stuck(s, z)
    <3>1. z.draft = disk.draft /\ z.tree = disk.tree
      BY <1>9 DEF Only, Files
    <3>2. s.correct /\ s.st["manuscript"] \notin Complete
      BY <1>2, <1>8, <2>1 DEF Complete
    <3> QED BY <2>1, <3>1, <3>2 DEF Stuck, Correctable
  <2>3. Plain => Smooth("explaining", s, z, "none")
    <3>1. \A a \in Stage : s.st[a] = IF a = x THEN "failed" ELSE mem.st[a]
      BY <1>2, <1>8
    <3>2. Plain => \A a \in Stage : s.st[a] # "running"
      BY <1>5, <3>1
    <3>3. s.st["manuscript"] \notin Complete
      BY <1>2, <2>1, <3>1 DEF Complete
    <3> QED BY <2>2, <3>2, <3>3 DEF Smooth, Handled
  <2>4. Quiet
    BY <1>1, <1>13
  <2> QED BY <1>1, <1>7, <1>9, <1>10, <1>11, <2>3, <2>4, Arrives
<1> QED BY <1>12, <1>13

LEMMA ExplainStep ==
    ASSUME IInv, Explain
    PROVE  IInv' /\ disk' = disk
<1> DEFINE z == Holding(disk, mem)
<1>1. pc = "explaining" /\ queue = <<>> /\ Go("report", mem, <<Save(mem)>>) /\ Quiet /\ disk' = disk
  BY DEF Explain, At, Go
<1>2. /\ disk \in Disks /\ mem \in RunState /\ Sound(Now, disk)
      /\ Stands(Now, pc, mem, disk) /\ (Plain => Smooth(pc, mem, disk, end))
  BY <1>1, AtRest
<1>3. /\ Good(Now, mem, disk) /\ mem.archive = 0 /\ ~Succ(mem, "report")
      /\ Keeps(Now, disk.state, mem)
  BY <1>1, <1>2 DEF Stands
<1>4. /\ <<Save(mem)>> \in Seq(Effects) /\ z \in Disks /\ Walk(Now, disk, <<Save(mem)>>, z)
      /\ Good(Now, mem, z) /\ z.state = mem /\ Only(disk, z, "state")
  BY <1>2, <1>3, SaveOne
<1> HIDE DEF z
<1>5. Stands(Now, "report", mem, z)
  BY <1>3, <1>4, StandsReport
<1>6. Plain => Smooth("report", mem, z, "none")
  <2>1. z.draft = disk.draft /\ z.tree = disk.tree /\ z.consent = disk.consent
    BY <1>4 DEF Only, Files
  <2>2. Handled(mem, disk) => Handled(mem, z)
    BY <2>1 DEF Handled, Stuck
  <2>3. Plain => /\ Handled(mem, disk) /\ \A a \in Stage : mem.st[a] # "running"
                 /\ mem.st["manuscript"] \in Complete => mem.st["bibliography"] \in Complete
    BY <1>1, <1>2 DEF Smooth, Awaits
  <2> QED BY <2>2, <2>3 DEF Smooth
<1>7. "report" \in Places \ {"off"} /\ pc # "off"
  BY <1>1 DEF Places
<1> QED BY <1>1, <1>2, <1>4, <1>5, <1>6, <1>7, Arrives

LEMMA CancelStep ==
    ASSUME IInv, Cancel
    PROVE  IInv' /\ disk' = disk
<1>1. Upset
  BY DEF Cancel
<1>2. CASE (\E await \in Awaits : At(await)) /\ Go("report", Interrupted(mem), <<Save(Interrupted(mem))>>)
  <2> DEFINE s == Interrupted(mem)
             z == Holding(disk, s)
  <2>1. pc \in Awaits /\ queue = <<>> /\ disk' = disk /\ Go("report", s, <<Save(s)>>)
    BY <1>2 DEF At, Go
  <2>2. /\ disk \in Disks /\ mem \in RunState /\ Sound(Now, disk) /\ Good(Now, mem, disk)
        /\ disk.state = mem /\ mem.archive = 0 /\ ~Succ(mem, "report")
    BY <2>1, AtStage DEF Awaits
  <2>3. s \in RunState /\ Good(Now, s, disk) /\ Grows(mem, s)
    BY <2>2, GoodNearly, Interrupts
  <2>4. s.archive = 0
    BY <2>2, OtherFields, StageFacts
  <2>5. ~Succ(s, "report")
    BY <2>2, InterruptedIs, StageFacts DEF Succ
  <2> HIDE DEF s
  <2>6. /\ <<Save(s)>> \in Seq(Effects) /\ z \in Disks /\ Walk(Now, disk, <<Save(s)>>, z)
        /\ Good(Now, s, z) /\ z.state = s
    <3>1. Keeps(Now, disk.state, s)
      BY <2>2, <2>3, GrowsIs
    <3> QED BY <2>2, <2>3, <3>1, SaveOne
  <2> HIDE DEF z
  <2>7. Stands(Now, "report", s, z)
    BY <2>4, <2>5, <2>6, StandsReport
  <2>8. "report" \in Places \ {"off"} /\ pc # "off"
    BY <2>1 DEF Places, Awaits
  <2> QED BY <1>1, <2>1, <2>3, <2>6, <2>7, <2>8, Arrives
<1>3. CASE (At("explaining") \/ At("rewriting")) /\ Ends("cancelled", mem, <<>>)
  <2>1. queue = <<>> /\ disk' = disk
    BY <1>3 DEF At, Ends
  <2>2. disk \in Disks /\ mem \in RunState /\ Sound(Now, disk)
    BY <2>1, AtRest
  <2>3. Walk(Now, disk, <<>>, disk) /\ <<>> \in Seq(Effects) /\ Fair("cancelled")
    BY <2>2, NoWalk DEF Fair
  <2> QED BY <1>1, <1>3, <2>1, <2>2, <2>3, Finishes
<1> QED BY <1>2, <1>3 DEF Cancel

(* ---- the report --------------------------------------------------------------- *)
\* A report that is under way is finished.
LEMMA Reports ==
    ASSUME NEW c, NEW d \in Disks, NEW m \in RunState, Sound(c, d), Good(c, m, d), m.archive = 0,
           m.st["report"] \notin Complete, NEW n \in Version, n # 0, Keeps(c, d.state, m),
           Grows(d.state, m),
           NEW e, e = Put("report", [ver |-> n, told |-> Told(m)]),
           NEW s, s = Succeeded(m, "report", n), ~Succ(d.state, "report")
    PROVE  /\ s \in RunState /\ s.st = [m.st EXCEPT !["report"] = "succeeded"]
           /\ s.correct = m.correct
           /\ <<e, Save(s)>> \in Seq(Effects)
           /\ \E z \in Disks : /\ Walk(c, d, <<e, Save(s)>>, z) /\ z.state = s
                               /\ z.draft = d.draft /\ z.tree = d.tree
<1> DEFINE v == [ver |-> n, told |-> Told(m)]
           y == Written(d, e)
           z == Holding(y, s)
<1>1. Told(m) \in [Stage \ {"report"} -> Status]
  BY DEF Told, RunState
<1>2. v \in ReportFile /\ v.ver = n /\ v.told = Told(m) /\ e = Put("report", v)
  BY <1>1 DEF ReportFile
<1> HIDE DEF v
<1>3. e \in Effects
  BY <1>2, EffectIs
<1>4. Only(d, y, "report") /\ y.report = v
  <2>1. Only(d, y, "report") /\ y["report"] = v
    BY <1>2, <1>3, PutIs DEF Files
  <2> QED BY <2>1 DEF Only
<1>5. /\ ~Succ(m, "report") /\ Trees(d) <= c.turn /\ d.state \in RunState /\ Good(c, d.state, d)
  BY FileTypes DEF Succ, Complete, Sound
<1>6. Good(c, m, y) /\ Good(c, d.state, y) /\ Trees(y) = Trees(d)
  BY <1>4, <1>5, GoodReport
<1>7. Leads(c, d, e, y) /\ y \in Disks /\ y.state = d.state
  <2>1. "report" \in Files \ {"state"} /\ "report" # "consent"
    BY DEF Files
  <2>2. Good(c, d.state, Written(d, Put("report", v))) /\ Trees(Written(d, Put("report", v))) <= c.turn
    BY <1>2, <1>5, <1>6
  <2> QED BY <1>2, <1>3, <2>1, <2>2, Puts
<1>8. y.draft = d.draft /\ y.tree = d.tree
  BY <1>4 DEF Only, Files
<1> HIDE DEF y
<1>9. s \in RunState /\ Good(c, s, y) /\ Grows(m, s)
  <2>1. Made(m, y, "report", n)
    BY <1>2, <1>4 DEF Made, Artifact
  <2>2. Ready(m, y, "report")
    BY DEF Ready, LeanStage
  <2> QED BY <1>5, <1>6, <1>7, <2>1, <2>2, Records
<1>10. s.st = [m.st EXCEPT !["report"] = "succeeded"] /\ s.correct = m.correct
  BY DEF Succeeded, RunState
<1>11. Keeps(c, y.state, s)
  BY <1>7, <1>9, GrowsIs
<1>12. Leads(c, y, Save(s), z) /\ Only(y, z, "state") /\ z \in Disks /\ z.state = s
  BY <1>5, <1>6, <1>7, <1>9, <1>11, Saves
<1>13. z.draft = d.draft /\ z.tree = d.tree
  BY <1>8, <1>12 DEF Only, Files
<1> HIDE DEF z
<1>14. <<e, Save(s)>> \in Seq(Effects) /\ Walk(c, d, <<e, Save(s)>>, z)
  BY <1>7, <1>12, WalkTwo
<1> QED BY <1>9, <1>10, <1>12, <1>13, <1>14

\* With the report done, what is left is what was left beside it.
LEMMA Closes ==
    ASSUME NEW m \in RunState, NEW d \in Disks, NEW how, Smooth("report", m, d, how), ~ConsentBroken(m),
           disk = d, NEW s, s.st = [m.st EXCEPT !["report"] = "succeeded"], s.correct = m.correct,
           NEW z, z.state = s, z.draft = d.draft, z.tree = d.tree
    PROVE  Smooth("off", s, z, "done")
<1>1. m.st \in [Stage -> Status]
  BY DEF RunState
<1>2. \A x \in Stage : s.st[x] = IF x = "report" THEN "succeeded" ELSE m.st[x]
  BY <1>1
<1>3. CASE Unfinished(m.st) \subseteq LeanStage \cup {"report"}
  <2>1. Unfinished(s.st) \subseteq LeanStage
    BY <1>2, <1>3 DEF Unfinished, Complete
  <2> QED BY <2>1 DEF Smooth
<1>4. CASE Handled(m, d)
  <2>1. Stuck(m, d)
    BY <1>4 DEF Handled, ConsentBroken
  <2>2. s.st["manuscript"] = m.st["manuscript"]
    BY <1>2, StageFacts
  <2>3. Stuck(s, z)
    BY <2>1, <2>2 DEF Stuck
  <2> QED BY <2>3 DEF Smooth
<1> QED BY <1>3, <1>4 DEF Smooth

LEMMA WriteReportStep ==
    ASSUME IInv, WriteReport
    PROVE  IInv' /\ disk' = disk
<1> DEFINE r == With(mem, "report", "running")
           s == Succeeded(mem, "report", turn)
           e == Reported(mem)
           y == Holding(disk, r)
<1>1. /\ pc = "report" /\ queue = <<>> /\ ~ConsentBroken(mem) /\ mem.st["report"] \in Startable
      /\ Ends("done", s, <<Save(r), e, Save(s)>>) /\ Quiet /\ disk' = disk
  BY DEF WriteReport, At, Ends
<1>2. /\ disk \in Disks /\ mem \in RunState /\ Sound(Now, disk) /\ Good(Now, mem, disk)
      /\ disk.state = mem /\ mem.archive = 0 /\ ~Succ(mem, "report")
      /\ Trees(disk) <= Now.turn /\ turn \in Version /\ turn # 0
      /\ (Plain => Smooth(pc, mem, disk, end))
  BY <1>1, AtStage
<1>3. mem.st["report"] \notin Complete
  BY <1>1, <1>2, StatusIs, StageFacts
<1>4. r \in RunState /\ Good(Now, r, disk) /\ Grows(mem, r)
  <2>1. "report" \in Stage /\ "running" \in Active /\ Ready(mem, disk, "report")
    BY StageFacts DEF Active, Ready, LeanStage
  <2> QED BY <1>2, <1>3, <2>1, Busy
<1>5. r.st = [mem.st EXCEPT !["report"] = "running"] /\ mem.st \in [Stage -> Status]
  BY <1>2 DEF With, RunState
<1> HIDE DEF r
<1>6. /\ Leads(Now, disk, Save(r), y) /\ Only(disk, y, "state") /\ y \in Disks /\ y.state = r
      /\ Sound(Now, y)
  <2>1. Keeps(Now, disk.state, r)
    BY <1>2, <1>4, GrowsIs
  <2>2. Leads(Now, disk, Save(r), y) /\ Only(disk, y, "state") /\ y \in Disks /\ y.state = r
    BY <1>2, <1>4, <2>1, Saves
  <2> QED BY <2>2 DEF Leads
<1>7. y.draft = disk.draft /\ y.tree = disk.tree
  BY <1>6 DEF Only, Files
<1> HIDE DEF y
<1>8. Good(Now, mem, y)
  BY <1>2, <1>6, GoodElsewhere
<1>9. \A x \in Stage : r.st[x] = IF x = "report" THEN "running" ELSE mem.st[x]
  BY <1>5
<1>10. Grows(r, mem) /\ Keeps(Now, r, mem) /\ ~Succ(r, "report")
  BY <1>9, StageFacts DEF Grows, Keeps, Succ
<1>11. /\ s \in RunState /\ s.st = [mem.st EXCEPT !["report"] = "succeeded"]
       /\ s.correct = mem.correct
       /\ <<e, Save(s)>> \in Seq(Effects)
       /\ \E z \in Disks : /\ Walk(Now, y, <<e, Save(s)>>, z) /\ z.state = s
                           /\ z.draft = y.draft /\ z.tree = y.tree
  <2>1. e = Put("report", [ver |-> turn, told |-> Told(mem)])
    BY DEF Reported
  <2> QED BY <1>2, <1>3, <1>6, <1>8, <1>10, <2>1, Reports
<1>12. PICK z \in Disks : /\ Walk(Now, y, <<e, Save(s)>>, z) /\ z.state = s
                          /\ z.draft = y.draft /\ z.tree = y.tree
  BY <1>11
<1>13. e \in Effects /\ Save(s) \in Effects /\ Save(r) \in Effects
  <2>1. Told(mem) \in [Stage \ {"report"} -> Status]
    BY <1>2 DEF Told, RunState
  <2>2. [ver |-> turn, told |-> Told(mem)] \in ReportFile
    BY <1>2, <2>1 DEF ReportFile
  <2> QED BY <1>4, <1>11, <2>2, EffectIs DEF Save, Reported
<1> HIDE DEF s, e
<1>14. /\ <<Save(r), e, Save(s)>> \in Seq(Effects)
       /\ Walk(Now, disk, <<Save(r), e, Save(s)>>, z)
  <2>1. <<Save(r)>> \o <<e, Save(s)>> = <<Save(r), e, Save(s)>>
    BY <1>13, Tuples
  <2>2. y = Written(disk, Save(r)) /\ Fits(Now, disk, y)
    BY <1>6 DEF Leads
  <2>3. /\ Fits(Now, disk, Written(disk, Save(r)))
        /\ Walk(Now, Written(disk, Save(r)), <<e, Save(s)>>, z)
    BY <1>12, <2>2
  <2>4. /\ <<Save(r)>> \o <<e, Save(s)>> \in Seq(Effects)
        /\ Walk(Now, disk, <<Save(r)>> \o <<e, Save(s)>>, z)
    BY <1>2, <1>11, <1>13, <2>3, WalkCons
  <2> QED BY <2>1, <2>4
<1>15. Plain => Smooth("off", s, z, "done")
  <2>1. z.draft = disk.draft /\ z.tree = disk.tree
    BY <1>7, <1>12
  <2>2. Plain => Smooth("report", mem, disk, end)
    BY <1>1, <1>2
  <2> QED BY <1>1, <1>2, <1>11, <1>12, <2>1, <2>2, Closes
<1>16. Fair("done")
  BY DEF Fair
<1> QED BY <1>1, <1>11, <1>12, <1>14, <1>15, <1>16, Finishes

LEMMA ReportRefusedStep ==
    ASSUME IInv, ReportRefused
    PROVE  IInv' /\ disk' = disk
<1> DEFINE how == IF ~Verified(mem) THEN "artifact changed"
                  ELSE IF ConsentBroken(mem) THEN "consent lost" ELSE "report running"
<1>1. /\ pc = "report" /\ queue = <<>> /\ Ends(how, mem, <<>>) /\ Quiet /\ disk' = disk
      /\ ~Verified(mem) \/ ConsentBroken(mem) \/ mem.st["report"] = "running"
  BY DEF ReportRefused, At, Ends
<1>2. /\ disk \in Disks /\ mem \in RunState /\ Good(Now, mem, disk)
      /\ <<>> \in Seq(Effects) /\ Walk(Now, disk, <<>>, disk)
      /\ (Plain => Smooth(pc, mem, disk, end))
  BY <1>1, AtStage
<1>3. Verified(mem)
  BY <1>2, VerifiedIs DEF Good
<1>4. CASE ConsentBroken(mem)
  <2>1. how = "consent lost"
    BY <1>3, <1>4
  <2>2. Now.forced
    BY <1>2, <1>4 DEF Good, Agreed, ConsentBroken
  <2>3. Fair("consent lost")
    BY <2>2 DEF Fair, Now
  <2>4. Smooth("off", mem, disk, "consent lost")
    BY DEF Smooth
  <2> QED BY <1>1, <1>2, <2>1, <2>3, <2>4, Finishes
<1>5. CASE ~ConsentBroken(mem)
  <2>1. how = "report running" /\ mem.st["report"] = "running"
    BY <1>1, <1>3, <1>5
  <2>2. Fair("report running")
    BY DEF Fair
  <2>3. ~Plain
    <3>1. ~Smooth("report", mem, disk, end)
      BY <2>1, StageFacts DEF Smooth, Awaits
    <3> QED BY <1>1, <1>2, <3>1
  <2> QED BY <1>1, <1>2, <2>1, <2>2, <2>3, Finishes
<1> QED BY <1>4, <1>5

LEMMA ReportFailsStep ==
    ASSUME IInv, ReportFails
    PROVE  IInv' /\ disk' = disk
<1> DEFINE s == With(mem, "report", "running")
           z == Holding(disk, s)
<1>1. /\ pc = "report" /\ queue = <<>> /\ mem.st["report"] \in Startable
      /\ Ends("report running", s, <<Save(s)>>) /\ Upset /\ disk' = disk
  BY DEF ReportFails, At, Ends
<1>2. /\ disk \in Disks /\ mem \in RunState /\ Sound(Now, disk) /\ Good(Now, mem, disk)
      /\ disk.state = mem /\ mem.archive = 0 /\ ~Succ(mem, "report")
  BY <1>1, AtStage
<1>3. s \in RunState /\ Good(Now, s, disk) /\ Grows(mem, s)
  <2>1. "report" \in Stage /\ "running" \in Active /\ Ready(mem, disk, "report")
    BY StageFacts DEF Active, Ready, LeanStage
  <2>2. mem.st["report"] \notin Complete
    BY <1>1, <1>2, <2>1, StatusIs
  <2> QED BY <1>2, <2>1, <2>2, Busy
<1> HIDE DEF s
<1>4. <<Save(s)>> \in Seq(Effects) /\ z \in Disks /\ Walk(Now, disk, <<Save(s)>>, z)
  <2>1. Keeps(Now, disk.state, s)
    BY <1>2, <1>3, GrowsIs
  <2> QED BY <1>2, <1>3, <2>1, SaveOne
<1> HIDE DEF z
<1>5. Fair("report running")
  BY DEF Fair
<1> QED BY <1>1, <1>3, <1>4, <1>5, Finishes

LEMMA RewriteStep ==
    ASSUME IInv, Rewrite
    PROVE  IInv' /\ disk' = disk
<1> DEFINE s == Succeeded(mem, "report", turn)
           e == Reported(mem)
<1>1. pc = "rewriting" /\ queue = <<>> /\ Ends("done", s, <<e, Save(s)>>) /\ Quiet /\ disk' = disk
  BY DEF Rewrite, At, Ends
<1>2. /\ disk \in Disks /\ mem \in RunState /\ Sound(Now, disk) /\ Good(Now, mem, disk)
      /\ disk.state = mem /\ mem.archive = 0 /\ ~Succ(mem, "report") /\ turn \in Version /\ turn # 0
      /\ Stands(Now, pc, mem, disk) /\ Now.cmd = cmd
  BY <1>1, AtStage
<1>3. mem.st["report"] = "running" /\ cmd.kind = "rewrite"
  BY <1>1, <1>2 DEF Stands
<1>4. /\ s \in RunState /\ <<e, Save(s)>> \in Seq(Effects)
      /\ \E z \in Disks : Walk(Now, disk, <<e, Save(s)>>, z)
  <2>1. e = Put("report", [ver |-> turn, told |-> Told(mem)])
    BY DEF Reported
  <2>2. mem.st["report"] \notin Complete
    BY <1>3 DEF Complete
  <2>3. Keeps(Now, disk.state, mem) /\ Grows(disk.state, mem)
    BY <1>2, KeepsSame DEF Grows
  <2> QED BY <1>2, <2>1, <2>2, <2>3, Reports
<1>5. ~Plain /\ Fair("done")
  BY <1>3 DEF Plain, Fair
<1> QED BY <1>1, <1>4, <1>5, Finishes

LEMMA RewriteFailsStep ==
    ASSUME IInv, RewriteFails
    PROVE  IInv' /\ disk' = disk
<1> DEFINE s == With(mem, "report", "failed")
           z == Holding(disk, s)
<1>1. /\ pc = "rewriting" /\ queue = <<>> /\ Ends("rewrite failed", s, <<Save(s)>>) /\ Upset
      /\ disk' = disk
  BY DEF RewriteFails, At, Ends
<1>2. /\ disk \in Disks /\ mem \in RunState /\ Sound(Now, disk) /\ Good(Now, mem, disk)
      /\ disk.state = mem /\ mem.archive = 0 /\ ~Succ(mem, "report")
      /\ Stands(Now, pc, mem, disk)
  BY <1>1, AtStage
<1>3. s \in RunState /\ Good(Now, s, disk) /\ Grows(mem, s)
  <2>1. "report" \in Stage /\ "failed" \in Active /\ Ready(mem, disk, "report")
    BY StageFacts DEF Active, Ready, LeanStage
  <2>2. mem.st["report"] \notin Complete
    BY <1>1, <1>2 DEF Stands, Complete
  <2> QED BY <1>2, <2>1, <2>2, Busy
<1> HIDE DEF s
<1>4. <<Save(s)>> \in Seq(Effects) /\ z \in Disks /\ Walk(Now, disk, <<Save(s)>>, z)
  <2>1. Keeps(Now, disk.state, s)
    BY <1>2, <1>3, GrowsIs
  <2> QED BY <1>2, <1>3, <2>1, SaveOne
<1> HIDE DEF z
<1>5. Fair("rewrite failed")
  BY DEF Fair
<1> QED BY <1>1, <1>3, <1>4, <1>5, Finishes

LEMMA StutterStep ==
    ASSUME IInv, UNCHANGED vars
    PROVE  IInv' /\ disk' = disk
<1>1. /\ disk' = disk /\ queue' = queue /\ mem' = mem /\ pc' = pc /\ cmd' = cmd /\ turn' = turn
      /\ upsets' = upsets /\ calm' = calm /\ forced' = forced /\ end' = end
  BY DEF vars
<1>2. Now' = Now /\ (Plain' <=> Plain)
  BY <1>1, Zenon DEF Now, Plain
<1>3. Typed' /\ Asked' /\ RefusedOnlyAfterForce'
  BY <1>1, <1>2 DEF IInv, Typed, Asked, RefusedOnlyAfterForce
<1>4. Journey'
  BY <1>1, <1>2 DEF IInv, Journey
<1> QED BY <1>1, <1>3, <1>4 DEF IInv

(* ---- every step --------------------------------------------------------------- *)
LEMMA StepIs ==
    ASSUME IInv, [Next]_vars
    PROVE  IInv' /\ (disk' = disk \/ Fits(Now, disk, disk'))
<1>1. CASE Write
  BY <1>1, WriteStep
<1>2. CASE Resume \/ SwitchBackend \/ ForceStage \/ Report
  BY <1>2, CommandStep
<1>3. CASE Load
  BY <1>3, LoadStep
<1>4. CASE PlanForced
  BY <1>4, PlanForcedStep
<1>5. CASE PlanResume
  BY <1>5, PlanResumeStep
<1>6. CASE PlanRegenerate
  BY <1>6, PlanRegenerateStep
<1>7. CASE PlanRewrite
  BY <1>7, PlanRewriteStep
<1>8. CASE KeepBackend
  BY <1>8, KeepBackendStep
<1>9. CASE Migrate
  BY <1>9, MigrateStep
<1>10. CASE StartPrompt
  BY <1>10, StartPromptStep
<1>11. CASE KeepPrompt
  BY <1>11, KeepPromptStep
<1>12. CASE Compile
  BY <1>12, CompileStep
<1>13. CASE StartResearch
  BY <1>13, StartResearchStep
<1>14. CASE Research
  BY <1>14, ResearchStep
<1>15. CASE PauseResearch
  BY <1>15, PauseResearchStep
<1>16. CASE KeepResearch
  BY <1>16, KeepResearchStep
<1>17. CASE FinishAudit
  BY <1>17, FinishAuditStep
<1>18. CASE StartManuscript
  BY <1>18, StartManuscriptStep
<1>19. CASE KeepManuscript
  BY <1>19, KeepManuscriptStep
<1>20. CASE WriteManuscript
  BY <1>20, WriteManuscriptStep
<1>21. CASE AskConsent
  BY <1>21, AskConsentStep
<1>22. CASE ReuseConsent
  BY <1>22, ReuseConsentStep
<1>23. CASE ConsentLost
  BY <1>23, ConsentLostStep
<1>24. CASE AnswerConsent
  BY <1>24, AnswerConsentStep
<1>25. CASE StartLean
  BY <1>25, StartLeanStep
<1>26. CASE Prove
  BY <1>26, ProveStep
<1>27. CASE KeepLean
  BY <1>27, KeepLeanStep
<1>28. CASE BeginRefused
  BY <1>28, BeginRefusedStep
<1>29. CASE BoundaryClosed
  BY <1>29, BoundaryClosedStep
<1>30. CASE StageFails
  BY <1>30, StageFailsStep
<1>31. CASE Explain
  BY <1>31, ExplainStep
<1>32. CASE Cancel
  BY <1>32, CancelStep
<1>33. CASE Crash
  BY <1>33, CrashStep
<1>34. CASE WriteReport
  BY <1>34, WriteReportStep
<1>35. CASE ReportRefused
  BY <1>35, ReportRefusedStep
<1>36. CASE ReportFails
  BY <1>36, ReportFailsStep
<1>37. CASE Rewrite
  BY <1>37, RewriteStep
<1>38. CASE RewriteFails
  BY <1>38, RewriteFailsStep
<1>39. CASE UNCHANGED vars
  BY <1>39, StutterStep
<1> QED
  BY <1>1, <1>2, <1>3, <1>4, <1>5, <1>6, <1>7, <1>8, <1>9, <1>10, <1>11, <1>12, <1>13, <1>14,
     <1>15, <1>16, <1>17, <1>18, <1>19, <1>20, <1>21, <1>22, <1>23, <1>24, <1>25, <1>26, <1>27,
     <1>28, <1>29, <1>30, <1>31, <1>32, <1>33, <1>34, <1>35, <1>36, <1>37, <1>38, <1>39 DEF Next

LEMMA InvariantHolds == Spec => []IInv
<1>1. Init => IInv
  BY Starting
<1>2. IInv /\ [Next]_vars => IInv'
  BY StepIs
<1> QED BY <1>1, <1>2, PTL DEF Spec

(* ---- the results -------------------------------------------------------------- *)
LEMMA InvariantTypes ==
    ASSUME IInv
    PROVE  TypeOK
<1>1. /\ disk \in Disks /\ queue \in Seq(Effects) /\ mem \in RunState /\ pc \in Places
      /\ cmd \in [kind : Commands, force : Forceable \cup {"none"}, provider : Providers \cup {"keep"}]
      /\ turn \in 1..MaxCommands /\ upsets \in 0..MaxUpsets /\ calm \in BOOLEAN /\ forced \in BOOLEAN
  BY DEF IInv, Typed
<1>2. /\ disk.state \in RunState /\ disk.prompt.ver \in Version /\ disk.tree.archived \in Version
      /\ disk.tree.live.ver \in Version /\ disk.tree.live.from \in Version
      /\ disk.draft.ver \in Version /\ disk.lean.ver \in Version
      /\ disk.consent \in {"none", "yes", "no"} /\ disk.config \in Providers
      /\ disk.graph.research \in Outcomes \cup {"none", "paused"}
  BY <1>1 DEF Disks, PromptFile, TreeFile, DraftFile, LeanFile, Consents, Entries
<1>3. \A i \in DOMAIN queue : queue[i].field \in DOMAIN disk
  <2>1. \A i \in DOMAIN queue : queue[i] \in Effects
    BY <1>1, ElementOfSeq, LenProperties
  <2> QED BY <1>1, <2>1, WrittenIsDisk
<1> QED BY <1>1, <1>2, <1>3 DEF TypeOK, Places

LEMMA InvariantOutputs ==
    ASSUME IInv
    PROVE  OutputsAreCurrent
<1>1. PICK z \in Disks : Walk(Now, disk, queue, z)
  BY DEF IInv, Journey
<1>2. disk \in Disks /\ queue \in Seq(Effects)
  BY DEF IInv, Typed
<1>3. Good(Now, disk.state, disk)
  BY <1>1, <1>2, WalkStart DEF Sound
<1>4. \A x \in Stage : Done(x) => disk.state.rec[x] = Artifact(disk, x)
  BY <1>3 DEF Good, Filed, Stored, Done
<1>5. /\ Artifact(disk, "prompt") = disk.prompt.ver
      /\ Artifact(disk, "research") = disk.tree.live.ver
      /\ Artifact(disk, "manuscript") = disk.draft.ver
      /\ Artifact(disk, "feasibility") = disk.lean.ver
  BY DEF Artifact
<1> QED BY <1>3, <1>4, <1>5, StageFacts DEF OutputsAreCurrent, Good, Filed, Stored, Done

LEMMA InvariantFinishes ==
    ASSUME IInv
    PROVE  CalmResumeFinishes
<1> SUFFICES ASSUME Idle, Plain
             PROVE  \/ Unfinished(disk.state.st) \subseteq LeanStage
                    \/ end \in {"consent lost", "intent overtaken"}
                    \/ StuckInCorrection
  BY DEF CalmResumeFinishes, Plain
<1>1. Smooth("off", mem, disk, end)
  BY AtRest DEF Idle
<1>2. Stuck(disk.state, disk) => StuckInCorrection
  BY DEF Stuck, StuckInCorrection, Correctable
<1> QED BY <1>1, <1>2 DEF Smooth

\* Type correctness, for any number of commands and of things that go wrong.
THEOREM TypeCorrect == Spec => []TypeOK
<1>1. IInv => TypeOK
  BY InvariantTypes
<1> QED BY <1>1, InvariantHolds, PTL

\* Every checkpoint on disk stands for the file it recorded, that file was made
\* from the present file of the stage before it, and a finished report tells the
\* present statuses: at every moment, between any two durable writes of any
\* sequence of commands (application.py 1728-1751, 903-1011; state.py 243-286).
THEOREM CheckpointsAreCurrent == Spec => []OutputsAreCurrent
<1>1. IInv => OutputsAreCurrent
  BY InvariantOutputs
<1> QED BY <1>1, InvariantHolds, PTL

\* No command is refused for an ambiguous archive or a changed artifact, and none
\* for a lost consent or an overtaken migration before something was forced
\* (application.py 1953-1984, 1120-1125, 1840-1878; state.py 369-373).
THEOREM NoneRefused == Spec => []RefusedOnlyAfterForce
<1>1. IInv => RefusedOnlyAfterForce
  BY DEF IInv
<1> QED BY <1>1, InvariantHolds, PTL

\* One plain resume in which nothing goes wrong leaves no stage to resume but Lean
\* stages that failed, whatever happened before it; it can only be held up by a
\* consent or a migration a forced command spoilt, or by a bibliography
\* correction that has no draft to start from (application.py 976-1011, 1310-1380).
THEOREM OneCalmResumeFinishes == Spec => []CalmResumeFinishes
<1>1. IInv => CalmResumeFinishes
  BY InvariantFinishes
<1> QED BY <1>1, InvariantHolds, PTL

\* What one step may do to the checkpoints and to the answer about Lean.
Spared ==
    /\ \A stage \in Stage :
          Done(stage) /\ disk'.state.st[stage] # "succeeded" =>
              \/ cmd.force # "none" /\ stage \in Downstream(Boundary(cmd.force))
              \/ cmd.kind = "resume" /\ cmd.force = "none" /\ Reopens(stage)
              \/ cmd.kind \in {"regenerate", "rewrite"} /\ stage = "report"
    /\ disk.consent # "none" /\ disk'.consent # disk.consent =>
          disk.state.consent = "none" \/ ForcesConsent

\* No durable write takes a checkpoint away unless the command forced it, and none
\* the user's answer about Lean unless its stages are forced (application.py
\* 903-1011, 1076-1150, 1840-1917).
THEOREM NothingIsRedone == Spec => CheckpointsKept
<1>1. ASSUME IInv, [Next]_vars PROVE Spared
  <2>1. CASE disk' = disk
    BY <2>1 DEF Spared, Done
  <2>2. CASE Fits(Now, disk, disk')
    <3>1. /\ Keeps(Now, disk.state, disk'.state)
          /\ disk.consent # "none" /\ disk'.consent # disk.consent =>
                \/ disk.state.consent = "none"
                \/ Now.cmd.force \in {"manuscript", "bibliography"} \cup LeanStage
      BY <2>2 DEF Fits
    <3>2. Now.cmd = cmd
      BY DEF Now
    <3> QED BY <3>1, <3>2 DEF Spared, Keeps, Excused, Done, Reopens, ForcesConsent
  <2> QED BY <1>1, <2>1, <2>2, StepIs
<1>2. IInv /\ [Next]_vars => [Spared]_vars
  BY <1>1
<1>3. CheckpointsKept <=> [][Spared]_vars
  BY DEF CheckpointsKept, Spared
<1> QED BY <1>2, <1>3, InvariantHolds, PTL DEF Spec
=============================================================================
