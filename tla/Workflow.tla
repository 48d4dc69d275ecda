-------------------------------- MODULE Workflow --------------------------------
(*****************************************************************************)
(* The workflow runner (application.py): one command after another (run,      *)
(* resume, resume --force-stage, resume --backend, report, report --rewrite)  *)
(* drives a run through its stages, saving the run state between them.        *)
(*                                                                            *)
(* A step is the code between two awaits. What it does to durable storage is  *)
(* put into queue in the order of the code and written one effect at a time,  *)
(* so the process can die between any two writes; state.json is the atomic    *)
(* cell of module AtomicCell. An artifact is the number of the command that   *)
(* made it with the number of the artifact it was made from. The answers of   *)
(* the stages are choices. Left out: the budget, usage and status texts of    *)
(* the state, and the integrity check of the report's own certificate.        *)
(*****************************************************************************)
EXTENDS StageRecords, FiniteSets

CONSTANTS
    Options,         \* what a run may be asked for, of "full", "no_lean", "research_only"
    Providers,       \* model backends
    Forceable,       \* stages a command may force
    MaxCommands,     \* bound: commands given to the run
    MaxUpsets        \* bound: crashes, failures, cancellations, pauses and overrides

ASSUME WorkflowAssumption ==
    /\ Options \subseteq {"full", "no_lean", "research_only"} /\ Options # {}
    /\ Providers # {} /\ "keep" \notin Providers
    /\ Forceable \subseteq Stage
    /\ MaxCommands \in Nat \ {0} /\ MaxUpsets \in Nat

VARIABLES
    disk,      \* the files of the run and its knowledge graph
    queue,     \* durable effects still to be performed
    mem,       \* the RunState object of the process
    pc,        \* where the command is; "off" between commands
    cmd,       \* the command: [kind, force, provider]
    turn,      \* its number
    upsets,    \* how much went wrong or was overridden so far
    calm,      \* nothing of that kind since the command was given
    forced,    \* some command forced a stage or a rewrite
    end        \* how the last command ended

vars == <<disk, queue, mem, pc, cmd, turn, upsets, calm, forced, end>>

NoIntent == [to |-> "none", gen |-> 0]

Version  == 0..MaxCommands
Outcomes == {"accepted", "judged", "partial"}
LeanOutcomes == {"infeasible", "misaligned", "statement_only", "verified", "unverified", "unproved"}
Commands == {"run", "resume", "regenerate", "rewrite"}
Awaits   == {"compiling", "researching", "writing", "asking", "proving"}

RunState ==
    [st : [Stage -> Status], rec : [Stage -> Version],
     opt : {"full", "no_lean", "research_only"},
     consent : {"none", "yes", "no"},   \* lean_consent
     correct : BOOLEAN,                 \* resume_bibliography_correction
     archive : Version,                 \* target of pending_research_archive, or 0
     history : Version,                 \* length of research_generation_history
     replay : BOOLEAN,                  \* research_graph_replay
     gen : Nat,                         \* model_cache_generation
     intent : [to : Providers \cup {"none"}, gen : Nat]]   \* pending_backend_migration

TypeOK ==
    /\ disk.state \in RunState /\ mem \in RunState
    /\ disk.prompt.ver \in Version /\ disk.tree.archived \in Version
    /\ disk.tree.live.ver \in Version /\ disk.tree.live.from \in Version
    /\ disk.draft.ver \in Version /\ disk.lean.ver \in Version
    /\ disk.consent \in {"none", "yes", "no"} /\ disk.config \in Providers
    /\ disk.graph.research \in Outcomes \cup {"none", "paused"}
    /\ \A i \in DOMAIN queue : queue[i].field \in DOMAIN disk
    /\ pc \in Awaits \cup {"off", "load", "plan", "migrate", "prompt", "research", "audit",
                           "manuscript", "consent", "lean", "report", "explaining", "rewriting"}
    /\ cmd.kind \in Commands /\ cmd.force \in Forceable \cup {"none"}
    /\ cmd.provider \in Providers \cup {"keep"}
    /\ turn \in 1..MaxCommands /\ upsets \in 0..MaxUpsets /\ calm \in BOOLEAN /\ forced \in BOOLEAN

(* ---- durable effects ----------------------------------------------------- *)
Put(field, value) == [field |-> field, value |-> value]
Save(s) == Put("state", s)

\* A graph operation is applied once: its identity is the run, not the result.
Recorded(graph, entry, value) ==
    IF graph[entry] = "none" THEN [graph EXCEPT ![entry] = value] ELSE graph

Record(entry, value) == Put("graph", Recorded(disk.graph, entry, value))

Write ==
    /\ queue # <<>>
    /\ disk' = [disk EXCEPT ![Head(queue).field] = Head(queue).value]
    /\ queue' = Tail(queue)
    /\ UNCHANGED <<mem, pc, cmd, turn, upsets, calm, forced, end>>

At(place) == pc = place /\ queue = <<>>

\* The process goes on at place with run state s after the given effects.
Go(place, s, effects) ==
    /\ pc' = place /\ mem' = s /\ queue' = effects
    /\ UNCHANGED <<disk, cmd, turn, forced, end>>

Ends(how, s, effects) ==
    /\ pc' = "off" /\ mem' = s /\ queue' = effects /\ end' = how
    /\ UNCHANGED <<disk, cmd, turn, forced>>

Quiet == UNCHANGED <<upsets, calm>>
Upset == upsets < MaxUpsets /\ upsets' = upsets + 1 /\ calm' = FALSE

\* assert_recorded_artifacts
FileOf(stage) == CASE stage = "prompt"      -> disk.prompt.ver
                   [] stage = "research"    -> disk.tree.live.ver
                   [] stage = "manuscript"  -> disk.draft.ver
                   [] stage = "feasibility" -> disk.lean.ver
                   [] stage = "report"      -> disk.report.ver
                   [] OTHER                 -> 0

Verified(s) == \A stage \in Stage : s.rec[stage] \in {0, FileOf(stage)}

\* _existing_lean_consent raises
ConsentBroken(s) == s.consent # "none" /\ disk.consent # s.consent

\* What a report tells of the stages.
Told(s) == [x \in Stage \ {"report"} |-> s.st[x]]

NoTree == [ver |-> 0, from |-> 0, outcome |-> "none"]

Fresh(opt) ==
    [st |-> [x \in Stage |-> "pending"], rec |-> [x \in Stage |-> 0], opt |-> opt,
     consent |-> "none", correct |-> FALSE, archive |-> 0, history |-> 0, replay |-> FALSE,
     gen |-> 0, intent |-> NoIntent]

\* run_new: intake has saved a state that does not know the options yet.
Init ==
    /\ \E opt \in Options, provider \in Providers :
          /\ mem = Fresh(opt)
          /\ queue = <<Save(Fresh(opt))>>
          /\ disk = [state |-> Fresh("full"), prompt |-> [ver |-> 0, clear |-> TRUE],
                     tree |-> [live |-> NoTree, exists |-> FALSE, archived |-> 0],
                     draft |-> [ver |-> 0, from |-> 0, good |-> TRUE], lean |-> [ver |-> 0, from |-> 0, outcome |-> "none"],
                     consent |-> "none", report |-> [ver |-> 0, told |-> Told(Fresh("full"))],
                     config |-> provider,
                     graph |-> [research |-> "none", draft |-> "none", lean |-> "none"]]
    /\ pc = "prompt" /\ cmd = [kind |-> "run", force |-> "none", provider |-> "keep"]
    /\ turn = 1 /\ upsets = 0 /\ calm = TRUE /\ forced = FALSE /\ end = "none"

(* ---- commands ------------------------------------------------------------ *)
Issue(command) ==
    /\ At("off") /\ turn < MaxCommands
    /\ turn' = turn + 1
    /\ cmd' = command /\ pc' = "load" /\ end' = "none"
    /\ UNCHANGED <<disk, queue, mem>>

Resume ==
    /\ Issue([kind |-> "resume", force |-> "none", provider |-> "keep"])
    /\ calm' = TRUE /\ UNCHANGED <<upsets, forced>>

SwitchBackend ==
    \E provider \in Providers :
        /\ Issue([kind |-> "resume", force |-> "none", provider |-> provider])
        /\ Upset /\ UNCHANGED forced

ForceStage ==
    \E stage \in Forceable :
        /\ Issue([kind |-> "resume", force |-> stage, provider |-> "keep"])
        /\ Upset /\ forced' = TRUE

Report ==
    \E kind \in {"regenerate", "rewrite"} :
        /\ Issue([kind |-> kind, force |-> "none", provider |-> "keep"])
        /\ Upset /\ forced' = (forced \/ kind = "rewrite")

(* ---- resume: load, archive, plan ----------------------------------------- *)
\* _archive_research_generation: the intent, then the move, then the history.
Archived(s) == IF disk.tree.exists
               THEN [s EXCEPT !.archive = 0, !.history = disk.tree.archived + 1]
               ELSE s

MovedTree == [live |-> NoTree, exists |-> FALSE, archived |-> disk.tree.archived + 1]

\* Mutant of Moves: the directory is moved before the intent is durable.
MovesFirst(s) ==
    IF disk.tree.exists
    THEN <<Put("tree", MovedTree), Save([s EXCEPT !.archive = disk.tree.archived + 1]),
           Save(Archived(s))>>
    ELSE <<>>

Moves(s) ==
    IF disk.tree.exists
    THEN <<Save([s EXCEPT !.archive = disk.tree.archived + 1]), Put("tree", MovedTree),
           Save(Archived(s))>>
    ELSE <<>>

\* _recover_research_archive finishes a pending move from either side of it.
Load ==
    /\ At("load")
    /\ LET s == disk.state
           recovered == [s EXCEPT !.archive = 0, !.history = s.archive]
       IN IF s.archive = 0 THEN Go("plan", s, <<>>)
          ELSE IF disk.tree.exists /\ s.archive = disk.tree.archived + 1
          THEN Go("plan", recovered, <<Put("tree", MovedTree), Save(recovered)>>)
          ELSE IF ~disk.tree.exists /\ s.archive = disk.tree.archived
          THEN Go("plan", recovered, <<Save(recovered)>>)
          ELSE Ends("ambiguous archive", s, <<>>)
    /\ Quiet

Boundary(stage) == CASE stage = "audit"        -> "research"
                     [] stage = "bibliography" -> "manuscript"
                     [] stage \in LeanStage    -> "feasibility"
                     [] OTHER                  -> stage

\* The draft a forced bibliography correction would start from.
Correctable == disk.draft.ver # 0 /\ disk.draft.good

ForcedState(s) ==
    LET stage == cmd.force
        t == InvalidateFrom([s EXCEPT !.correct = @ \/ (stage = "bibliography" /\ Correctable)],
                            Boundary(stage))
    IN IF stage = "prompt" THEN t ELSE [t EXCEPT !.gen = @ + 1]

ForcesResearch == Boundary(cmd.force) \in {"prompt", "research"}
ForcesConsent  == cmd.force \in {"manuscript", "bibliography"} \cup LeanStage

\* --force-stage archives the research generation, or retires the Lean consent:
\* its file goes at once, its mark in the state with the next save.
PlanForced ==
    /\ At("plan") /\ cmd.force # "none"
    /\ LET s == ForcedState(mem)
           moved == Archived(s)
       IN IF ForcesConsent /\ ConsentBroken(s) THEN Ends("consent lost", s, <<>>)
          ELSE IF ~Verified(s) THEN Ends("artifact changed", s, <<>>)
          ELSE IF ForcesResearch
          THEN Go("migrate",
                  [moved EXCEPT !.replay = cmd.force = "prompt" /\ (@ \/ moved.history > 0)],
                  Moves(s))
          ELSE IF ForcesConsent
          THEN Go("migrate", [s EXCEPT !.consent = "none"],
                  IF s.consent = "none" THEN <<>> ELSE <<Put("consent", "none")>>)
          ELSE Go("migrate", s, <<>>)
    /\ Quiet

PlanResume ==
    /\ At("plan") /\ cmd.kind = "resume" /\ cmd.force = "none"
    /\ IF ~Verified(mem) THEN Ends("artifact changed", mem, <<>>)
       ELSE IF FirstIncomplete(Interrupted(mem).st) = "none" THEN Ends("done", mem, <<>>)
       ELSE Go("migrate", Prepared(mem), <<>>)
    /\ Quiet

(* ---- resume: the backend and its configuration --------------------------- *)
\* Mutant of Target: the pending migration is taken for granted.
TargetOfIntent == mem.intent.to

Target == IF mem.intent # NoIntent THEN mem.intent.to
          ELSE IF cmd.provider = "keep" THEN disk.config
          ELSE cmd.provider

Migrating == mem.intent # NoIntent \/ Target # disk.config

Intended == IF mem.intent # NoIntent THEN mem
            ELSE [mem EXCEPT !.intent = [to |-> Target, gen |-> mem.gen + 1]]

\* The configuration is written while the intent is still in the saved state.
Commit(s) == <<Save(s), Put("config", Target), Save([s EXCEPT !.intent = NoIntent])>>

KeepBackend ==
    /\ At("migrate") /\ ~Migrating
    /\ Go("prompt", mem, Commit(mem))
    /\ Quiet

\* Mutant of Renewed: migration invalidates finished research too.
RenewedAlways(s) == InvalidateFrom(s, "research")

\* Only a research scheduler that is not finished belongs to the old provider.
Renewed(s) == IF s.st["research"] \in Complete THEN s ELSE InvalidateFrom(s, "research")

Migrate ==
    /\ At("migrate") /\ Migrating
    /\ LET s == [Intended EXCEPT !.gen = Intended.intent.gen]
           t == Renewed(s)
           moved == IF s.st["research"] \in Complete THEN t ELSE Archived(t)
       IN IF cmd.provider \notin {"keep", Target} THEN Ends("other backend pending", mem, <<>>)
          ELSE IF mem.gen > Intended.intent.gen THEN Ends("intent overtaken", mem, <<>>)
          ELSE Go("prompt", [moved EXCEPT !.intent = NoIntent],
                  (IF mem.intent = NoIntent THEN <<Save(Intended)>> ELSE <<>>)
                  \o (IF s.st["research"] \in Complete THEN <<>> ELSE Moves(t))
                  \o Commit(moved))
    /\ Quiet

(* ---- stages -------------------------------------------------------------- *)
StageAt(place) == CASE place \in {"prompt", "compiling"}     -> "prompt"
                    [] place \in {"research", "researching"} -> "research"
                    [] place \in {"manuscript", "writing"}   -> "manuscript"
                    [] place \in {"lean", "proving"}         -> "feasibility"
                    [] OTHER                                 -> place

\* _begin: nothing to do, a saved start, or (a stage left running) an illegal
\* transition.
Begins(place) == At(place) /\ mem.st[StageAt(place)] \in Startable
Kept(place)   == At(place) /\ mem.st[StageAt(place)] \in Complete

Starts(place, await, effects) ==
    /\ Begins(place)
    /\ LET s == With(mem, StageAt(place), "running")
       IN Go(await, s, <<Save(s)>> \o effects)
    /\ Quiet

BeginRefused ==
    \E place \in {"prompt", "research", "audit", "manuscript", "lean"} :
        /\ At(place) /\ mem.st[StageAt(place)] = "running"
        /\ Go("explaining", mem, <<>>)
        /\ Quiet

\* A paid stage ends with budget.ensure_available, which may raise after all is saved.
Onwards(place, s, effects) ==
    \/ Go(place, s, effects) /\ Quiet
    \/ Go("explaining", s, effects) /\ Upset

\* The stages in skip stay out of this run: save, and report.
Skipping(s, skip) == SkipPending(s, skip)
AllButPrompt      == Stage \ {"prompt", "report"}
AllButResearch    == AllButPrompt \ {"research", "audit"}

StartPrompt == Starts("prompt", "compiling", <<>>)

KeepPrompt ==
    /\ Kept("prompt")
    /\ LET s == IF disk.prompt.clear THEN mem ELSE Skipping(mem, AllButPrompt)
       IN Go(IF disk.prompt.clear THEN "research" ELSE "report", s, <<Save(s)>>)
    /\ Quiet

Compile ==
    /\ At("compiling")
    /\ \E clear \in BOOLEAN :
          LET s == Succeeded(mem, "prompt", turn)
              t == IF clear THEN s ELSE Skipping(s, AllButPrompt)
          IN Onwards(IF clear THEN "research" ELSE "report", t,
                     <<Put("prompt", [ver |-> turn, clear |-> clear]), Save(s), Save(t)>>)

\* The research directory is created with a scheduler bound to the compiled problem.
StartResearch ==
    Starts("research", "researching",
           IF disk.tree.exists THEN <<>>
           ELSE <<Put("tree", [disk.tree EXCEPT !.exists = TRUE,
                                                !.live = [NoTree EXCEPT !.from = disk.prompt.ver]])>>)

\* A stage refuses inputs that are not its own: a scheduler of another problem,
\* a draft that cannot be corrected or belongs to another proof.
Refused ==
    \/ pc = "researching" /\ disk.tree.live.from # disk.prompt.ver
    \/ pc = "writing" /\ mem.correct /\ ~(Correctable /\ disk.draft.from = disk.tree.live.ver)

Researched(outcome) == Put("tree", [disk.tree EXCEPT !.live.ver = turn, !.live.outcome = outcome])

\* A scheduler that has its outcome returns it again.
Returns(outcome) == disk.tree.live.outcome \in {"none", outcome}

Research ==
    /\ At("researching") /\ ~Refused
    /\ \E outcome \in {o \in Outcomes : Returns(o)} :
          LET s == [Succeeded(mem, "research", turn) EXCEPT !.replay = FALSE]
          IN Go("audit", s, <<Researched(outcome), Record("research", outcome), Save(s)>>)
    /\ Quiet

\* A mandatory audit is unavailable, or the coordinator's context is too large.
PauseResearch ==
    /\ At("researching") /\ ~Refused /\ Returns("paused")
    /\ LET s == [With(mem, "research", "interrupted") EXCEPT !.replay = FALSE]
       IN Go("report", s, <<Record("research", "paused"), Save(s)>>)
    /\ Upset

KeepResearch ==
    /\ Kept("research")
    /\ Go("audit", mem, <<Record("research", disk.tree.live.outcome)>>)
    /\ Quiet

\* _finalize_research_audit
Audited(s) == IF disk.tree.live.outcome = "partial" THEN SkipPending(s, {"audit"})
              ELSE IF s.st["audit"] \in Startable THEN With(s, "audit", "succeeded")
              ELSE s

FinishAudit ==
    /\ At("audit") /\ ~(mem.st["audit"] = "running" /\ disk.tree.live.outcome # "partial")
    /\ LET began == disk.tree.live.outcome # "partial" /\ mem.st["audit"] \in Startable
           s == Audited(mem)
           goes == disk.tree.live.outcome = "accepted" /\ mem.opt # "research_only"
           t == IF goes THEN s ELSE Skipping(s, AllButResearch)
       IN Onwards(IF goes THEN "manuscript" ELSE "report", t,
                  (IF began THEN <<Save(With(mem, "audit", "running"))>> ELSE <<>>)
                  \o <<Save(s), Save(t)>>)

\* _validate_stage_boundary
Crosses(place) ==
    /\ At(place) /\ Verified(mem)
    /\ \A x \in (IF place = "manuscript" THEN {"research", "audit"}
                ELSE {"manuscript", "bibliography"}) : mem.st[x] = "succeeded"

BoundaryClosed ==
    /\ \E place \in {"manuscript", "consent"} : At(place) /\ ~Crosses(place)
    /\ Go("explaining", mem, <<>>)
    /\ Quiet

StartManuscript ==
    /\ Crosses("manuscript")
    /\ Starts("manuscript", "writing", <<>>)

\* Where the workflow goes with a draft: to the Lean question, unless the draft
\* has a terminating failure or Lean is not wanted.
AfterDraft(s, good) == IF good /\ s.opt = "full" THEN s ELSE Skipping(s, LeanStage)
AskNext(s, good)    == IF good /\ s.opt = "full" THEN "consent" ELSE "report"

KeepManuscript ==
    /\ Kept("manuscript") /\ Crosses("manuscript")
    /\ LET s == AfterDraft(mem, disk.draft.good)
       IN Go(AskNext(mem, disk.draft.good), s, <<Record("draft", "written"), Save(mem), Save(s)>>)
    /\ Quiet

WriteManuscript ==
    /\ At("writing") /\ ~Refused
    /\ \E good \in BOOLEAN :
          LET s == Succeeded(mem, "manuscript", turn)
              t == [With(s, "bibliography", "succeeded") EXCEPT !.correct = FALSE]
              u == AfterDraft(t, good)
          IN Onwards(AskNext(t, good), u,
                     <<Put("draft", [ver |-> turn, from |-> disk.tree.live.ver, good |-> good]),
                       Record("draft", "written"), Save(With(s, "bibliography", "running")),
                       Save(t), Save(u)>>)

\* _confirm_lean_after_manuscript: a durable answer is reused, otherwise the user is asked.
AskConsent ==
    /\ Crosses("consent")
    /\ ~ConsentBroken(mem) /\ mem.consent = "none"
    /\ Go("asking", mem, <<>>)
    /\ Quiet

Answered(s, answer, effects) ==
    IF answer = "yes" THEN Go("lean", s, effects)
    ELSE Go("report", Skipping(s, LeanStage), effects \o <<Save(Skipping(s, LeanStage))>>)

ReuseConsent ==
    /\ Crosses("consent")
    /\ ~ConsentBroken(mem) /\ mem.consent # "none"
    /\ Answered(mem, mem.consent, <<>>)
    /\ Quiet

ConsentLost ==
    /\ Crosses("consent") /\ ConsentBroken(mem)
    /\ Go("explaining", mem, <<>>)
    /\ Quiet

AnswerConsent ==
    /\ At("asking")
    /\ \E answer \in {"yes", "no"} :
          LET s == [mem EXCEPT !.consent = answer]
          IN Answered(s, answer, <<Put("consent", answer), Save(s)>>)
    /\ Quiet

StartLean == Starts("lean", "proving", <<>>)

\* _apply_lean_result: how each outcome settles the three later stages.
Settles(outcome) ==
    LET then(a, f, v) == [alignment |-> a, formalization |-> f, verification |-> v]
    IN CASE outcome = "infeasible"     -> then("skipped", "skipped", "skipped")
         [] outcome = "misaligned"     -> then("failed", "skipped", "skipped")
         [] outcome = "statement_only" -> then("succeeded", "skipped", "skipped")
         [] outcome = "verified"       -> then("succeeded", "succeeded", "succeeded")
         [] outcome = "unverified"     -> then("succeeded", "failed", "failed")
         [] outcome = "unproved"       -> then("succeeded", "failed", "skipped")

\* Each stage begins with a save; one left running stops the rest.
Settle(done, stage, final) ==
    LET now == done.s.st[stage]
    IN IF ~done.legal THEN done
       ELSE IF final = "skipped" THEN [done EXCEPT !.s = SkipPending(@, {stage})]
       ELSE IF now \in Complete THEN done
       ELSE IF now = "running" THEN [done EXCEPT !.legal = FALSE]
       ELSE [done EXCEPT !.s = With(@, stage, final),
                         !.saves = Append(@, Save(With(done.s, stage, "running")))]

Applied(s, outcome) ==
    LET then == Settles(outcome)
        aligned == Settle([s |-> s, saves |-> <<>>, legal |-> TRUE], "alignment", then.alignment)
        formal  == Settle(aligned, "formalization", then.formalization)
    IN Settle(formal, "verification", then.verification)

Apply(s, outcome, effects) ==
    LET done == Applied(s, outcome)
    IN IF done.legal THEN Onwards("report", done.s, effects \o Append(done.saves, Save(done.s)))
       ELSE Go("explaining", done.s, effects \o done.saves) /\ Quiet

Prove ==
    /\ At("proving")
    /\ \E outcome \in LeanOutcomes :
          Apply(Succeeded(mem, "feasibility", turn), outcome,
                <<Put("lean", [ver |-> turn, from |-> disk.draft.ver, outcome |-> outcome]),
                  Record("lean", outcome)>>)

KeepLean ==
    /\ Kept("lean")
    /\ Apply(mem, disk.lean.outcome, <<Record("lean", disk.lean.outcome)>>)

(* ---- the report, and how a command ends ---------------------------------- *)
Reported(s) == Put("report", [ver |-> turn, told |-> Told(s)])

WriteReport ==
    /\ At("report") /\ Verified(mem) /\ ~ConsentBroken(mem) /\ mem.st["report"] \in Startable
    /\ LET s == Succeeded(mem, "report", turn)
       IN Ends("done", s, <<Save(With(mem, "report", "running")), Reported(mem), Save(s)>>)
    /\ Quiet

\* The report raises: for the first two reasons also when the handler tries again.
ReportRefused ==
    /\ At("report")
    /\ ~Verified(mem) \/ ConsentBroken(mem) \/ mem.st["report"] = "running"
    /\ Ends(IF ~Verified(mem) THEN "artifact changed"
            ELSE IF ConsentBroken(mem) THEN "consent lost"
            ELSE "report running", mem, <<>>)
    /\ Quiet

\* Writing the report raises; the stage stays running and the handler's own
\* report is then an illegal transition.
ReportFails ==
    /\ At("report") /\ Verified(mem) /\ ~ConsentBroken(mem) /\ mem.st["report"] \in Startable
    /\ LET s == With(mem, "report", "running") IN Ends("report running", s, <<Save(s)>>)
    /\ Upset

\* The stage under way raises: because it refuses its input, or for a reason of its own.
StageFails ==
    /\ \E await \in Awaits \ {"asking"} : At(await)
    /\ LET s == With(mem, StageAt(pc), "failed") IN Go("explaining", s, <<Save(s)>>)
    /\ IF Refused THEN Quiet ELSE Upset

\* The best-effort explanation, then the state and a factual report.
Explain ==
    /\ At("explaining")
    /\ Go("report", mem, <<Save(mem)>>)
    /\ Quiet

\* Ctrl-C or the wall clock. In the explanation nothing handles it any more.
Cancel ==
    /\ \/ (\E await \in Awaits : At(await)) /\ Go("report", Interrupted(mem), <<Save(Interrupted(mem))>>)
       \/ (At("explaining") \/ At("rewriting")) /\ Ends("cancelled", mem, <<>>)
    /\ Upset

Crash ==
    /\ pc # "off" \/ queue # <<>>
    /\ pc' = "off" /\ queue' = <<>> /\ mem' = disk.state /\ end' = "crashed"
    /\ UNCHANGED <<disk, cmd, turn, forced>>
    /\ Upset

(* ---- matek report -------------------------------------------------------- *)
PlanRegenerate ==
    /\ At("plan") /\ cmd.kind = "regenerate"
    /\ LET s == InvalidateFrom(mem, "report")
       IN IF Verified(s) THEN Go("report", s, <<Save(s)>>) ELSE Ends("artifact changed", s, <<>>)
    /\ Quiet

PlanRewrite ==
    /\ At("plan") /\ cmd.kind = "rewrite"
    /\ LET s == [InvalidateFrom(mem, "report") EXCEPT !.gen = @ + 1]
           t == With(s, "report", "running")
       IN IF Verified(s) THEN Go("rewriting", t, <<Save(t)>>) ELSE Ends("artifact changed", s, <<>>)
    /\ Quiet

Rewrite ==
    /\ At("rewriting")
    /\ LET s == Succeeded(mem, "report", turn) IN Ends("done", s, <<Reported(mem), Save(s)>>)
    /\ Quiet

RewriteFails ==
    /\ At("rewriting")
    /\ LET s == With(mem, "report", "failed") IN Ends("rewrite failed", s, <<Save(s)>>)
    /\ Upset

Next ==
    \/ Write \/ Resume \/ SwitchBackend \/ ForceStage \/ Report
    \/ Load \/ PlanForced \/ PlanResume \/ PlanRegenerate \/ PlanRewrite \/ KeepBackend \/ Migrate
    \/ StartPrompt \/ KeepPrompt \/ Compile
    \/ StartResearch \/ Research \/ PauseResearch \/ KeepResearch \/ FinishAudit
    \/ StartManuscript \/ KeepManuscript \/ WriteManuscript
    \/ AskConsent \/ ReuseConsent \/ ConsentLost \/ AnswerConsent
    \/ StartLean \/ Prove \/ KeepLean
    \/ BeginRefused \/ BoundaryClosed \/ StageFails \/ Explain \/ Cancel \/ Crash
    \/ WriteReport \/ ReportRefused \/ ReportFails \/ Rewrite \/ RewriteFails

Spec == Init /\ [][Next]_vars

(* ---- properties ---------------------------------------------------------- *)
Idle == pc = "off" /\ queue = <<>>
Done(stage) == disk.state.st[stage] = "succeeded"

\* Every checkpoint on disk stands for the file it recorded, and that file was
\* made from the present file of the stage before it, whatever was forced,
\* archived, migrated, retried or died in between; a finished report tells the
\* present statuses (application.py 1728-1751, 903-1011; state.py 243-286).
OutputsAreCurrent ==
    /\ Done("prompt") => disk.prompt.ver = disk.state.rec["prompt"]
    /\ Done("research") => /\ disk.tree.live.ver = disk.state.rec["research"]
                           /\ disk.tree.live.ver # 0
                           /\ disk.tree.live.from = disk.prompt.ver
    /\ Done("manuscript") => /\ disk.draft.ver = disk.state.rec["manuscript"]
                             /\ disk.draft.from = disk.tree.live.ver
    /\ Done("feasibility") => /\ disk.lean.ver = disk.state.rec["feasibility"]
                              /\ disk.lean.from = disk.draft.ver
    /\ Done("report") => disk.report.told = Told(disk.state)

\* A command is never refused for an ambiguous archive or a changed artifact;
\* for a lost consent or an overtaken migration only if some command before it
\* was forced (application.py 1953-1984, 1120-1125, 1840-1878; state.py 369-373).
RefusedOnlyAfterForce ==
    /\ end \notin {"ambiguous archive", "artifact changed"}
    /\ end \in {"consent lost", "intent overtaken"} => forced

\* The correction of a draft that cannot be corrected is retried for ever.
StuckInCorrection ==
    /\ disk.state.correct /\ disk.state.st["manuscript"] \notin Complete
    /\ ~(Correctable /\ disk.draft.from = disk.tree.live.ver)

\* Whatever happened before, one plain resume in which nothing goes wrong leaves
\* no stage to resume but Lean stages that failed; the exceptions are those of
\* RefusedOnlyAfterForce and a bibliography correction that cannot start
\* (application.py 976-1011, 1310-1380).
CalmResumeFinishes ==
    Idle /\ calm /\ cmd.kind = "resume" =>
        \/ Unfinished(disk.state.st) \subseteq LeanStage
        \/ end \in {"consent lost", "intent overtaken"}
        \/ StuckInCorrection

\* What a plain resume may run again although it had succeeded: a composite stage
\* with an unfinished part, and the report of a state that changes.
Reopens(stage) ==
    \/ stage = "manuscript" /\ disk.state.st["bibliography"] \notin Complete
    \/ stage \in LeanStage /\ Unfinished(disk.state.st) \cap LeanStage # {}
    \/ stage = "report" /\ Unfinished(disk.state.st) # {}

\* No paid step repeats after a successful checkpoint unless forced, and the
\* user's answer about Lean is kept unless its stages are (application.py
\* 903-1011, 1076-1150, 1840-1917).
CheckpointsKept ==
    [][/\ \A stage \in Stage :
             Done(stage) /\ disk'.state.st[stage] # "succeeded" =>
                 \/ cmd.force # "none" /\ stage \in Downstream(Boundary(cmd.force))
                 \/ cmd.kind = "resume" /\ cmd.force = "none" /\ Reopens(stage)
                 \/ cmd.kind \in {"regenerate", "rewrite"} /\ stage = "report"
       /\ disk.consent # "none" /\ disk'.consent # disk.consent =>
             disk.state.consent = "none" \/ ForcesConsent]_vars

\* The manuscript is written from a graph in which the proof is accepted.
ManuscriptFromAcceptedGraph == Done("manuscript") => disk.graph.research = "accepted"
=============================================================================
