# Formal model of MATEK (matek-theorem-agent)

TLA+ modules, TLC configurations and TLAPS proofs for the parts of MATEK that
decide what a research run does: the workflow runner, the run-state file, the
accounting of paid calls, the actor loop of the research stage and its event
journal, the manuscript and the Lean stage, and the two stores of knowledge a report is admitted to: the run's typed
graph and the project's vault of notes. All line numbers are those of `src/src/matek_theorem_agent/`.

## 1. The system

A run takes a problem file through six stages (intake, prompt, research,
manuscript, Lean, report). One process owns a run (an flock), one asyncio loop
runs in it, and everything durable is a file replaced atomically. The research
stage is a program of its own: a coordinator (a model call) admits assignments,
workers (model calls, concurrent tasks) return reports, candidate proofs go
through an independent gate, and claimed refutations are audited.

| Component | State | Operations | Hard behaviour | Correct when |
|---|---|---|---|---|
| Event journal (`stages/research.py`, `persist_scheduler`, `append_event`, `record_execution_issue`, start-up 2698-2834) | `scheduler.json`, `events/*.json`, `issues/*.json`; the same state in memory | persist, append, record an issue, recover | crash between any two writes, a write that raises | events are gap-free, published once, acknowledged only when shown; every restart is accepted |
| Actor loop (`run_adaptive_research`, 10901-11336, and its local functions) | assignments, decisions, frozen request, pending/deferred candidates, attempt, stop, final outcome; tasks | decide, launch, collect, gate, arbitrate, finish, pause, drain | every order of worker results, results racing with cancellation, failing calls, restart | no candidate lost, no acceptance over an open refutation, outcome and stop stand, the loop ends |
| Run-state store (`state.py`) | `state.json`, `.tmp`, `.bak` | save, load | crash or failure between backup, temporary and rename; torn file | one durable cell |
| Stage lifecycle and workflow runner (`state.py`, `application.py`) | stage records, artifact hashes, metadata | begin, checkpoint, fail, interrupt, invalidate, resume | crash between stages, deadline, forced generation | a succeeded stage is not run again; a resume starts at the first incomplete one |
| Call accounting (`accounting.py`, `budget.py`, `logging.py`; `_TrackedModelClient`) | reservations, usage journal, cached results, call keys | reserve, call, journal, reconcile, replay | identical concurrent calls, cancellation, time-out racing an answer, crash after payment | a call is paid once, counted once, and reservations are given back once |
| Counterexample and lemma audits (`stages/research.py` 8660-9542, `counterexample_audit.py`, `lemma_audit.py`) | nomination, one response per role, gate, preserved gates; audit records of the scheduler | nominate, ask, judge, retry, supersede, record in the graph, verify at start-up | a role that fails, a crash between any two files, support that changes | nothing is trusted without both roles; a resume pays only for what is missing |
| Candidate gate (`stages/research.py`, `computation_artifacts.py`) | packages, audits, judgement, checkpoints | package, audit, judge | partial audits, resume | a verdict belongs to its frozen input |
| Scientific phase machine (`scientific_phase.py`) | snapshots, phase, counters | record progress, admit | thresholds | monotone history, bounded concurrency per phase |
| Knowledge graph of a run (`knowledge_graph/service.py`, `snapshots.py`) | notes, `graph-state.json`, pending transaction, revision manifests | open, reconcile, commit, recover | crash inside a commit, human edits, replay | revisions are a chain, a commit is all or nothing |
| Vault of the project (`knowledge_graph/semantic.py`) | semantic notes with their provenance marks, one transaction directory | admit a task or a finding, set a status, recover | crash inside an admission, titles that collide, other runs, human edits | what a run admitted is kept, once |
| Admission of a decision and of a report (`stages/research.py` 8300-8660) | decision and patch files, durable events | admit tasks, record a decision, accept a report | a crash between any two of four stores, then the replay | an accepted report is in both stores; a replay is accepted |
| Manuscript and Lean stages (`stages/manuscript.py`, `stages/lean.py`, `application.py` 2455-2806) | drafts, published TeX and PDF, result files, Lean tree, iteration records | write, audit, build, revise, correct, publish; state, place, ask, check, record, conclude | a crash between any two files, a resume that must find paid answers and proofs again, a forced stage | what is published is as built; what is verified is proved on disk; a proof on record is used |
| Ledger, targets, sources, context builder, backends, CLI | files and pure functions | - | mostly data | - |

How they interact: the workflow runner calls the stages in order and saves the
run state between them; the research stage calls the tracker, which calls the
accounting client, which calls a backend; the scheduler's `persist_scheduler`
copies the tracker's counters into its snapshot; accepted reports are merged
into the vault and the knowledge graph before the scheduler's snapshot knows
them.

## 2. The modules

| Module | Models |
|---|---|
| `EventStream` | Abstract: what the journal promises. Commit a change with its event, make it visible, acknowledge only what is visible. |
| `EventJournal` | The journal, one write of one file per action. |
| `MCEventJournal` | Its instance for TLC. |
| `EventJournalProofs` | Theorems about `EventJournal`. |
| `ResearchScheduler` | The actor loop; one action is the code between two awaits. |
| `MCResearchScheduler` | Its instance for TLC. |
| `AtomicCell` | Abstract: a durable cell that a save changes at one instant. |
| `StateStore` | `save_state_atomic` and `load_state`, one write or rename per action. |
| `MCStateStore` | Its instance for TLC (three texts and their redaction). |
| `StateStoreProofs` | Theorems about `StateStore`. |
| `CallLedger` | Abstract: a ledger in which a call is sold at most once and booked at most once. |
| `CallAccounting` | The accounting client, the budget, the usage journal and the research call tracker; one action is the code between two awaits or two file writes. |
| `MCCallAccounting` | Its instance for TLC (two callers, two keys). |
| `CallAccountingProofs` | Theorems about `CallAccounting`. |
| `StageRecords` | Pure operators: the order and the legal transitions of the stages, `prepare_for_resume` (`Prepared`), `invalidate_from`, `interrupt_running_stages`, `first_incomplete_stage`. |
| `Workflow` | The workflow runner, one durable effect at a time. |
| `MCWorkflow` | Its instance for TLC (symmetric backends). |
| `WorkflowProofs` | Theorems about `Workflow` and `StageRecords`. |
| `ManuscriptDrafts` | The manuscript stage: drafts, audits, builds, revision rounds, selection, publication, correction. |
| `LeanPipeline` | The Lean stage, on top of it: statement, sources, Codex iterations, checks, records, verdict. |
| `LateStages` | Both under the runner's commands: first run, resumes, forced stages, what goes wrong. |
| `MCLateStages` | Its instance for TLC (symmetric statements). |
| `LateStagesProofs` | Theorems about `LateStages`. |
| `GraphRevisions` | Abstract: a chain of operations, and the newest revision of it that is published. |
| `GraphStore` | The typed graph of a run: one commit is its intent, each note, each removal, the state file, the snapshot, the removal of the intent. |
| `SemanticVault` | The project's notes: one admission is its staged transaction, the replacement, the clean-up. |
| `ReportAdmission` | The run that calls both stores, from its start through one decision to its last accepted report. |
| `MCReportAdmission` | Its instance for TLC (four nodes, two assignments). |
| `ReportAdmissionProofs` | Theorems about `ReportAdmission`, its graph and its vault. |
| `RoleAudits` | The refutation and the lemma of one report: nomination, the two roles, gate, record, graph, retry, start-up. |
| `MCRoleAudits` | Its instance for TLC (symmetric roles and contents). |
| `RoleAuditsProofs` | Theorems about `RoleAudits`. |
| `GatedScheduler` | The actor loop with the gate of a candidate in detail: packager, sources, parallel audits, judge, over restarts that may change the configuration. |
| `MCGatedScheduler` | Its instance for TLC (three configurations). |
| `GatedSchedulerProofs` | Theorems about `ResearchScheduler` and `GatedScheduler`. |

The split between the first two components is by granularity. `EventJournal`
has the windows *inside* a persist and abstracts what a change means to a
report, an issue or a decision. `ResearchScheduler` takes a persist as atomic,
so that a crash in it loses exactly the tasks and the place in the code, and
has all the control between the persists.

**EventJournal.** `mem` is the scheduler in memory, `disk` is `scheduler.json`,
`eventFile` and `issueFile` are the immutable files (`Writable` is
`_atomic_write_immutable_json`: a file may be written again with the same
content only). `append_event` is `WithEvent` and then `WriteSnapshot`,
`WriteEvent`, `WriteSnapshot` (4435-4443); start-up is `Load`, `FinishPending`,
`ClearPending`, `Validate` (2698-2834). Operations start when the loop is idle:
`AcceptReport`, `RecordIssue`, `FreezeRequest`, `Decide`. `Crash` is possible
everywhere; `WriteFails` and `PersistInHandler` are a write that raises and the
handler that persists the half-changed memory again (10298-10439, 11329-11336).

**ResearchScheduler.** `pool`, `decisions`, `request`, `pending`, `deferred`,
`attempt`, `attempted`, `stop`, `final` are the fields of
`ResearchSchedulerState`; `due` stands for an event after the cursor that
`coordinator_feedback_due` counts; `task` is the dictionary `active`; `pc`,
`aim`, `goal`, `batch`, `current`, `issues` are where the coroutine is. The main
loop's `if ... continue` chain (11078-11252) is the actions `Loop*`, each with
the negation of the earlier conditions in `Turn` and `Quiet`. `collect_tasks` is
`CollectOne` per task, with `AuditReturns`, `AuditFails` and `Promote` for the
audit awaited after a refutation; `Collected*` is what each caller does next.
`finish` is `EnterFinish` (cancel and collect), `FinishAudits` (gate what raced)
and `FinishCommits`. The provider's answers are choices: a worker returns a
partial result, a candidate proof, a refutation, an error or resource
exhaustion; a refutation's audit verifies, fails or blocks; the gate passes,
fails, runs out of calls or pauses the run. `CoordinatorDecides` chooses any
decision that `_validate_coordinator_decision` and the checks after it
(7976-8069) let through. An awaited call that raises is `Raise`,
`ContextExhausted` or `Exhausts`, for the three handlers at 11253-11336; `Refuse` is
the uncaught error of a gate that finds its frozen input changed, and `Start` may
also start a run that ended. `Waiting`, `NextWaiting` and `Undeferred` are the
queue of deferred candidates: what of it was not attempted yet, which is promoted
next, and what a promotion removes.

Left out of it: lemma audits (they only add pauses; see `RoleAudits`), the scientific phase's
concurrency limit (a smaller `MaxConcurrent`), the tracker's counting (running
out is a possible answer when `Limited`), graph writes, the inside of a gate (see
`GatedScheduler`), and
`raced_candidate_report_ids` (`accept_worker_result` has deferred the same
reports).

**GatedScheduler.** It extends `ResearchScheduler` and replaces the one answer of a
gate by the task that computes it (`evaluate_candidate`, 9542-10300). `gate` is the
durable attempt (`CandidateAttemptState`: obligations owed when it was frozen, the
settings frozen for each role, the evidence file, the package, the mandatory audits,
their verdicts, the judge's reserved slot and the verdict), `keys` are its requests
among the tracker's `model_call_keys`, `answers` the answers that were paid, `config`
what the present process is configured with, `at` what the task awaits and `asking`
the audit tasks in flight. `Opens` is `audit_pending_candidate` and the freezing of
the support; then `Begin`, `PackagerAnswers`, `SourcesVerified`, `Review`,
`AuditAnswers` and `AuditBreaks`, `AuditsIncomplete`, `AskJudge`, `JudgeAnswers`, and
`Returns`, where the loop takes the result. Every other action of the loop goes on as
before (`Follows`). A loop that leaves the evaluation cancels the task but not the
audits it started: they answer into nothing and die with the process (`TaskFollows`).
`Collects` and `ResultRecorded` are the two ways in which the frozen support drifts:
obligations that another worker's report leaves against the target, and the
promotion of the main claim in the graph before the stage is checkpointed
(application.py 2371-2386). `GateRefuses` is every check that then raises. Left out:
archived replays, and failures of class INTEGRITY inside an audit (`Raise` stands for
them).

**StateStore.** `primary`, `temporary`, `backup` are the three files, `state` is
the object in memory. `Save` increments the generation, then `WriteBackup`,
`WriteTemporary`, `Replace`; `Load` chooses as `load_state` does and saves again
whatever was not the primary. `Tear` leaves a file unreadable, as in
`test_load_recovers_last_good_backup`.

**CallAccounting.** A caller registers a request (`RegisterKnown`, `RegisterNew`,
or a placeholder reserved, exchanged and released: `ReserveSlot`,
`ExchangeSlot`, `ReleaseSlot`), enters the single flight of its key (`Enters`),
reserves a call (`SlotFree`, `StartCall`, `Refuse`) and buys attempts (`Sell`,
`AttemptSucceeds`, `AttemptInvalid`, `AttemptBreaks`). What was completed is
booked one attempt at a time (`BookAttempt`: journal line, then counters), then
the response is cached (`Persisted`) and the reservation is given back
(`FinishCall`, `FinishFailure`). `Cancel`, `TimeOut`, `Expire`, `BookFault`,
`CacheFault` and `Crash` are the faults; `Restart` rebuilds the budget from the
journal and the tracker from the snapshot or the journal (`Recovered`), and
`Verdict` is the constructor's refusal. Ceilings on tokens and dollars are the
same test as the one on calls and are left out.

**Workflow.** `mem` is the `RunState`, `disk` everything durable that the runner
reads again: `state.json`, the compiled problem, the research directory and its
archived generations, the draft, the Lean result, `consent.json`, the report,
the effective configuration, and which graph operations were applied. A step of
the code puts its durable effects into `queue`; `Write` performs one, and `Crash`
may come before any of them. An artifact is the number of the command that made
it and of the artifact it was made from, which is all that "current" needs. The
chain of `_execute` is `StartPrompt` to `WriteReport`; `Begins`, `Kept` and
`BeginRefused` are the three answers of `_begin`; `Explain` is the handler of an
exception, `Cancel` the one of a cancellation. `Load`, `PlanForced`, `PlanResume`
and `Migrate` are `_resume_locked` in the order of its saves, with
`_recover_research_archive`, `_archive_research_generation` (`Moves`),
`_archive_lean_consent` and the write-ahead intent of a backend change. Left
out: paid-call records (they are the journal of `CallAccounting`), usage and
status texts, and the integrity check of the report's own certificate.

**ManuscriptDrafts, LeanPipeline, LateStages.** A paper is a number, and
`papers` says what is wrong with it; `written` are the writer's paid answers by
question, `shelf` is the directory `manuscript/` (TeX, PDF, result), `work` the
attempt. `Write`, `Audit`, `Build` are one round (`manuscript.py` 1130-1560);
`Final` decides about another one, `Best` and `Selected` choose what is kept,
`Publish` and `File` put it on the shelf, `NoteDraft`, `RecordDraft` and
`CloseDraft` record it in the run and the graph. In the Lean stage `tree` stands
for the generated sources, `records` for `iterations/<n>/record.json`, `stated` for
the paid statement and `task` for the attempt: `State` and `Place` get the
statement and put it into the sources, `Read` takes up an earlier record or asks
Codex (`AskCodex`, `Codex`), `CheckBuild` and `CheckAxioms` verify,
`RecordIteration` files the iteration, `Exhausted` gives up, `NoteLean`,
`RecordLean` and `SettleLean` write the result, its graph operation and the stage
records. The questions to the writer and about the statement name the graph's
revision, which is the number of operations the graph has recorded; so a stage
that records something changes the question of the next attempt. `LateStages`
adds `Resume`, `ForceStage`, `StageFails`, `Report`, `Raise` and `Crash`. Left out: the
stages before, wording, logs, redaction and which axioms are approved.

**GraphStore.** `disk` holds the notes, `state` is `graph-state.json`, `pending`
the transaction intent, `snapshot` the newest revision manifest. A note's text is
the revision that rendered it, whether a human added prose or changed a machine
field, and the path that each of its links shows; two hashes agree when the texts
do. `Enter` takes the lock, and replays the intent a crash left (`Recover`) before
`Open` (`initialize`), `Reconcile` (`reconcile_human_edits`) or `Write`
(`initialize_problem`, `record_assignment_tasks`, `integrate_worker_report`).
`Open` refuses a node that has two notes (1577). `Write` refuses content that does not
go with the notes that are there (`Unfit`, over the sets `fits` of the call): a
relation to a node that is missing or a cycle of dependencies (6405-6434), statements
that no admission rule takes (6290), computation evidence that is not on file
(5862-5915). `Begin` is `_commit_nodes_unlocked` with what it plans: paths (`Planned`), notes
rewritten only since a note they link to moves (`Inbound`), texts (`Rendered`), the
state that follows (`Recorded`). `WriteNote`, `RemoveNote`, `WriteState`,
`WriteSnapshot` and `Settle` are its writes; `Publishable` is what
`write_revision` demands. `Hand` is a human who edits prose or a field, renames or
deletes a note without the lock, at any step.

**SemanticVault.** `vault` is the set of notes with title, content and provenance
marks, `txn` the one transaction directory. `Admit` is `admit_task` and
`admit_finding`: a note of the same title that shares a mark is taken as an
earlier call (`Prior`), another one makes the title be numbered
(`FreeTitle`). A mark names the run, the coordinator, the task whose worker reported
(`ReportMark`, research.py 8486-8489) or its assignment (`AssignmentMark`, semantic.py
1062, 1076); only the first kind tells the runs apart. `UpdateStatus` changes the marks of a task. `Replace` and `Clean`
are the two durable steps after the staging; `Recovered` is the recovery that
every operation starts with, and `Unrecoverable` its refusal. `ForeignAdmit` is
another run on the same project, which admits its problem, a task, or a finding with
the marks of the title of a task of its own (`OtherTasks`); `VaultHand` is a human.

**ReportAdmission.** `pc` is where the run is, `frozen` and `patch` are the
immutable files, `decided` and `accepted` the durable events. The coordinator's
answer and the reports are frozen before this part of the code, so a replay has
the same content: assignments and titles are constants, the findings of each report
(`asked`, one of the lists `Reports`) are fixed by `Init`, and what its graph entries
go with is the constant `Admissible`. The actions follow the code in order: `Start` and `Validate` (opening the
graph), `AdmitTask`, `Freeze`, the task merge, `Decide`, then per report `Collect`,
one `AdmitReport` and `FindingAdmitted` per finding (`told` counts them), `CloseTask`
and `TaskClosed`, the merge, `Record`, `Accept`. An error no handler
absorbs is `Refuse`; what `integrate_worker_report` raises is absorbed into the
patch. The nodes a run starts with are one problem node, and an admission of
another run is one step, as the vault lock makes it. Left out: the compiled
problem, `merge_patch`, staleness, edits of statements, `rename_node`, the legacy
migration, incident notes, indexes and dashboards.

**RoleAudits.** `content` is what the graph holds where each lane's nomination
looks; a nomination freezes it, and the audit it names is `<<lane, content>>`, the
directory of `nomination.json`. `response` and `gate` are the files there,
`records` the audit records of the report, `events` the gates copied to
`gate-checkpoints/` and named by an event. `pc` is one of the places of
`run_adaptive_research` that run audits: start-up (3903-4150), the promotion of a
verified refutation (10938), the arbitration before the loop (10970) and in it
(11087), the reconciliation of lemmas (10991, 11118), the replay after a resume
(11011) and the collection of the report (10318). `job` is the audit under way
there: `Begin` asks the roles without a response, `RoleAnswers` and `RoleFails`
are the calls, `WriteGate` judges what is on file (the whole of both
`_deterministic_gate`), `SaveRecord`, `Note`, `RecordInGraph` and `Commit` are the
durable writes that follow, and `SupportLost` is the error raised when the graph
has moved on, with the handler of each place. `Move` and its operators are the
`if`s between the places. At start-up a record agrees with its files (`Sound`), or
a retry overwrote its gate and the preserved copy explains it (`Adoptable`), or
the run is refused. A failed stage and a pause are places too; `Resume` starts
again from them as from a crash. Left out: which result is nominated, the content
of responses and bundles, repair obligations, schema-v1 audits, several results in
one lane, and support that names no node of the graph (it cannot change).

### Known simplifications

Besides what each paragraph above leaves out, a few definitions are coarser than the
code at a point that no property depends on:

- `Workflow`: a budget that is exhausted raises (application.py 2244, 2440, 2578) before
  the later stages are skipped (1312, 1332, 1353), the model skips first. An exception
  of a graph record after a stage (2380, 2545, 2663, 2769) leaves the stage RUNNING, as a
  crash there does, and only the crash is modelled. `ForcedState` drops
  `not bibliography_verified` (924), so it asks for a correction in more states than the
  code.
- `EventJournal.FreezeRequest`: a request that is too large is rebuilt and frozen once
  more (research.py 7782-7909), which the model takes as the one that is frozen.
- `ResearchScheduler.FailWorker` queues a failed worker's repair; that a repair for which
  the budget has no call is retired at once, with an issue (10380-10396), is left out.
- `CallAccounting.AttemptBreaks`: "nothing was sold" stands also for a Codex attempt that
  ran and broke before its summary was read, a loss like those of section 4.
- `RoleAudits`: the refusal of the lemma lane when its settings or instructions changed
  across a resume (lemma_audit.py 1302-1305) is left out; what the lane itself writes to
  the graph changes no content that is nominated, and is `Edit` otherwise.
- `ManuscriptDrafts.Build` moves the old PDF away (manuscript.py 1353) in one step with
  the build, though LaTeX is awaited between; the stage is not done in between.
- `LeanPipeline.RecordIteration` writes `record.json` (lean.py 1320) and `result.json`
  (943) in one step.

## 3. The runs

| Run | Bounds | Shows |
|---|---|---|
| `journal` | 2 reports, 2 issue contents, 4 events, 2 issues, 3 crashes, 2 failing writes | All properties of the journal: some until a write raises, some whatever fails. |
| `journal_orphan` | 3 events, 1 crash | Violation: an orphaned issue file blocks later failures. |
| `scheduler_safety` | 3 assignments, 2 at once, 3 open, 3 decisions, 2 starts, 1 raise, finite calls | All safety properties of the loop (5.2 million states). |
| `candidate_gate` | 2 assignments, 1 decision, 2 starts, 1 raise, 3 configurations (two policies, with and without the additional audit) | All properties of the gate, and that the loop around it settles. |
| `scheduler_discard` | 2 assignments, 3 decisions, 2 starts, 1 raise | Violation: a pending candidate is overwritten. |
| `state_store` | 5 generations, 2 crashes, 1 torn file | An unreadable file costs one save at most, and the store is a cell. |
| `calls` | 2 callers, 2 keys, a budget of 2 calls (3 for the tracker), 2 attempts per call, 3 sold attempts, 2 upsets | All properties of the accounting, refinement included. |
| `workflow` | 3 commands, 3 upsets, 2 backends, 4 forced stages (one of each kind), full and research-only | All properties of the runner (2.4 million states). |
| `workflow_outcome` | 2 commands, 1 upset | Violation: the graph misses an acceptance after a pause. |
| `late_stages` | 1 revision round, 3 papers with faults or 2 flawless ones when Lean is wanted, 2 statements, 0 or 2 iterations, 2 without progress, 3 commands (2 without Lean), 1 upset | All properties of the two stages. |
| `graph` | 4 nodes, 2 assignments, reports of one or two findings under 2 titles (one of them the title of a task, of this run and of another), a second report that clashes with the first, 3 starts, 1 human edit or foreign admission | All properties of the two stores and of the run that fills them (663 thousand states). |
| `audits` | 3 contents of the graph (one of them untrusted), 2 changes of it, 2 failing calls, 1 crash, any number of pauses and resumes | All properties of the two-role audits (2.5 million states). |

Why these bounds. Journal: a write window involves two events (the one being
published and the next), five leave room for a report, an issue, a frozen
request shown two events, and a decision over them; a third crash falls into the
recovery of the second. Scheduler: three assignments are one candidate under
way, one that races with it and one refutation; three decisions are an initial
one, one that packages or retires, and one that stops; two of three tasks can
run at once, so queued work exists. Store: the longest chain is a failed save, a
crash, a recovery, a tear and a recovery from the backup, each one generation.
Calls: two callers are enough for a flight and its follower,
two keys for a hit and a miss, and a budget of two is full with one reserved and
one booked. Workflow: three commands are the first run, one that forces, migrates
or rewrites, and a plain resume after it; three upsets are one in each. The four
forced stages are one of each kind the code tells apart: one that keeps the model
cache and replays research, one that archives research, one that corrects, and
one that only retires the consent. Graph: three starts are a crash inside a
transaction and a second one inside its replay; one upset is enough for every
refusal, since each has a single cause; the finding titles contain the one of a
task, so that the finding collides with its own task, with the other finding and
with another run's note; two findings are the least that a crash can fall between. The
second report does not go with the node that the first one creates, so that it is
merged or refused according to the order.
Audits: two changes of the graph take support away and bring it back; two failing
calls leave a gate incomplete and fail its retry; the resumes after a pause need no
crash, so one crash falls into any write of any of them. Roles are alike, and so
are trusted contents, and both are declared symmetric.
Late stages: the instance splits by what the user wants. A run without Lean gets
every kind of faulty paper, three of them, which are a draft, its revision and a
correction or the rewriting of a forced stage; a run with Lean gets flawless
papers and three commands (a first one, a forced stage, a resume), so that a
record is made, invalidated and met again (`Papers`, `Commands` and `PaperFaults`
of `MCLateStages`). An attempt with no iteration at all is the budget spent before
it starts; two allow a hole that becomes a proof and an idle one. One upset is
enough for every window, since a crash forgets all but the files.
Candidate gate: two assignments are the candidate and a worker that refutes it,
drifts its support or spends the budget; the second start is configured as the first,
with other settings, or with the additional audit, which are the three answers that
the gate's code can give to a resumed attempt; one audit beside the additional one is
enough for two in flight. What the loop does with three assignments and three
decisions is the run `scheduler_safety`; `GateImplementsLoop` (section 5) carries it
over.
The type invariants of the journal, the store, the calls, the scheduler, the gate
and the audits are proved for every constant and are not checked again in a run,
and so is `IssueHasEvidence`.
Deadlock checking is off everywhere: an ended run, a process nobody restarts and
a reached bound are all legitimate ends. That the loop itself does not get stuck
is `Settles`.

### Properties worth knowing

- `SnapshotOneAhead`, `ResumeAccepted`: the snapshot is at most one event ahead
  of the files, and a restart at *any* point passes the checks at 2767-2834.
- `AckOnlyShown`: a decision acknowledges exactly the events its frozen request
  showed, whatever was appended while the call was in flight.
- `CandidatesKept`, `OutcomeAfterGate`: a report that claims a complete proof is
  pending, deferred or gated, and an outcome short of acceptance or refutation
  (partial, or out of budget) is committed only after all were gated. Both are stated for runs in which no awaited call raises; without
  that condition the first is false (finding 2). `OutcomeAfterGate` excepts the
  case in which a refutation could not be audited: `finish` then gives up gating
  (5925-5929).
- `AcceptedAfterArbitration`: at the moment of acceptance no refutation is open.
- `OutcomeStands`: only ACCEPTED to REJECTED can happen to a durable outcome (a
  refutation collected late and verified).
- `StopIsLastDecision`: within one life of the process. Across a restart it is
  false, since `finish` clears `stop_reason` before it gates (5949-5951) and a
  crash there loses the stop.
- `Settles`: the loop always comes to a stop again (ended, paused, failed or down);
  checked in the run `candidate_gate`, so that it includes every step of a gate.
- `BoughtOnce`: however often a process dies and however the next one is configured,
  no call of an attempt is paid twice.
- `FundedToTheEnd`: once the audits are asked, the gate does not run out of budget;
  the judge's slot was taken together with theirs, although workers spend from the
  same budget.
- `AcceptedIsBacked`: an accepted attempt has a sound package and, for every
  mandatory audit and for the judge, a paid answer to the request of the settings
  that the attempt records. Audits that outlive their evaluation do not count.
- `PaidIsBooked`, `CallCeiling`: every completed attempt is in the journal and in
  the counters, and booked plus reserved calls stay under the ceiling. The first
  is for behaviours without upsets: a cancellation, the wall clock or a crash
  before the answer loses the attempts already completed (section 4).
- `NothingLeaks`: when all callers are done, no reservation, flight or
  placeholder is left, whatever was cancelled or raised on the way.
- `RestartExplained`: a resume is refused only for a tracker that disagrees with
  the journal in one of the ways named there.
- `OutputsAreCurrent`: every successful checkpoint stands for the file it
  recorded, made from the present file of the stage before it.
- `CalmResumeFinishes`: after anything, one plain resume in which nothing goes
  wrong leaves nothing but failed Lean stages to resume; the exceptions are
  spelled out in it and explained in section 4.
- `CheckpointsKept`: no stage is run again after a successful checkpoint unless
  it was forced, and the user's answer about Lean is kept.
- `RefusedOnlyAfterForce`: which refusals are unreachable, and which need a
  forced stage before them.
- `ImplementsRevisions`: across crashes, replays and human edits, an operation
  becomes a revision at most once, and revisions are published in order.
- `RefusalHasCause`: a crash inside a graph transaction or an admission never stops
  a run for good. What does is listed there: a human edit, a title that had to be
  numbered, a lost first snapshot, and the replay of a merge that was recorded.
- `AcceptedIsKept`: an accepted report is in the published graph, unless a human edited
  it or the report says what does not go with the other published ones (`Clashes`); and
  each of its findings is in the vault, unless a human edited the vault or a note under
  the same title took its place, which is one of this run, or another run's that
  carries a mark of a task with the same title.
- `TrustIsBacked`: what the graph took from an audit has a gate over both roles, a
  refutation a passing one, and the run ends "rejected" on a recorded refutation
  only, although gate, record, graph and outcome are four writes.
- `RetryIsRecoverable`: whenever the gate file is not the one the record names, the
  old one is preserved, an event names it, and no response it counted is gone.
- `RefusedInKnownWindow`: the audits' own files stop a resume in four windows only,
  defined beside it and described in section 4.
- `PublishedAsBuilt`: the TeX on the shelf is the draft the result names and the
  PDF, where the result says that it was built, is of that draft, whichever round
  was selected; a published draft has a terminating finding only if all have one.
- `VerifiedIsProof`: while the run calls its theorem verified, its sources prove the
  aligned statement of the paper it publishes.
- `SameQuestionResumes`, `RecordedProofIsUsed`: an attempt refuses records only when
  it asks another question than they were made for, and a recorded proof still on
  disk is neither worked on nor given up, unless it was checked again and rejected or
  a crash left a scratch file beside it.
- `OneTearLosesOneSave`: one unreadable file, at whatever step of whatever save,
  costs at most the last save that returned.

### Fairness

`GateFairSpec` assumes one weak fairness, of `Runs`: while the process is up and any
of its tasks can take a step or any of its calls is out, something of it happens.
asyncio runs a coroutine whose awaited object is ready, and the backends bound every
call by a time-out, whose answer may be an error. Nothing is assumed about which task
goes first, about a call succeeding, about the process being started again, or about
crashes. `FairSpec` of the journal assumes weak fairness of
the writes in progress only.

## 4. What the violated properties say

1. `FailureIsRecordable` (4490): the issue file is written before the snapshot,
   under a number that a crash gives to another failure later.
2. `NoCandidateDiscarded` (8219): a decision answered after a failed first try
   overwrites a candidate that became pending in between.
3. `ManuscriptFromAcceptedGraph` (application.py 2380): the graph records the
   result of the research stage once per run; a pause takes that one operation,
   and the acceptance after it never enters the graph.

Seen on the way, without a run of their own:

- workers collected after the acceptance is durable can leave a refutation unanswered
  under it (5914). `AcceptedAfterArbitration` is about the moment of acceptance. The
  same window, with a third worker whose report leaves an obligation against the
  target, makes `validate_acceptance_gate` refuse the accepted run, at `finish` and at
  every resume (`GateRefuses`);
- an attempt whose frozen support changes is refused, and the refusal is an uncaught
  error at every resume: obligations that another worker's report adds, the promotion
  of the main claim when the process dies before the stage is checkpointed
  (application.py 2371-2386), and `run_complexity_audit` changed on resume all do it.
  An attempt that owes an obligation pauses the run on every resume;
- the audits that a cancelled evaluation leaves in flight are not cancelled (10676):
  they are paid for, and their answers are used only because the same request is
  replayed later;
- a computing worker's evidence file is written once (8442). When the process dies
  between it and the durable acceptance, the resume reissues the identical request
  (3753), but the collection then answers "reused" (`computation_artifacts.py`
  391-423), the file would differ, and the assignment is failed, repaired and
  retired although its answer was paid;
- a write that raises in `append_event` (4437-4443) leaves the sequence number
  taken, and the handler's next event leaves a gap that the next start-up refuses;
- a refutation verified while a directed cancellation is collected (10448, 11083)
  does not end the loop: one more decision may be bought under a durable outcome.
  `OutcomeStands` allows the change from ACCEPTED to REJECTED;
- attempts that were completed before a cancellation or the wall clock are paid
  for and not booked (`codex_model_backend.py` 1299); a crash between the usage
  journal and the cached response buys the same request again; a tracker whose
  request was attempted twice is refused on resume (research.py 2041);
- `_archive_lean_consent` (application.py 1880-1917) removes `consent.json` before
  any save. If anything fails in between, `_existing_lean_consent` raises in every
  later consent, report and forced command (end `"consent lost"`);
- a migration left by a crash, then a forced stage or a rewrite: the cache
  generation is beyond the intent, and every later resume raises (1120-1125, end
  `"intent overtaken"`);
- `resume_bibliography_correction` is cleared by success only. If the process dies
  between the two saves at 2558-2577 with a draft that has a terminating failure,
  every resume asks to correct a draft that may not be corrected
  (`StuckInCorrection`; `manuscript.py` 1129-1153);
- forcing research or the prompt keeps the Lean consent given for the old
  manuscript; a stage forced while another is left RUNNING makes `_begin` illegal,
  since only a plain resume normalises;
- a cancellation during the explanation of a failure leaves no report; a report
  that raises leaves its own stage RUNNING, so the handler's report is illegal;
- `_report_stage` (2781-2806) calls a run complete when no stage is failed,
  interrupted or skipped; after a crash, `matek report` says so of a run with
  running or pending stages;
- the options of a new run are saved after the graph is prepared (885); a crash
  between intake's save and that one resumes as a full workflow.
- a crash after the immutable `graph-patches/{id}.json` and before the durable
  acceptance: the replay of `integrate_worker_report` answers "already_applied",
  the file says "merged", and `_atomic_write_immutable_json` refuses every resume
  (8575; the docstring at 2374 and `PRODUCT_REQUIREMENTS.md` 272 promise an
  idempotent replay). `RefusalHasCause` has it as the refusal `"patch"`;
- the same for `decisions/{id}.json` when another run's note made a task's title be
  numbered: the replay finds its own numbered note and numbers again;
- `admit_finding` takes a note of the same title with any mark in common as the same
  finding (semantic.py 957-971): a finding titled like its own task, or like another
  finding of the run, is dropped, although `admit_worker_report` says "Persist every
  recoverable finding" (1055). The marks "coordinator assignment", "worker report:
  <task title>" and "assignment: <task title>" (research.py 8486-8489, semantic.py 1062,
  1076) name no run, and the vault is the project's: tasks of two runs with one title
  are one note, and a finding is dropped for another run's note under its title when
  both runs had a task with the same title;
- when `integrate_worker_report` raises for what the report says (a node that is
  missing, a cycle, a statement or evidence that is not admitted), the error is an issue
  of the run and the report is accepted with nothing in the graph (research.py
  8553-8591), and no later step merges it;
- a finding whose title was numbered is admitted a second time by a replay;
- an edit of a note that no later operation touches makes every later snapshot
  fail, though `PRODUCT_REQUIREMENTS.md` 319-322 lets humans edit prose; a
  rename of a note with inbound links does the same after `reconcile`, and a rename
  that was reconciled is undone by the next commit that touches the note;
- a crash between the first `graph-state.json` and snapshot 0 leaves a graph whose
  first commit raises;
- prose a human adds between a crash and its recovery is overwritten; a changed
  machine field of a note that the next operation touches becomes the record;
- a vault transaction that crashed after its replacement and whose note a human
  then edits cannot be recovered, and every command raises; a task note that was
  renamed or deleted makes the acceptance of its report raise;
- the repository's README (583-602) has a resume call only the missing role of an
  audit, adopt a gate that was extended, and supersede an audit whose support
  changed. Four histories end in a refusal of every resume instead, and
  `RefusedInKnownWindow` names them. `Torn`: a lemma audit is retried, a response is
  on file, and the process dies before the gate is rewritten; start-up demands a
  gate over every response (the counterexample lane tolerates this by name,
  counterexample_audit.py 1975). `Reissued`: a retry in which no role answers still
  rewrites the gate with a new date; a crash before the record is saved leaves a
  gate that extends nothing. `Withdrawn`: a counterexample audit that ended (failed,
  or verified and not yet recorded) loses its support in the graph; start-up
  tolerates that for open and superseded audits only (4118-4131), and no crash is
  needed. `Reopened`: a superseded audit is nominated again, with the same identity,
  when its support is back, and its gate is overwritten under the superseded record;
- a lemma gate that is complete but refused by the graph is an issue when a report
  is collected or replayed, and an uncaught error in the reconciliation before the
  loop: every resume fails there until the graph is as it was.
- a Lean stage that ends unverified is resumable in name (`TEST_PLAN.md` 210), but the
  question about the statement contains the graph's revision
  (`formalization_context`, knowledge_graph/service.py 8408-8433), and the end of the
  attempt records `lean-result:<run>` and `run-status:...` in the graph. The next
  attempt asks anew, and if the answer is another statement the records are refused;
- `lean-result:<run>` is recorded once per run, so a verification that succeeds after
  an unverified attempt never reaches the graph;
- a scratch file that a crash leaves in the Lean sources changes their hashes, and a
  recorded proof is worked on again (the exception in `RecordedProofIsUsed`);
- a PDF that an earlier attempt built in the same round is still there when the present
  build makes none. It is published only beside a result that does not claim a build.

## 5. The proofs

`EventJournalProofs` proves, for every set of reports and issue contents and
every bound: `TypeCorrect`, `IssueEvidence` and `PublishedOnce` whatever dies or
fails; `OneAheadOnly`, `ResumeIsAccepted`, `AckedWasShown` and
`JournalImplementsStream` until a write raises (the properties say so themselves:
`faults = 0`, and the abstract stream promises nothing once `broken`).
Assumptions: `ChangeAssumption` of the module. The inductive invariant is
`CalmInv`: `TypeOK`, and `IInv == TypeOK /\ DiskInv /\ Phase` as long as
`faults = 0`. `DiskInv` relates the snapshot to the
files: every event below the last has its file, the last one has it unless it is
pending. `Phase` says how memory relates to the snapshot at each point of
`append_event` and start-up: equal (`SameEvents`) or one event ahead
(`OneAhead`). None of these properties is inductive alone: they say nothing
about memory, which is what the next write puts on disk. `PublishedOnce` holds
after a write raised too, from a weaker invariant: `PublishInv` says that a file
holds the event the snapshot has under its number, that memory extends the
snapshot, and that what is published is the last event of the snapshot. The refinement step
(`StreamStep`) goes by the three ways `disk` and the files can move: the
snapshot commits an event, a file publishes it, or neither.

`StateStoreProofs` proves `StateStoreTypeCorrect` and
`StateStoreImplementsCell` for every set of contents and every bound, from
`ContentAssumption` (redaction is idempotent) and `FilesAssumption`. Its
invariant `FilesInv` says that while nothing is damaged a leftover temporary file
is newer than the primary, both are older than the state being saved, and there
is no backup before there is a primary; so start-up never reads the backup, and
the write of the temporary file is the instant at which a save takes effect.
`StateStoreOneTear` is about what happens once a file is damaged: with `TearInv`,
`Ordered` (of the readable files the backup is at most as new as the primary, the
primary older than a temporary file, and all older than the state being saved), `Undamaged` and `DamagedOnce` (with one tear, whichever
file it hit, another one holds the last save or the one before).

`CallAccountingProofs` proves the properties of the run `calls`, for every set of
callers and requests and every bound. `BaseInv` is the type, `Places` (where a
call can stand: its lock, its reservation and its wish belong together) and `Credit`
(a slot that came with a paid request is still the request's); `CallsLeakNothing`
follows from it. `Sales` adds what was sold: `Purchase` per call, `Books` (journal and
counters agree with the sales) and `AnswerOf` (a cached answer is the last attempt of
its own request); with it every step of a call is a step of `CallLedger` or changes
nothing of it (`CallsImplementLedger`). `Ceiling` counts, with the cardinalities of the
finite sets involved, that booked and reserved calls stay under the ceiling at every
reservation and booking; `AllPaid` says what is on its way to the journal until the
first upset. `RestartsExplained` needs `Slots`: the registered requests fit the
tracker's allowance, and the allowance has room for every `Free` answer (one whose
request is not registered, or is without its answer and without a slot of its own),
because an answer that is registered again brings its slot with it. A restart then
counts the registered requests with an answer and the budget's remainder; that this
is too little when every booked response is an answer would need more requests and
answers together than calls.

The first part of `GatedSchedulerProofs` proves every property of `scheduler_safety`,
for every bound of the loop. The layers are `TypeInv` (types; a finish with the acceptance comes
after the acceptance is durable; which variables are in use at which place of the
code), `WorkInv` (cancelled and collected tasks, and whose audit is awaited),
`AttemptInv` (an attempt's candidates are recorded as attempted, and only those were
gated), `OutcomeInv` (which outcome can be durable where), and over it one layer per
property: `VerdictInv` (an open refutation keeps the loop from the gate), `StopInv` (the
stop is the last decision's), `QueueInv` (a claimed candidate is pending, deferred or
attempted, and `finish` is past its gates only when none waits). The queue's order
matters: `NextWaiting` is the least position that was not attempted, whose existence is
the well-foundedness of the natural numbers.

`ReportAdmissionProofs` proves the four properties of the run `graph`, for every
graph, every decision and its assignments, and every number of starts, human edits and
foreign admissions, from `AdmissionConstants`, `LinksInOrder` (a note links to the problem, to
tasks, to notes of its own report and to notes that are there whenever its content is
admitted, so that nothing links to what was never recorded) and `NothingIsNoValue` (the values that mark an absent file are not
contents).

- `GraphHistory`: the graph inside the composition implements `GraphRevisions`. Its
  invariant `HistoryInv` relates the two JSON files and the newest snapshot at each step
  of a commit: `AtRest` (without an intent the recorded revision is published, or the
  graph lost its first snapshot), `InTransaction` (with one, the newest snapshot is the
  revision before it or its own), `Standing` (what an operation has done where it
  stands), `Unborn` (nothing before the state file), `HumanPlaced` (a reconciliation is
  named for the number of revisions before it, so its identity is new). The refinement
  alone is not inductive: that a replay publishes the next revision, and not a later
  one, needs to know that nothing was applied between the crash and the replay.
- `AdmissionTypes`: the types, with what the graph, the vault and the run hold at each
  place (`BaseInv`: `StoreInv`, `VaultInv`, `RunInv`, `Assigned`). That a title can
  always be numbered (`FreeTitle`) is the pigeonhole principle over the notes.
- `RefusalsExplained`: a run is refused for a named cause. The argument goes by
  what the environment has left alone. While no human has edited the graph, every note
  is what some commit rendered (`Untouched`), so a merge can be refused only for its
  content (`Returned`; `ClashFound` reads off the recorded revisions which reports that
  content does not go with);
  while none has edited the vault, what a crashed admission staged is still to be seen
  (`Seen`); while no other run has admitted anything, titles of tasks are the run's own
  (`OwnTitles`). What remains are the listed causes (`Explained`).
- `AcceptedStays`: an accepted report is in the published graph and its findings in the
  vault, from `Progress` (what the run relies on having been published), `Merges` (a
  refused one clashes, and still does when more is published: `ClashStays`) and what
  `Seen` says of each finding told so far.

`RoleAuditsProofs` proves the four properties of the run `audits` (`AuditTypes`,
`AuditTrust`, `AuditRecoverable`, `AuditRefusals`) for every set of contents and
every bound on edits, failed calls and crashes, from `AuditConstants`. Its
invariant adds to the properties `Filed` (a gate counts only responses on file),
`Asking` (nobody is asked twice), `Working` (what the step an audit is at says of
its record, its gate and the graph), `Stopped` (nothing is under way while the
process is down, starting, or between places) and `Agreed` (once start-up is over a
current record names the gate on file, but for the one a retry is about to save).
The hard step is the gate a retry rewrites (`WriteGateStep`): a gate the graph
relies on is closed, so it is never rewritten, and the record that named the old
one is the retry's own, whose gate was preserved before any role was asked. That
start-up refuses in the four windows only then follows from one state
(`RefusalStep`): a changed record is explained by `RetryIsRecoverable`, so only its
responses or its roles can stand in the way of adoption.

Its second part proves, for every set of audits, policies and configurations, that the loop with the gate in detail is a
`ResearchScheduler` (`GateImplementsLoop`: each step of a gate is the loop's own step
or changes nothing of it, so what is proved of the loop holds of it, as `GateKeepsLoop` states),
and `GateTypes`, `GateBuysOnce`, `GateFunded` and `GateBacked`, from `GateAssumption`. The
inductive invariant `GateInv` has eight parts. `Concluded` is the only one about the
loop: an acceptance is durable before `finish` is called with it, and nothing is
gated after. `Placed` says that an evaluation is under way only while the loop awaits
it, and that audits outlive it only on the way to the end of the process; `Asked` that
what is being asked is registered; `Settled` that registered requests have the frozen
settings of their role and that a registered audit is mandatory; `Answered` that answers
are to registered requests, one each. `BoughtOnce` comes from these two: two answers to
one call would be to requests of two policies, and a role has one while anything of it
is registered. `Funded` says that the audits are registered together, after the package,
and that the judge's slot is held from then until the judge is asked; `Backed` that what
the attempt committed was paid, and that an attempt that passed has all it needs.

`LateStagesProofs` proves the four properties of the run `late_stages`, for every
number of rounds, iterations, commands and upsets and every set of papers and
statements, from `ManuscriptAssumption`, `LeanAssumption` and `LateAssumption`.
Everything rests on `TypesAndPlaces` (`InPlace`): the types of drafts, records and
sources, and which stages are running, done or still pending at each place of the
code; that a forced or resumed run enters at the manuscript or at the feasibility
stage (`PreparedEntry`, `ForcedEntry`) is part of it.

- `DraftIsAsBuilt`: `Built` says that while a draft is being filed the sources and
  the PDF are those of the draft the rule selects (`AsBuilt`), and what a correction
  starts from is what was filed (`Copied`). That the rule selects a draft at all
  (`BestIs`) is the existence of a lexicographic minimum: drafts of one attempt are
  of different rounds, and the natural numbers are well-founded.
- `VerifiedIsProved`: `Verified` follows the proof from the check to the verdict.
  Not inductive alone, because the verdict is saved two steps after the check and
  of the paper that the manuscript stage recorded; `Built` and the order of the
  stages bind the two.
- `ProofIsUsed`: `Walk` says that of the records before the one being read none is
  a standing proof of the sources on disk.
- `SameQuestion`: `Memory` orders the questions by generation and by graph revision
  (`Early`): what is on record was made for questions no later than the last one
  asked, and what was made for the last holds the statement that is on file.

`WorkflowProofs` proves the five properties of the run `workflow`, for every number of
commands, of crashes and failures, every set of backends and of stages that may be
forced, from `WorkflowAssumption`. None of them is inductive: at most moments the disk is
half way through a queue of effects that the process already takes for done. The
invariant `IInv` therefore speaks of the disk `z` the queue leads to. `Walk` says
that writing the queue one effect at a time leads from the disk to `z`, that every disk
on the way is `Sound`, and that no single write takes away what the command may not
(`Fits`). A crash then leaves a sound disk wherever it falls, and a write shortens the
walk by its first effect. A disk is sound when its run state goes with its files
(`Good`):

- `Ordered`: no stage is done before what it rests on, and none was skipped without the
  cause that the files and options show;
- `Filed`: each checkpoint records the file on disk, each file was made from the one
  before it, and a finished report tells the present statuses (`CheckpointsAreCurrent`);
- `Rooted`: an archive is pending only until its directory was moved, and a research
  directory is bound to the problem that is recorded (so no archive is ambiguous);
- `Agreed`: until something is forced, the Lean answer on record is the one on file, and
  no cache generation overtakes a pending migration (`NoneRefused`).

`Stands` says what is known at each place of the code: that the process and the disk
`z` have the same run state but before a migration and in an explanation, that a stage
under way is marked as running, and which stages are done there. Over it `Smooth` is what
holds in a resume in which nothing goes wrong: no stage is running but the one awaited,
a manuscript never stands without its bibliography, and the explanation and the
report are reached early only through one of the named causes
(`OneCalmResumeFinishes`). There is one lemma per action (`MigrateStep`, with up to seven effects, is
the longest); they are built from a lemma per operation on run states (`Busy`,
`Records`, `Passes`, `Skips`, `Interrupts`, `Invalidates`), one per kind of file
(`GoodPrompt` to `GoodConsent`) and the ones that put walks together (`WalkCons`,
`WalkJoin`). `NothingIsRedone` reads `Fits` off the first step of the walk.

Every safety property and every action property of the passing runs is proved. Only
model-checked: the liveness properties `Settles` and `PendingIsPublished`, since
fairness and ENABLED are outside the prover.

## 6. Plan

1. Pure operators against a reference: the phase machine
   (`record_scientific_progress`), the trusted-claim closure and the smallest
   open cut of the ledger.

Not planned: text construction (context builder, Markdown, reports), schemas and
validators, provider protocols, source look-ups, the CLI. They hold little
control, and what a model could say of them is what a unit test says.
