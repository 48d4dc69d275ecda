--------------------------- MODULE GatedScheduler ---------------------------
(***************************************************************************)
(* The independent gate of a candidate proof (stages/research.py,           *)
(* evaluate_candidate) as the task it is, inside the actor loop: one call   *)
(* of the packager, the verification of the imported sources, one call per  *)
(* mandatory audit, all at once, and one call of the final judge.  Every    *)
(* step is committed to the durable attempt; a process that dies or pauses  *)
(* leaves it to the next one, which may be configured otherwise.            *)
(*                                                                          *)
(* The call budget is shared with the workers, who may have spent it at any *)
(* moment: while it is finite, a call that has no slot yet may not fit.     *)
(* The identity of a request is its call within the attempt and the model   *)
(* settings (the policy) that it is made with.                              *)
(*                                                                          *)
(* Left out: archived replays, which look up no support, and failures of    *)
(* class INTEGRITY inside an audit (Raise stands for them).                 *)
(***************************************************************************)
EXTENDS ResearchScheduler

CONSTANTS
    Audits,       \* audit_names: the audits every candidate gets
    Complexity,   \* the audit that the configuration may add
    Policies,     \* model settings of requests
    Configurations,      \* what a process may be configured with
    FirstConfiguration   \* the first process

ASSUME GateAssumption ==
    /\ Audits # {} /\ Complexity \notin Audits
    /\ {"package", "verdict"} \cap (Audits \cup {Complexity}) = {}
    /\ Configurations \subseteq [policy : Policies, complexity : BOOLEAN]
    /\ FirstConfiguration \in Configurations

VARIABLES
    config,    \* of this process: its policy, and whether Complexity is run
    gate,      \* the durable attempt (CandidateAttemptState)
    keys,      \* the attempt's requests among model_call_keys
    answers,   \* the paid answers, which an identical request replays
    drifted,   \* the support in the graph is no longer the frozen one
    at,        \* what the evaluation task awaits, or its result
    asking     \* audit tasks that have not returned

durable == <<gate, keys, answers, drifted>>
allvars == <<vars, config, durable, at, asking>>

Mandatable == Audits \cup {Complexity}
Role == {"packager", "auditor", "judge"}
Results == {"paused", "refused", "passed", "failed", "budget"}

NoGate == [owed |-> FALSE, policy |-> [r \in Role |-> FirstConfiguration.policy],
           evidence |-> "none", packaged |-> FALSE, mandatory |-> {},
           audits |-> [a \in Mandatable |-> "none"],
           reserved |-> FALSE, verdict |-> "none"]

GateInit ==
    /\ Init
    /\ config = FirstConfiguration
    /\ gate = NoGate /\ keys = {} /\ answers = {} /\ drifted = FALSE
    /\ at = "none" /\ asking = {}

(* The mandatory audits, as this process is configured.                     *)
Required == Audits \cup (IF config.complexity THEN {Complexity} ELSE {})

Key(call, role) == <<call, gate.policy[role]>>
Registered(call, role) == Key(call, role) \in keys
Replied(call) == {x \in answers : x.key = call}

(* The attempt, with the settings of a role those of this process.          *)
Renewed(role) == [gate EXCEPT !.policy[role] = config.policy]

(* A paid answer v to the request k: replayed if it was answered already.   *)
Pays(k, v) ==
    IF Replied(k) = {} THEN answers' = answers \cup {[key |-> k, says |-> v]}
    ELSE [key |-> k, says |-> v] \in answers /\ UNCHANGED answers

(* Mutant of Judged: the verdict alone decides.                             *)
JudgedByVerdict(g) == IF g.verdict = "accepted" THEN "passed" ELSE "failed"

(* What the committed evidence amounts to.                                  *)
Judged(g) ==
    IF g.verdict = "accepted" /\ \A a \in g.mandatory : g.audits[a] = "pass"
    THEN "passed" ELSE "failed"

(* The task runs while the loop awaits it, or something else meanwhile.     *)
Running(place) ==
    /\ at = place
    /\ pc = "evaluate" \/ (pc = "collect" /\ aim = "evaluate" /\ Yields)

Elsewhere == UNCHANGED <<vars, config, drifted>>

-----------------------------------------------------------------------------
(* audit_pending_candidate: a new attempt freezes the support of its        *)
(* reports, with the obligations found in it, and the policies.             *)
Opens ==
    /\ LoopAudits \/ FinishAudits
    /\ at' = IF pc' = "evaluate" THEN "begin" ELSE "none"
    /\ IF attempt # NoAttempt THEN UNCHANGED durable
       ELSE /\ \E owed \in BOOLEAN :
                 gate' = [NoGate EXCEPT !.owed = owed,
                                        !.policy = [r \in Role |-> config.policy]]
            /\ keys' = {} /\ answers' = {} /\ drifted' = FALSE
    /\ UNCHANGED <<config, asking>>

(* evaluate_candidate up to the packager's call.  A frozen support that     *)
(* changed refuses the attempt, and one that owes obligations pauses it.    *)
Begin ==
    /\ Running("begin") /\ Elsewhere /\ UNCHANGED <<answers, asking>>
    /\ LET fresh == ~gate.packaged /\ ~Registered("package", "packager")
           g == IF fresh THEN Renewed("packager") ELSE gate IN
       \/ /\ drifted
          /\ at' = "refused" /\ UNCHANGED <<gate, keys>>
       \/ /\ ~drifted /\ (gate.owed \/ Unresolved # {})
          /\ at' = "paused" /\ UNCHANGED <<gate, keys>>
       \/ /\ ~drifted /\ ~gate.owed /\ Unresolved = {}
          /\ gate' = g
          /\ \/ gate.packaged /\ at' = "review" /\ UNCHANGED keys
             \/ fresh /\ Limited /\ at' = "budget" /\ UNCHANGED keys
             \/ /\ ~gate.packaged
                /\ keys' = keys \cup {<<"package", g.policy["packager"]>>}
                /\ at' = "packager"

PackagerAnswers ==
    /\ Running("packager") /\ Elsewhere
    /\ Pays(Key("package", "packager"), "package")
    /\ at' = "sources"
    /\ UNCHANGED <<gate, keys, asking>>

(* verify_source_ledger answers.  Its outcome is part of the evidence file, *)
(* which is written once and read again if it is there.                     *)
SourcesVerified ==
    /\ Running("sources") /\ Elsewhere
    /\ \E e \in {"sound", "flawed"} :
        gate' = [gate EXCEPT !.packaged = TRUE,
                             !.evidence = IF @ = "none" THEN e ELSE @]
    /\ at' = "review"
    /\ UNCHANGED <<keys, answers, asking>>

(* Mutant of AuditorPolicy: a resumed process asks with its own settings.   *)
AuditorPolicyOfProcess == config.policy

(* The settings of the audits are frozen with the first of them that was    *)
(* asked or committed.                                                      *)
AuditorPolicy ==
    IF \E a \in Required : gate.audits[a] # "none" \/ Registered(a, "auditor")
    THEN gate.policy["auditor"] ELSE config.policy

Admitting == [gate EXCEPT !.mandatory = Required, !.policy["auditor"] = AuditorPolicy]

(* Mutant of JudgeSlot: no slot is reserved for the judge.                  *)
JudgeSlotForgotten(new) == gate.reserved

(* The judge's slot is reserved with the first requests of the audits.      *)
JudgeSlot(new) == gate.reserved \/ new # {}

(* From the committed package to the audits.  Every missing audit and a     *)
(* slot for the judge are admitted together, or none.                       *)
Review ==
    /\ Running("review") /\ Elsewhere /\ UNCHANGED answers
    /\ LET g == Admitting
           missing == {a \in Required : gate.audits[a] = "none"}
           new == {<<a, g.policy["auditor"]>> : a \in missing} \ keys IN
       \/ /\ gate.evidence = "flawed"
          /\ at' = "failed" /\ UNCHANGED <<gate, keys, asking>>
       \/ /\ gate.evidence = "sound" /\ gate.mandatory \notin {{}, Required}
          /\ at' = "refused" /\ UNCHANGED <<gate, keys, asking>>
       \/ /\ gate.evidence = "sound" /\ gate.mandatory \in {{}, Required}
          /\ \/ /\ new # {} /\ Limited
                /\ gate' = g /\ at' = "budget" /\ UNCHANGED <<keys, asking>>
             \/ /\ gate' = [g EXCEPT !.reserved = JudgeSlot(new)]
                /\ keys' = keys \cup new
                /\ asking' = missing /\ at' = "audits"

(* An audit returns.  Its task outlives a cancelled evaluation, and then    *)
(* nobody commits its verdict.                                              *)
AuditAnswers(a) ==
    /\ a \in asking /\ Yields /\ Elsewhere
    /\ asking' = asking \ {a}
    /\ \E v \in {"pass", "fail"} :
        /\ Pays(Key(a, "auditor"), v)
        /\ gate' = IF Running("audits") THEN [gate EXCEPT !.audits[a] = v] ELSE gate
    /\ UNCHANGED <<keys, at>>

(* An audit fails: an issue is recorded, the others go on.                  *)
AuditBreaks(a) ==
    /\ a \in asking /\ Yields
    /\ asking' = asking \ {a}
    /\ IF Running("audits") /\ ~due THEN AuditUnavailable ELSE UNCHANGED vars
    /\ UNCHANGED <<config, durable, at>>

(* An audit is missing: pause.                                              *)
AuditsIncomplete ==
    /\ Running("audits") /\ asking = {} /\ Elsewhere
    /\ \E a \in gate.mandatory : gate.audits[a] = "none"
    /\ at' = "paused"
    /\ UNCHANGED <<gate, keys, answers, asking>>

(* From the last audit to the judge's call, which takes the reserved slot.  *)
AskJudge ==
    /\ Running("audits") /\ asking = {} /\ Elsewhere /\ UNCHANGED <<answers, asking>>
    /\ \A a \in gate.mandatory : gate.audits[a] # "none"
    /\ LET g == IF gate.verdict # "none" \/ Registered("verdict", "judge") THEN gate
                ELSE Renewed("judge")
           call == <<"verdict", g.policy["judge"]>> IN
       \/ /\ gate.verdict # "none"
          /\ at' = Judged(gate) /\ UNCHANGED <<gate, keys>>
       \/ /\ gate.verdict = "none" /\ Limited /\ call \notin keys /\ ~gate.reserved
          /\ gate' = g /\ at' = "budget" /\ UNCHANGED keys
       \/ /\ gate.verdict = "none"
          /\ gate' = [g EXCEPT !.reserved = FALSE]
          /\ keys' = keys \cup {call} /\ at' = "judge"

JudgeAnswers ==
    /\ Running("judge") /\ Elsewhere
    /\ \E v \in {"accepted", "rejected"} :
        /\ Pays(Key("verdict", "judge"), v)
        /\ gate' = [gate EXCEPT !.verdict = v]
        /\ at' = Judged(gate')
    /\ UNCHANGED <<keys, asking>>

(* The loop takes the result.  A budget result gives the judge's slot back. *)
Returns ==
    /\ at \in Results \ {"refused"} /\ EvaluationReturns
    /\ attempt'.result = IF at = "paused" THEN "open" ELSE at
    /\ gate' = IF at = "budget" THEN [gate EXCEPT !.reserved = FALSE] ELSE gate
    /\ at' = "none"
    /\ UNCHANGED <<config, keys, answers, drifted, asking>>

-----------------------------------------------------------------------------
(* validate_acceptance_gate, as far as a later process or another worker    *)
(* can disturb it: the support is recomputed and the mandatory audits are   *)
(* those of the present configuration.                                      *)
Valid == ~drifted /\ ~gate.owed /\ gate.mandatory = Required

Stays == UNCHANGED <<config, durable>>

(* A loop that leaves the evaluation cancels its task, but not the audit    *)
(* tasks it started; they die with the process.                             *)
TaskFollows ==
    /\ at' = IF pc' = "evaluate" \/ (pc' = "collect" /\ aim' = "evaluate")
             THEN at ELSE "none"
    /\ asking' = IF pc' \in Stopped THEN {} ELSE asking

GateRefuses ==
    /\ Refuse
    /\ IF pc = "evaluate" THEN at = "refused" ELSE ~Valid
    /\ TaskFollows /\ Stays

GateAccepts == SettlePassed /\ Valid /\ TaskFollows /\ Stays

(* Only an accepted attempt is looked at again.                             *)
Forgotten == gate' = NoGate /\ keys' = {} /\ answers' = {} /\ drifted' = FALSE

GateRejects ==
    /\ SettleFailed /\ Forgotten
    /\ UNCHANGED <<config, at, asking>>

Commits ==
    /\ FinishCommits
    /\ IF final' = "accepted" THEN Valid /\ UNCHANGED durable
       ELSE Forgotten
    /\ TaskFollows /\ UNCHANGED config

(* A report that is collected is merged into the graph, where it may leave  *)
(* obligations against the target, which is part of every frozen support.   *)
Collects ==
    /\ CollectOne /\ TaskFollows
    /\ \/ drifted' = drifted
       \/ /\ gate # NoGate /\ \E a \in Assignments : pool'[a].report # pool[a].report
          /\ drifted' = TRUE
    /\ UNCHANGED <<config, gate, keys, answers>>

(* record_research_result promotes the accepted target in the graph before  *)
(* the stage is checkpointed, and a crash between starts the stage again.   *)
ResultRecorded ==
    /\ pc = "ended" /\ final = "accepted" /\ ~drifted
    /\ drifted' = TRUE
    /\ UNCHANGED <<vars, config, gate, keys, answers, at, asking>>

Starts ==
    /\ Start
    /\ config' \in IF starts = 0 THEN {config} ELSE Configurations
    /\ at' = "none" /\ asking' = {}
    /\ UNCHANGED durable

(* The process dies with something durable that the attempt has not         *)
(* committed: a paid answer, or the evidence file.                          *)
DiesUncommitted ==
    /\ Crash /\ TaskFollows
    /\ \/ /\ \/ at = "packager" /\ Pays(Key("package", "packager"), "package")
             \/ at = "judge" /\ \E v \in {"accepted", "rejected"} :
                    Pays(Key("verdict", "judge"), v)
             \/ \E a \in asking, v \in {"pass", "fail"} : Pays(Key(a, "auditor"), v)
          /\ UNCHANGED gate
       \/ /\ at = "sources" /\ gate.evidence = "none"
          /\ \E e \in {"sound", "flawed"} : gate' = [gate EXCEPT !.evidence = e]
          /\ UNCHANGED answers
    /\ UNCHANGED <<config, keys, drifted>>

(* The steps of the loop that do not touch the gate.                        *)
Follows(A) == A /\ TaskFollows /\ Stays

Fails == Follows(Raise \/ (Exhausts /\ (pc = "evaluate" => at \in {"packager", "judge"})))
Dies == Follows(Crash)
StartsUp == Follows(Conclude \/ RequestInitial \/ Underfunded \/ Reconcile)
Gathers == Follows(Collection /\ ~CollectOne)
Arbitrates == Follows(Arbitration)
Loops == Follows(LoopRequests \/ LoopArbitrates \/ LoopStops \/ LoopAsks
                 \/ LoopCollects \/ LoopLaunches \/ WaitReturns \/ CollectRaced)
Drains == Follows(Drain)
WorkerDone == Follows(WorkerReturns)
RefutationAudited == Follows(AuditReturns \/ AuditFails)
Decided == Follows(CoordinatorDecides \/ ContextExhausted)

LoopRuns == \/ Opens \/ Returns \/ GateRefuses \/ GateAccepts \/ GateRejects \/ Commits
            \/ Collects \/ Gathers \/ Arbitrates \/ Loops \/ Drains \/ StartsUp
Evaluates == \/ Begin \/ PackagerAnswers \/ SourcesVerified \/ Review
             \/ AuditsIncomplete \/ AskJudge \/ JudgeAnswers
AuditReplies == \E a \in asking : AuditAnswers(a) \/ AuditBreaks(a)

Runs == \/ LoopRuns \/ Evaluates \/ AuditReplies
        \/ WorkerDone \/ RefutationAudited \/ Decided \/ Fails

GateNext == Runs \/ ResultRecorded \/ Starts \/ DiesUncommitted \/ Dies

GateSpec == GateInit /\ [][GateNext]_allvars

(* Fairness.  The least that asyncio and the timeouts of the provider calls *)
(* grant: while a task can run or a call is out, something of it happens.   *)
(* Nothing says that the process is started again, or that a call succeeds. *)
GateFairness == WF_allvars(Runs)

GateFairSpec == GateSpec /\ GateFairness

-----------------------------------------------------------------------------
Answer_ == {"package", "pass", "fail", "accepted", "rejected"}
Request_ == ({"package", "verdict"} \cup Mandatable) \X Policies

Gate == [owed : BOOLEAN, policy : [Role -> Policies],
         evidence : {"none", "sound", "flawed"}, packaged : BOOLEAN,
         mandatory : {{}, Audits, Mandatable},
         audits : [Mandatable -> {"none", "pass", "fail"}],
         reserved : BOOLEAN, verdict : {"none", "accepted", "rejected"}]

GateType ==
    /\ config \in Configurations /\ gate \in Gate
    /\ keys \subseteq Request_ /\ answers \subseteq [key : Request_, says : Answer_]
    /\ drifted \in BOOLEAN /\ asking \subseteq Mandatable
    /\ at \in Results \cup {"none", "begin", "packager", "sources", "review",
                             "audits", "judge"}

(* The type of the state: of the loop's, and of the gate's.                 *)
GateTypeOK == TypeOK /\ GateType

(* However often the process is restarted, and however it is configured     *)
(* each time, no call of an attempt is bought twice (evaluate_candidate:    *)
(* "a registered request retains exact replay settings").                   *)
BoughtOnce == \A x, y \in answers : x.key[1] = y.key[1] => x = y

(* Once the audits are admitted the gate never runs out of budget: the slot *)
(* of the judge was reserved with them.                                     *)
FundedToTheEnd == at = "budget" => \A a \in Mandatable, p \in Policies : <<a, p>> \notin keys

(* What is accepted rests on a sound package and on a passing audit for     *)
(* every role frozen as mandatory, each the paid answer to the request of   *)
(* the policy the attempt records for it, and so is the judge's verdict.    *)
AcceptedIsBacked ==
    attempt.result = "passed" \/ final = "accepted" =>
        /\ gate.evidence = "sound" /\ Audits \subseteq gate.mandatory
        /\ \A a \in gate.mandatory : [key |-> Key(a, "auditor"), says |-> "pass"] \in answers
        /\ [key |-> Key("verdict", "judge"), says |-> "accepted"] \in answers
=============================================================================
