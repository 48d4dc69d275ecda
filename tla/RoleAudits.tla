------------------------------ MODULE RoleAudits ------------------------------
(*****************************************************************************)
(* The two audits a worker's report may start, each by a verifier and a       *)
(* falsifier that do not see each other: the refutation of the main target    *)
(* (stages/counterexample_audit.py) and an intermediate lemma                 *)
(* (stages/lemma_audit.py), as stages/research.py runs, retries and resumes   *)
(* them. Every durable write is a step: a role's immutable response, the      *)
(* gate file, the scheduler's record of the gate, the copy of a gate that a   *)
(* retry will overwrite together with the event that names it, the graph.     *)
(* The process may die between any two; meanwhile people edit the graph.      *)
(*                                                                            *)
(* One report with one result for each lane. What a nomination freezes is     *)
(* named by the content it found in the graph, so a nomination made again     *)
(* from the same content is the same audit, in the same directory. Left out:  *)
(* obligations and issues (text for the coordinator), the tracker of paid     *)
(* calls (CallAccounting), the windows inside append_event (EventJournal),    *)
(* schema-v1 evidence, edits that change the graph's revision but nothing a   *)
(* nomination freezes.                                                        *)
(*****************************************************************************)
EXTENDS Naturals, FiniteSets

CONSTANTS
    Contents,       \* what the graph can hold where a nomination looks
    Untrusted,      \* contents from which no nomination can be built
    None,           \* no content
    Verifier, Falsifier,    \* the roles
    MaxEdits,       \* bound on changes of the graph by others
    MaxFailures,    \* bound on failed role calls
    MaxCrashes      \* bound on deaths of the process

ASSUME AuditConstants ==
    /\ Untrusted \subseteq Contents
    /\ None \notin Contents /\ Verifier # Falsifier
    /\ MaxEdits \in Nat /\ MaxFailures \in Nat /\ MaxCrashes \in Nat

VARIABLES
    content,    \* [Lanes -> what the graph holds now]
    graph,      \* the audits recorded in the graph
    response,   \* [Audits -> [Roles -> the verdict on file, or "none"]]
    gate,       \* [Audits -> the gate file]
    records,    \* the audit records of the report, in the scheduler snapshot
    events,     \* the gates preserved under their digest and named by an event
    rejected,   \* the content whose support was rejected, or None
    outcome,    \* final_outcome of the scheduler
    pc,         \* where research.py is
    job,        \* the audit under way there
    asked,      \* roles whose call has not returned
    edits, failures, crashes

disk == <<response, gate>>
kept == <<records, events, rejected, outcome>>
run  == <<pc, job, asked>>
env  == <<edits, failures, crashes>>
vars == <<content, graph, disk, kept, run, env>>

Roles  == {Verifier, Falsifier}
Lanes  == {"lemma", "refutation"}
Audits == Lanes \X Contents
Verdicts == {"pass", "fail", "blocked"}

\* A refutation's gate counts "blocked" as "fail": one of the two stands for both.
Opinions(a) == IF a[1] = "lemma" THEN Verdicts ELSE Verdicts \ {"blocked"}

(* Gates. --------------------------------------------------------------------*)

\* A gate names the roles whose response it has seen; `issue` stands for the
\* time it was decided at, which makes two gates over the same roles differ.
Gate   == [seen : SUBSET Roles, issue : Nat]
NoGate == [seen |-> {}, issue |-> 0]

Missing(g)  == Roles \ g.seen
Answered(a) == {r \in Roles : response[a][r] # "none"}
Judged(a, g, verdict) == \E r \in g.seen : response[a][r] = verdict

LemmaStatus(a, g) ==
    IF Missing(g) # {} \/ Judged(a, g, "blocked") THEN "blocked"
    ELSE IF Judged(a, g, "fail") THEN "failed" ELSE "passed"

RefutationStatus(a, g) ==
    IF Judged(a, g, "fail") THEN "failed"
    ELSE IF Missing(g) # {} THEN "blocked" ELSE "passed"

Status(a, g) == IF a[1] = "lemma" THEN LemmaStatus(a, g) ELSE RefutationStatus(a, g)

\* The graph still holds what the nomination froze.
Standing(a) == content[a[1]] = a[2]

\* A lemma's gate must name every response on file; a refutation's may lag
\* behind them, but wants its frozen support back unless the caller tolerates
\* its loss.
LemmaVerifies(a) == gate[a].seen = Answered(a)
RefutationVerifies(a, tolerant) == tolerant \/ Standing(a)

\* A gate the audit returns as it stands, asking nobody.
Closed(a) ==
    /\ gate[a] # NoGate
    /\ IF a[1] = "lemma" THEN gate[a].seen = Roles /\ Answered(a) = Roles
                         ELSE Status(a, gate[a]) # "blocked"

(* Records. ------------------------------------------------------------------*)

Record == [audit : Audits, gate : Gate, recorded : BOOLEAN, superseded : BOOLEAN]
Current(lane) == {rec \in records : rec.audit[1] = lane /\ ~rec.superseded}

Changed(rec)   == gate[rec.audit] # rec.gate
Preserved(a)   == <<a, gate[a]>> \in events
Retryable(rec) == Status(rec.audit, rec.gate) = "blocked" /\ Standing(rec.audit)

\* A refutation that must be arbitrated before any proof is accepted.
Unresolved ==
    \/ Current("refutation") = {} /\ rejected = None
    \/ \E rec \in Current("refutation") : Retryable(rec)

LemmaPending ==
    \E rec \in Current("lemma") : ~rec.recorded /\ Missing(gate[rec.audit]) # {}

Replace(old, new) == records' = (records \ {old}) \cup {new}

(* Places. -------------------------------------------------------------------*)

Down == {"crashed", "failed", "refused", "paused", "finished"}
RefutationPlaces == {"arbitrate", "replayRefutation", "loopArbitrate", "collectRefutation"}
LemmaPlaces      == {"reconcile", "replayLemma", "loopReconcile", "collectLemma"}
Places == Down \cup RefutationPlaces \cup LemmaPlaces
               \cup {"start", "promote", "loop", "collected"}

Idle == [step |-> "idle"]       \* nothing begun at this place
Done == [step |-> "done"]       \* an audit was worked on
Job(a, retry, step) == [step |-> step, audit |-> a, retry |-> retry]
Steps == {"begin", "ask", "save", "note", "graph", "commit"}

Go(place) == pc' = place /\ job' = Idle
Settle(state) == job' = state /\ UNCHANGED pc

Init ==
    /\ content \in [Lanes -> Contents]
    /\ graph = {}
    /\ response = [a \in Audits |-> [r \in Roles |-> "none"]]
    /\ gate = [a \in Audits |-> NoGate]
    /\ records = {} /\ events = {} /\ rejected = None /\ outcome = "none"
    /\ pc = "collectRefutation" /\ job = Idle /\ asked = {}
    /\ edits = 0 /\ failures = 0 /\ crashes = 0

(* Start-up: every record is checked against the files. ----------------------*)

\* The gate a retry overwrote was preserved, so a newer one can be explained.
Explained(rec) ==
    /\ Status(rec.audit, rec.gate) = "blocked"
    /\ ~rec.recorded /\ ~rec.superseded
    /\ <<rec.audit, rec.gate>> \in events

Extends(old, new) == old.seen \subseteq new.seen /\ old.seen # new.seen

Adoptable(rec) ==
    /\ Changed(rec) /\ Explained(rec)
    /\ rec.audit[1] = "lemma" => LemmaVerifies(rec.audit)
    /\ Extends(rec.gate, gate[rec.audit])

\* Mutant of Sound: a refutation to be retried must still have its support.
SoundStrict(rec) ==
    /\ ~Changed(rec)
    /\ IF rec.audit[1] = "lemma" THEN LemmaVerifies(rec.audit)
       ELSE RefutationVerifies(rec.audit, rec.superseded)

Sound(rec) ==
    /\ ~Changed(rec)
    /\ IF rec.audit[1] = "lemma" THEN LemmaVerifies(rec.audit)
       ELSE RefutationVerifies(rec.audit,
                rec.superseded \/ Status(rec.audit, rec.gate) = "blocked")

\* Lemma records are checked first.
InTurn(rec) == rec.audit[1] = "refutation" => \A other \in Current("lemma") : Sound(other)

Adopt(rec) ==
    /\ pc = "start" /\ InTurn(rec) /\ Adoptable(rec)
    /\ Replace(rec, [rec EXCEPT !.gate = gate[rec.audit],
                                !.superseded = rec.audit[1] = "refutation" /\ ~Standing(rec.audit)])
    /\ UNCHANGED <<content, graph, disk, events, rejected, outcome, run, env>>

Refuse(rec) ==
    /\ pc = "start" /\ InTurn(rec) /\ ~Adoptable(rec) /\ ~Sound(rec)
    /\ Go("refused")
    /\ UNCHANGED <<content, graph, disk, kept, asked, env>>

Recovered ==
    /\ pc = "start" /\ \A rec \in records : Sound(rec)
    /\ Go("promote")
    /\ UNCHANGED <<content, graph, disk, kept, asked, env>>

\* Before anything else a verified refutation is taken to the graph.
Promote ==
    /\ pc = "promote" /\ job = Idle
    /\ LET verified == {rec \in Current("refutation") :
                            Status(rec.audit, rec.gate) = "passed"}
       IN IF outcome # "none" THEN Go("finished")
          ELSE IF verified = {} THEN Go("arbitrate")
          ELSE \E rec \in verified :
                 IF RefutationVerifies(rec.audit, FALSE)
                 THEN Settle(Job(rec.audit, TRUE, "graph"))
                 ELSE Go("failed")
    /\ UNCHANGED <<content, graph, disk, kept, asked, env>>

(* The refutation lane at a place. --------------------------------------------*)

\* Before the loop and in it the lane is visited only for an unresolved one.
Arbitrating(places) ==
    /\ pc \in places /\ job = Idle
    /\ pc \in {"arbitrate", "loopArbitrate"} => Unresolved

Supersede(rec) ==
    /\ Arbitrating(RefutationPlaces)
    /\ Status(rec.audit, rec.gate) = "blocked" /\ ~Standing(rec.audit)
    /\ Replace(rec, [rec EXCEPT !.superseded = TRUE])
    /\ UNCHANGED <<content, graph, disk, events, rejected, outcome, run, env>>

\* The gate the retry will overwrite is copied and named by an event first.
Preserve(a) == events' = events \cup {<<a, gate[a]>>}

\* Mutant of RetryRefutation: the old gate is not preserved.
RetryUnpreserved(rec) ==
    /\ Arbitrating(RefutationPlaces)
    /\ Retryable(rec)
    /\ Settle(Job(rec.audit, TRUE, "begin"))
    /\ UNCHANGED <<content, graph, disk, kept, asked, env>>

RetryRefutation(rec) ==
    /\ Arbitrating(RefutationPlaces)
    /\ Retryable(rec)
    /\ Preserve(rec.audit)
    /\ Settle(Job(rec.audit, TRUE, "begin"))
    /\ UNCHANGED <<content, graph, disk, records, rejected, outcome, asked, env>>

Reject ==
    /\ Arbitrating(RefutationPlaces)
    /\ Current("refutation") = {}
    /\ content["refutation"] \in Untrusted \ {rejected}
    /\ rejected' = content["refutation"]
    /\ Settle(Done)
    /\ UNCHANGED <<content, graph, disk, records, events, outcome, asked, env>>

NominateRefutation ==
    /\ Arbitrating(RefutationPlaces)
    /\ Current("refutation") = {}
    /\ content["refutation"] \notin Untrusted
    /\ Settle(Job(<<"refutation", content["refutation"]>>, FALSE, "begin"))
    /\ UNCHANGED <<content, graph, disk, kept, asked, env>>

NoRefutation ==
    \/ pc \in {"arbitrate", "loopArbitrate"} /\ ~Unresolved
    \/ Current("refutation") = {} /\ content["refutation"] \in Untrusted \cap {rejected}
    \/ \E rec \in Current("refutation") : Status(rec.audit, rec.gate) = "failed"

(* The lemma lane at a place. --------------------------------------------------*)

\* An unarbitrated refutation keeps its priority before the loop and in it.
AtLemma(places) ==
    /\ pc \in places /\ job = Idle
    /\ pc \in {"reconcile", "loopReconcile"} =>
           ~\E rec \in Current("refutation") : Retryable(rec)

RetryLemma(rec) ==
    /\ AtLemma(LemmaPlaces)
    /\ ~rec.recorded /\ Missing(gate[rec.audit]) # {}
    /\ Preserve(rec.audit)
    /\ Settle(Job(rec.audit, TRUE, "begin"))
    /\ UNCHANGED <<content, graph, disk, records, rejected, outcome, asked, env>>

\* A complete gate the graph has not taken yet; nobody is asked.
ReplayLemma(rec) ==
    /\ AtLemma(LemmaPlaces)
    /\ ~rec.recorded /\ Missing(gate[rec.audit]) = {}
    /\ Settle(Job(rec.audit, TRUE, "graph"))
    /\ UNCHANGED <<content, graph, disk, kept, asked, env>>

NominateLemma ==
    /\ AtLemma({"replayLemma", "collectLemma"})
    /\ Current("lemma") = {}
    /\ content["lemma"] \notin Untrusted
    /\ Settle(Job(<<"lemma", content["lemma"]>>, FALSE, "begin"))
    /\ UNCHANGED <<content, graph, disk, kept, asked, env>>

NoLemma ==
    \/ ~AtLemma(LemmaPlaces)
    \/ /\ Current("lemma") = {}
       /\ pc \in {"reconcile", "loopReconcile"} \/ content["lemma"] \in Untrusted
    \/ \E rec \in Current("lemma") : rec.recorded

(* One audit. -------------------------------------------------------------------*)

At(step) == job.step = step
Step(step) == Settle([job EXCEPT !.step = step])

Begin ==
    /\ At("begin")
    /\ job.audit[1] = "refutation" => Standing(job.audit)
    /\ asked' = IF Closed(job.audit) THEN {} ELSE Missing([seen |-> Answered(job.audit)])
    /\ Step("ask")
    /\ UNCHANGED <<content, graph, disk, kept, env>>

RoleAnswers(role, verdict) ==
    /\ role \in asked /\ verdict \in Opinions(job.audit)
    /\ asked' = asked \ {role}
    /\ response' = [response EXCEPT ![job.audit][role] = verdict]
    /\ UNCHANGED <<content, graph, gate, kept, pc, job, env>>

RoleFails(role) ==
    /\ role \in asked /\ failures < MaxFailures
    /\ asked' = asked \ {role}
    /\ failures' = failures + 1
    /\ UNCHANGED <<content, graph, disk, kept, pc, job, edits, crashes>>

WriteGate ==
    /\ At("ask") /\ asked = {}
    /\ LET a == job.audit
       IN gate' = IF Closed(a) THEN gate
                  ELSE [gate EXCEPT ![a] = [seen |-> Answered(a), issue |-> @.issue + 1]]
    /\ Step("save")
    /\ UNCHANGED <<content, graph, response, kept, asked, env>>

\* Mutant of AfterSave: every decided refutation goes to the graph.
AfterSaveDecided(a, retry) ==
    IF a[1] = "refutation"
    THEN IF Status(a, gate[a]) # "blocked" THEN "graph" ELSE "note"
    ELSE IF Missing(gate[a]) = {} THEN "graph" ELSE IF retry THEN "done" ELSE "note"

\* Only what may be promoted goes to the graph; the rest is noted for a retry,
\* by the same write as the record where a lemma is retried.
AfterSave(a, retry) ==
    IF a[1] = "refutation"
    THEN IF Status(a, gate[a]) = "passed" THEN "graph" ELSE "note"
    ELSE IF Missing(gate[a]) = {} THEN "graph" ELSE IF retry THEN "done" ELSE "note"

\* A retry rewrites its record; a new audit adds one.
Rewritten(a, retry) == IF retry THEN Current(a[1]) ELSE {}

SaveRecord ==
    /\ At("save")
    /\ LET a == job.audit
       IN /\ records' = (records \ Rewritten(a, job.retry))
                        \cup {[audit |-> a, gate |-> gate[a],
                               recorded |-> FALSE, superseded |-> FALSE]}
          /\ events' = IF a[1] = "lemma" /\ job.retry
                       THEN events \cup {<<a, gate[a]>>} ELSE events
          /\ rejected' = IF a[1] = "refutation" /\ ~job.retry THEN None ELSE rejected
          /\ IF AfterSave(a, job.retry) = "done" THEN Settle(Done)
             ELSE Step(AfterSave(a, job.retry))
    /\ UNCHANGED <<content, graph, disk, outcome, asked, env>>

Note ==
    /\ At("note")
    /\ Preserve(job.audit)
    /\ Settle(Done)
    /\ UNCHANGED <<content, graph, disk, records, rejected, outcome, asked, env>>

RecordInGraph ==
    /\ At("graph") /\ Standing(job.audit)
    /\ graph' = graph \cup {job.audit}
    /\ Step("commit")
    /\ UNCHANGED <<content, disk, kept, asked, env>>

Commit ==
    /\ At("commit")
    /\ \E rec \in Current(job.audit[1]) : Replace(rec, [rec EXCEPT !.recorded = TRUE])
    /\ outcome' = IF job.audit[1] = "refutation" THEN "rejected" ELSE outcome
    /\ Settle(Done)
    /\ UNCHANGED <<content, graph, disk, events, rejected, asked, env>>

\* The graph no longer holds what was frozen. Collecting a report and
\* replaying a lemma make an issue of the error; elsewhere it ends the stage.
SupportLost ==
    /\ \/ At("begin") /\ job.audit[1] = "refutation"
       \/ At("graph")
    /\ ~Standing(job.audit)
    /\ IF pc = "collectRefutation" THEN Go("collected")
       ELSE IF pc \in {"collectLemma", "replayLemma"} THEN Settle(Done)
       ELSE Go("failed")
    /\ UNCHANGED <<content, graph, disk, kept, asked, env>>

(* From place to place. ----------------------------------------------------------*)

Left(place) ==
    /\ pc = place
    /\ \/ job = Done
       \/ job = Idle /\ place \in LemmaPlaces /\ NoLemma
       \/ job = Idle /\ place \in RefutationPlaces /\ NoRefutation

Arbitrated(place, next) ==
    /\ Left(place)
    /\ Go(IF outcome # "none" THEN "finished" ELSE IF Unresolved THEN "paused" ELSE next)

Reconciled(place, next) ==
    /\ Left(place)
    /\ Go(IF job = Done /\ LemmaPending THEN "paused" ELSE next)

\* After a resume one audit at most is replayed: the refutation's, or the lemma's.
ReplayedRefutation ==
    /\ Left("replayRefutation")
    /\ Go(IF job = Idle THEN "replayLemma"
          ELSE IF outcome # "none" THEN "finished"
          ELSE IF \E rec \in Current("refutation") : Retryable(rec) THEN "paused"
          ELSE "loop")

Collected ==
    /\ pc = "collected"
    /\ Go(IF outcome # "none" THEN "finished"
          ELSE IF Unresolved \/ LemmaPending THEN "paused" ELSE "loop")

InLoop ==
    /\ pc = "loop"
    /\ \/ Unresolved /\ Go("loopArbitrate")
       \/ ~Unresolved /\ LemmaPending /\ Go("loopReconcile")

Move ==
    /\ \/ pc = "promote" /\ job = Done /\ Go("finished")
       \/ Arbitrated("arbitrate", "reconcile")
       \/ Reconciled("reconcile", "replayRefutation")
       \/ ReplayedRefutation
       \/ Reconciled("replayLemma", "loop")
       \/ Left("collectRefutation") /\ Go(IF outcome = "none" THEN "collectLemma" ELSE "collected")
       \/ Left("collectLemma") /\ Go("collected")
       \/ Collected
       \/ InLoop
       \/ Arbitrated("loopArbitrate", "loop")
       \/ Reconciled("loopReconcile", "loop")
    /\ UNCHANGED <<content, graph, disk, kept, asked, env>>

(* Around the run. ------------------------------------------------------------------*)

Edit(lane, c) ==
    /\ edits < MaxEdits /\ c # content[lane]
    /\ content' = [content EXCEPT ![lane] = c]
    /\ edits' = edits + 1
    /\ UNCHANGED <<graph, disk, kept, run, failures, crashes>>

Crash ==
    /\ pc \notin Down /\ crashes < MaxCrashes
    /\ Go("crashed") /\ asked' = {}
    /\ crashes' = crashes + 1
    /\ UNCHANGED <<content, graph, disk, kept, edits, failures>>

Resume ==
    /\ pc \in Down \ {"finished"}
    /\ Go("start")
    /\ UNCHANGED <<content, graph, disk, kept, asked, env>>

Next ==
    \/ \E rec \in records : \/ Adopt(rec) \/ Refuse(rec)
    \/ \E rec \in Current("refutation") : \/ Supersede(rec) \/ RetryRefutation(rec)
    \/ \E rec \in Current("lemma") : \/ RetryLemma(rec) \/ ReplayLemma(rec)
    \/ Recovered \/ Promote \/ Reject \/ NominateRefutation \/ NominateLemma
    \/ Begin \/ WriteGate \/ SaveRecord \/ Note
    \/ RecordInGraph \/ Commit \/ SupportLost
    \/ \E role \in Roles : \/ RoleFails(role)
                           \/ \E verdict \in Verdicts : RoleAnswers(role, verdict)
    \/ Move
    \/ \E lane \in Lanes, c \in Contents : Edit(lane, c)
    \/ Crash \/ Resume

Spec == Init /\ [][Next]_vars

(* Properties. -----------------------------------------------------------------------*)

\* Every variable keeps its shape, and a report never has two current records
\* for one result: a retry replaces its record, and a new one is nominated only
\* once the old is superseded.
TypeOK ==
    /\ content \in [Lanes -> Contents]
    /\ graph \subseteq Audits
    /\ response \in [Audits -> [Roles -> Verdicts \cup {"none"}]]
    /\ gate \in [Audits -> Gate]
    /\ records \subseteq Record /\ events \subseteq Audits \X Gate
    /\ rejected \in Untrusted \cup {None} /\ outcome \in {"none", "rejected"}
    /\ pc \in Places /\ asked \subseteq Roles
    /\ job \in {Idle, Done} \cup [step : Steps, audit : Audits, retry : BOOLEAN]
    /\ edits \in 0..MaxEdits /\ failures \in 0..MaxFailures /\ crashes \in 0..MaxCrashes
    /\ \A lane \in Lanes : \A one, other \in Current(lane) : one = other

\* Trust in the graph or in the outcome rests on both independent roles: what
\* the graph took has a gate over both, a refutation only a passing one; a
\* record that says the graph took it is right about it and about the gate;
\* and the run ends "rejected" only on such a record, whatever crash fell
\* between the gate, the record, the graph and the outcome.
TrustIsBacked ==
    /\ \A a \in graph :
           /\ gate[a].seen = Roles
           /\ a[1] = "refutation" => Status(a, gate[a]) = "passed"
    /\ \A rec \in records : rec.recorded => rec.audit \in graph /\ rec.gate = gate[rec.audit]
    /\ outcome = "rejected" =>
          \E rec \in Current("refutation") : rec.recorded

\* When a retry has overwritten the gate a record names, the old gate is still
\* there under its digest with an event that names it, the record was open,
\* and no response the old gate counted is gone: what start-up needs to adopt
\* the new gate instead of refusing the run.
RetryIsRecoverable ==
    \A rec \in records : Changed(rec) /\ ~rec.superseded =>
        /\ <<rec.audit, rec.gate>> \in events
        /\ Status(rec.audit, rec.gate) = "blocked" /\ ~rec.recorded
        /\ rec.gate.seen \subseteq gate[rec.audit].seen

\* The only windows in which a resume refuses the run's own files. Torn: a
\* response of a lemma audit is on file and its gate was not rewritten.
\* Reissued: a retry rewrote the gate over the same roles, and the record was
\* not saved. Withdrawn: the graph lost the support of a refutation audit that
\* had ended. Reopened: a superseded audit was run again, its support being back.
Torn(rec)      == rec.audit[1] = "lemma" /\ gate[rec.audit].seen # Answered(rec.audit)
Reissued(rec)  == Changed(rec) /\ ~rec.superseded /\ gate[rec.audit].seen = rec.gate.seen
Withdrawn(rec) == /\ rec.audit[1] = "refutation" /\ ~Standing(rec.audit)
                  /\ ~rec.superseded /\ Status(rec.audit, rec.gate) # "blocked"
Reopened(rec)  == Changed(rec) /\ rec.superseded

\* A run killed, edited under and resumed at any point is refused at start-up
\* in these windows only; everywhere else the checks of the records let it go on.
RefusedInKnownWindow ==
    [][pc # "refused" /\ pc' = "refused" => \E rec \in records :
          Torn(rec) \/ Reissued(rec) \/ Withdrawn(rec) \/ Reopened(rec)]_vars

=============================================================================
