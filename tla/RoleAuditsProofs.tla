--------------------------- MODULE RoleAuditsProofs ---------------------------
(* For all contents and bounds: what the run `audits` checks on a small       *)
(* instance.                                                                  *)
EXTENDS RoleAudits, TLAPS

(* The inductive invariant. --------------------------------------------------*)

\* A gate, on file or in a record, counts responses that are on file.
Filed ==
    /\ \A a \in Audits : gate[a].seen \subseteq Answered(a)
    /\ \A rec \in records : rec.gate.seen \subseteq Answered(rec.audit)

\* Only roles without a response are asked, and only by the audit under way.
Asking == asked # {} => At("ask") /\ asked \cap Answered(job.audit) = {}

\* What may be taken to the graph.
Promotable(a) == /\ gate[a].seen = Roles
                 /\ a[1] = "refutation" => Status(a, gate[a]) = "passed"

Before == {"begin", "ask", "save"}   \* steps before the record is written
After  == {"note", "graph", "commit"}

\* A new audit has no record until one is saved; a retry has one, open, and its
\* gate is preserved until it is overwritten.
Working ==
    job.step \in Steps =>
        /\ job.step \in Before /\ ~job.retry => Current(job.audit[1]) = {}
        /\ job.step \in Before /\ job.retry =>
              \E rec \in Current(job.audit[1]) : rec.audit = job.audit /\ ~rec.recorded
        /\ job.step \in {"begin", "ask"} /\ job.retry =>
              /\ Preserved(job.audit)
              /\ Status(job.audit, gate[job.audit]) = "blocked"
        /\ job.step \in After =>
              \E rec \in Current(job.audit[1]) : rec.audit = job.audit
        /\ job.step \in {"graph", "commit"} => Promotable(job.audit)
        /\ job.step = "commit" => job.audit \in graph

\* Nothing is under way when the process is down or starts, nor between places.
Stopped == pc \in Down \cup {"start", "collected", "loop"} => job = Idle

\* Once start-up is over, every current record names the gate on file, but for
\* the one a retry is about to save.
Agreed ==
    pc \notin Down \cup {"start"} =>
        \A rec \in records :
            ~rec.superseded /\ ~(job.step = "save" /\ job.audit[1] = rec.audit[1])
                => ~Changed(rec)

IInv == /\ TypeOK /\ Filed /\ Asking /\ Working /\ Stopped /\ Agreed
        /\ TrustIsBacked /\ RetryIsRecoverable

(* Initially. ------------------------------------------------------------------*)

LEMMA InitIInv == Init => IInv
<1> SUFFICES ASSUME Init PROVE IInv
    OBVIOUS
<1> USE AuditConstants DEF Init
<1>1. TypeOK
  <2>1. gate \in [Audits -> Gate]
    BY DEF Gate, NoGate
  <2>2. response \in [Audits -> [Roles -> Verdicts \cup {"none"}]]
    OBVIOUS
  <2> QED
    BY <2>1, <2>2 DEF TypeOK, Current, Places, RefutationPlaces, Idle
<1>2. Filed /\ Agreed /\ TrustIsBacked /\ RetryIsRecoverable
  BY DEF Filed, Agreed, TrustIsBacked, RetryIsRecoverable, NoGate
<1>3. Asking /\ Working /\ Stopped
  BY DEF Asking, Working, Stopped, Idle, Steps, Down
<1> QED
  BY <1>1, <1>2, <1>3 DEF IInv

(* What start-up refuses. -------------------------------------------------------*)

\* From the invariant, the four windows are the only causes of a refusal.
LEMMA RefusalStep ==
    ASSUME IInv, [Next]_vars, pc # "refused", pc' = "refused"
    PROVE  \E rec \in records :
              Torn(rec) \/ Reissued(rec) \/ Withdrawn(rec) \/ Reopened(rec)
<1>1. PICK rec \in records : Refuse(rec)
  BY DEF Next, vars, run, disk, kept, env, Adopt, Supersede, RetryRefutation, RetryLemma,
         ReplayLemma, Recovered, Promote, Reject, NominateRefutation, NominateLemma,
         Begin, WriteGate, SaveRecord, Note, RecordInGraph, Commit, SupportLost,
         RoleAnswers, RoleFails, Move, Arbitrated, Reconciled, ReplayedRefutation,
         Collected, InLoop, Edit, Crash, Resume, Go, Settle, Step
<1>2. ~Sound(rec) /\ ~Adoptable(rec)
  BY <1>1 DEF Refuse
<1>3. CASE Changed(rec) /\ rec.superseded
  BY <1>3 DEF Reopened
<1>4. CASE Changed(rec) /\ ~rec.superseded
  <2>1. Explained(rec) /\ rec.gate.seen \subseteq gate[rec.audit].seen
    BY <1>4 DEF IInv, RetryIsRecoverable, Explained
  <2>2. CASE rec.audit[1] = "lemma" /\ ~LemmaVerifies(rec.audit)
    BY <2>2 DEF Torn, LemmaVerifies
  <2>3. CASE ~Extends(rec.gate, gate[rec.audit])
    BY <1>4, <2>1, <2>3 DEF Extends, Reissued
  <2> QED
    BY <1>2, <1>4, <2>1, <2>2, <2>3 DEF Adoptable
<1>5. CASE ~Changed(rec)
  <2>1. CASE rec.audit[1] = "lemma"
    BY <1>2, <1>5, <2>1 DEF Sound, LemmaVerifies, Torn
  <2>2. CASE rec.audit[1] # "lemma"
    <3>1. rec.audit[1] = "refutation"
      BY <2>2 DEF IInv, TypeOK, Record, Audits, Lanes
    <3> QED
      BY <1>2, <1>5, <2>2, <3>1 DEF Sound, RefutationVerifies, Withdrawn
  <2> QED
    BY <2>1, <2>2
<1> QED
  BY <1>3, <1>4, <1>5

(* Facts of one state. ----------------------------------------------------------*)

JobType == {Idle, Done} \cup [step : Steps, audit : Audits, retry : BOOLEAN]

LEMMA JobShape ==
    ASSUME job \in JobType, job.step \in Steps
    PROVE  job \in [step : Steps, audit : Audits, retry : BOOLEAN]
BY DEF JobType, Idle, Done, Steps

\* What a gate says depends on the responses it counts, and on no other.
LEMMA StatusKept ==
    ASSUME NEW a, NEW g, \A r \in g.seen : response'[a][r] = response[a][r]
    PROVE  Status(a, g)' = Status(a, g)
BY DEF Status, LemmaStatus, RefutationStatus, Judged, Missing

\* A gate that may be promoted is never blocked in the refutation's lane, and
\* it is closed where the audit would look at it again.
LEMMA PromotableCloses ==
    ASSUME IInv, NEW a \in Audits, Promotable(a)
    PROVE  Closed(a)
<1>1. Answered(a) = Roles /\ gate[a].seen = Roles
  BY DEF IInv, Filed, Promotable, Answered
<1>2. gate[a] # NoGate
  BY <1>1 DEF NoGate, Roles
<1>3. a[1] # "lemma" => a[1] = "refutation"
  BY DEF Audits, Lanes
<1> QED
  BY <1>1, <1>2, <1>3 DEF Closed, Promotable

(* Steps that leave gates, responses and records alone. --------------------------*)

LEMMA PlaceStep ==
    ASSUME IInv, UNCHANGED <<graph, disk, records, outcome>>,
           events \subseteq events', events' \subseteq Audits \X Gate,
           rejected' \in Untrusted \cup {None},
           content' \in [Lanes -> Contents], pc' \in Places, asked' \subseteq Roles,
           job' \in JobType, edits' \in 0..MaxEdits, failures' \in 0..MaxFailures,
           crashes' \in 0..MaxCrashes, Asking', Working', Stopped', Agreed'
    PROVE  IInv'
<1> USE DEF IInv, disk
<1>1. TypeOK'
  BY DEF TypeOK, Current, JobType
<1>2. Filed'
  BY DEF Filed, Answered
<1>3. TrustIsBacked'
  <2>1. \A a, g : Status(a, g)' = Status(a, g)
    BY DEF Status, LemmaStatus, RefutationStatus, Judged, Missing
  <2> QED
    BY <2>1 DEF TrustIsBacked, Current
<1>4. RetryIsRecoverable'
  <2>1. \A a, g : Status(a, g)' = Status(a, g)
    BY DEF Status, LemmaStatus, RefutationStatus, Judged, Missing
  <2> QED
    BY <2>1 DEF RetryIsRecoverable, Changed
<1> QED
  BY <1>1, <1>2, <1>3, <1>4

\* Nothing under way after the step.
LEMMA GoStep ==
    ASSUME IInv, NEW place \in Places, Go(place), asked' = {},
           UNCHANGED <<content, graph, disk, kept, edits, failures>>,
           crashes' \in 0..MaxCrashes,
           place \in Down \cup {"start"} \/ (pc \notin Down \cup {"start"} /\ job.step # "save")
    PROVE  IInv'
<1>1. Asking' /\ Working' /\ Stopped'
  BY DEF Asking, Working, Stopped, Go, Idle, Steps
<1>2. Agreed'
  BY DEF IInv, Agreed, Go, Idle, Changed, disk, kept
<1>3. /\ content' \in [Lanes -> Contents] /\ edits' \in 0..MaxEdits
      /\ failures' \in 0..MaxFailures /\ events' \subseteq Audits \X Gate
      /\ rejected' \in Untrusted \cup {None}
  BY DEF IInv, TypeOK, kept
<1> QED
  BY <1>1, <1>2, <1>3, PlaceStep DEF Go, JobType, kept

LEMMA NotAsked ==
    ASSUME IInv, job.step # "ask" PROVE asked = {}
BY DEF IInv, Asking, At

LEMMA RecoveredStep == ASSUME IInv, Recovered PROVE IInv'
<1> USE DEF Recovered
<1>1. asked = {} /\ job = Idle
  BY NotAsked DEF IInv, Stopped, Idle
<1>2. Asking' /\ Working' /\ Stopped'
  BY <1>1 DEF Asking, Working, Stopped, Go, Idle, Steps, Down
<1>3. Agreed'
  BY DEF Agreed, Sound, Changed, Go, disk, kept
<1>4. /\ content' \in [Lanes -> Contents] /\ events' \subseteq Audits \X Gate
      /\ rejected' \in Untrusted \cup {None}
      /\ edits' \in 0..MaxEdits /\ failures' \in 0..MaxFailures /\ crashes' \in 0..MaxCrashes
  BY DEF IInv, TypeOK, kept, env
<1> QED
  BY <1>1, <1>2, <1>3, <1>4, PlaceStep DEF Go, JobType, kept, Places

LEMMA RefuseStep == ASSUME IInv, NEW rec \in records, Refuse(rec) PROVE IInv'
<1>1. asked = {} /\ job = Idle
  BY NotAsked DEF Refuse, IInv, Stopped, Idle
<1>2. crashes' \in 0..MaxCrashes
  BY DEF Refuse, IInv, TypeOK, env
<1> QED
  BY <1>1, <1>2, GoStep DEF Refuse, Places, Down, env

LEMMA MoveStep == ASSUME IInv, Move PROVE IInv'
<1>1. job \in {Idle, Done} /\ asked = {}
  <2>1. job \in {Idle, Done}
    BY DEF Move, Arbitrated, Reconciled, ReplayedRefutation, Collected, InLoop, Left,
           IInv, Stopped
  <2> QED
    BY <2>1, NotAsked DEF Idle, Done
<1>2. crashes' \in 0..MaxCrashes
  BY DEF Move, IInv, TypeOK, env
<1>3. pc \notin Down \cup {"start"} /\ \E place \in Places : Go(place)
  BY DEF Move, Arbitrated, Reconciled, ReplayedRefutation, Collected, InLoop, Left, Down,
         Places, RefutationPlaces, LemmaPlaces
<1> QED
  BY <1>1, <1>2, <1>3, GoStep DEF Move, Idle, Done, env

LEMMA CrashStep == ASSUME IInv, Crash PROVE IInv'
<1>1. crashes' \in 0..MaxCrashes
  BY AuditConstants DEF Crash, IInv, TypeOK
<1> QED
  BY <1>1, GoStep DEF Crash, Places, Down

LEMMA ResumeStep == ASSUME IInv, Resume PROVE IInv'
<1>1. asked = {}
  BY NotAsked DEF Resume, IInv, Stopped, Idle
<1>2. crashes' \in 0..MaxCrashes
  BY DEF Resume, IInv, TypeOK, env
<1> QED
  BY <1>1, <1>2, GoStep DEF Resume, Places, env

LEMMA EditStep ==
    ASSUME IInv, NEW lane \in Lanes, NEW c \in Contents, Edit(lane, c) PROVE IInv'
<1> USE DEF Edit, disk, kept, run
<1>1. /\ content' \in [Lanes -> Contents] /\ edits' \in 0..MaxEdits
      /\ failures' \in 0..MaxFailures /\ crashes' \in 0..MaxCrashes
      /\ events' \subseteq Audits \X Gate /\ rejected' \in Untrusted \cup {None}
      /\ pc' \in Places /\ asked' \subseteq Roles /\ job' \in JobType
  BY AuditConstants DEF IInv, TypeOK, JobType
<1>2. Asking' /\ Stopped' /\ Agreed'
  BY DEF IInv, Asking, At, Answered, Stopped, Agreed, Changed
<1>3. Working'
  BY DEF IInv, Working, Current, Preserved, Promotable, Status, LemmaStatus,
         RefutationStatus, Judged, Missing
<1> QED
  BY <1>1, <1>2, <1>3, PlaceStep

LEMMA RoleFailsStep ==
    ASSUME IInv, NEW role \in Roles, RoleFails(role) PROVE IInv'
<1> USE DEF RoleFails, disk, kept
<1>1. /\ content' \in [Lanes -> Contents] /\ edits' \in 0..MaxEdits
      /\ failures' \in 0..MaxFailures /\ crashes' \in 0..MaxCrashes
      /\ events' \subseteq Audits \X Gate /\ rejected' \in Untrusted \cup {None}
      /\ pc' \in Places /\ asked' \subseteq Roles /\ job' \in JobType
  BY AuditConstants DEF IInv, TypeOK, JobType
<1>2. Asking' /\ Stopped' /\ Agreed'
  BY DEF IInv, Asking, At, Answered, Stopped, Agreed, Changed
<1>3. Working'
  BY DEF IInv, Working, Current, Preserved, Promotable, Status, LemmaStatus,
         RefutationStatus, Judged, Missing
<1> QED
  BY <1>1, <1>2, <1>3, PlaceStep

\* The same place with another job: what the job says of the records is what
\* is left to show.
LEMMA SettleStep ==
    ASSUME IInv, NEW state \in JobType, Settle(state),
           UNCHANGED <<content, graph, disk, records, outcome, env>>,
           events \subseteq events', events' \subseteq Audits \X Gate,
           rejected' \in Untrusted \cup {None}, asked' \subseteq Roles, Asking', Working',
           pc \notin Down \cup {"start", "collected", "loop"}, job.step # "save"
    PROVE  IInv'
<1>1. Stopped' /\ Agreed'
  BY DEF IInv, Settle, Stopped, Agreed, Changed, disk
<1> QED
  BY <1>1, PlaceStep DEF IInv, TypeOK, Settle, env

\* Which steps of an audit leave the place where it runs.
LEMMA AtPlace ==
    ASSUME IInv, job # Idle
    PROVE  pc \notin Down \cup {"start", "collected", "loop"}
BY DEF IInv, Stopped

\* A current record of a running process names the gate on file.
LEMMA CurrentGate ==
    ASSUME IInv, pc \notin Down \cup {"start"}, job.step # "save",
           NEW rec \in records, ~rec.superseded
    PROVE  gate[rec.audit] = rec.gate
BY DEF IInv, Agreed, Changed

LEMMA OpenIsNotRecorded ==
    ASSUME IInv, NEW rec \in records, rec.audit[1] = "refutation",
           Status(rec.audit, rec.gate) = "blocked"
    PROVE  ~rec.recorded
<1>1. rec.recorded => rec.audit \in graph /\ rec.gate = gate[rec.audit]
  BY DEF IInv, TrustIsBacked
<1>2. rec.audit \in graph => Status(rec.audit, gate[rec.audit]) = "passed"
  BY DEF IInv, TrustIsBacked
<1> QED
  BY <1>1, <1>2

LEMMA RetryRefutationStep ==
    ASSUME IInv, NEW rec \in Current("refutation"), RetryRefutation(rec) PROVE IInv'
<1> USE DEF RetryRefutation
<1>1. pc \notin Down \cup {"start", "collected", "loop"} /\ job = Idle /\ asked = {}
  BY NotAsked DEF Arbitrating, Idle, RefutationPlaces, Down
<1>2. rec \in records /\ ~rec.superseded /\ rec.audit \in Audits /\ rec.audit[1] = "refutation"
  BY DEF Current, IInv, TypeOK, Record
<1>3. /\ gate[rec.audit] = rec.gate /\ gate[rec.audit] \in Gate
      /\ Status(rec.audit, gate[rec.audit]) = "blocked" /\ ~rec.recorded
  BY <1>1, <1>2, CurrentGate, OpenIsNotRecorded DEF Idle, Retryable, IInv, TypeOK
<1>4. Status(rec.audit, gate[rec.audit])' = Status(rec.audit, gate[rec.audit])
  BY DEF Status, LemmaStatus, RefutationStatus, Judged, Missing, disk
<1>5. Working'
  BY <1>2, <1>3, <1>4 DEF Working, Settle, Job, Preserve, Preserved, Current, Before, After,
                         disk
<1>6. Job(rec.audit, TRUE, "begin") \in JobType
  BY <1>2 DEF Job, JobType, Steps
<1>7. events \subseteq events' /\ events' \subseteq Audits \X Gate /\ Asking'
  BY <1>1, <1>2, <1>3 DEF Preserve, IInv, TypeOK, Asking
<1> QED
  BY ZenonT(30), <1>1, <1>5, <1>6, <1>7, SettleStep DEF IInv, TypeOK, Idle

LEMMA RetryLemmaStep ==
    ASSUME IInv, NEW rec \in Current("lemma"), RetryLemma(rec) PROVE IInv'
<1> USE DEF RetryLemma
<1>1. pc \notin Down \cup {"start", "collected", "loop"} /\ job = Idle /\ asked = {}
  BY NotAsked DEF AtLemma, Idle, LemmaPlaces, Down
<1>2. rec \in records /\ ~rec.superseded /\ rec.audit \in Audits /\ rec.audit[1] = "lemma"
  BY DEF Current, IInv, TypeOK, Record
<1>3. gate[rec.audit] \in Gate /\ Status(rec.audit, gate[rec.audit])' = "blocked"
  BY <1>2 DEF IInv, TypeOK, Status, LemmaStatus, Missing, disk
<1>4. Working'
  BY <1>2, <1>3 DEF Working, Settle, Job, Preserve, Preserved, Current, Before, After, disk
<1>5. Job(rec.audit, TRUE, "begin") \in JobType
  BY <1>2 DEF Job, JobType, Steps
<1>6. events \subseteq events' /\ events' \subseteq Audits \X Gate /\ Asking'
  BY <1>1, <1>2, <1>3 DEF Preserve, IInv, TypeOK, Asking
<1> QED
  BY ZenonT(30), <1>1, <1>4, <1>5, <1>6, SettleStep DEF IInv, TypeOK, Idle

LEMMA ReplayLemmaStep ==
    ASSUME IInv, NEW rec \in Current("lemma"), ReplayLemma(rec) PROVE IInv'
<1> USE DEF ReplayLemma
<1>1. pc \notin Down \cup {"start", "collected", "loop"} /\ job = Idle /\ asked = {}
  BY NotAsked DEF AtLemma, Idle, LemmaPlaces, Down
<1>2. rec \in records /\ ~rec.superseded /\ rec.audit \in Audits /\ rec.audit[1] = "lemma"
  BY DEF Current, IInv, TypeOK, Record
<1>3. Promotable(rec.audit)'
  <2>1. gate[rec.audit] \in Gate /\ Roles \ gate[rec.audit].seen = {}
    BY <1>2 DEF IInv, TypeOK, Missing
  <2>2. gate[rec.audit].seen = Roles
    BY <2>1 DEF Gate
  <2> QED
    BY <1>2, <2>2 DEF Promotable, disk
<1>4. Working'
  BY <1>2, <1>3 DEF Working, Settle, Job, Current, Before, After, kept
<1>5. Job(rec.audit, TRUE, "graph") \in JobType /\ Asking'
  BY <1>1, <1>2 DEF Job, JobType, Steps, Asking
<1> QED
  BY ZenonT(30), <1>1, <1>4, <1>5, SettleStep DEF IInv, TypeOK, Idle, kept

LEMMA PromoteStep == ASSUME IInv, Promote PROVE IInv'
<1> USE DEF Promote
<1>1. pc = "promote" /\ job = Idle /\ asked = {}
  BY NotAsked DEF Idle
<1>2. CASE \E place \in Places : Go(place)
  <2>1. crashes' \in 0..MaxCrashes
    BY DEF IInv, TypeOK, env
  <2> QED
    BY <1>1, <1>2, <2>1, GoStep DEF Down, Idle, env
<1>3. CASE \E rec \in Current("refutation") :
              /\ Status(rec.audit, rec.gate) = "passed"
              /\ Settle(Job(rec.audit, TRUE, "graph"))
  <2>1. PICK rec \in Current("refutation") :
              /\ Status(rec.audit, rec.gate) = "passed"
              /\ Settle(Job(rec.audit, TRUE, "graph"))
    BY <1>3
  <2>2. /\ rec \in records /\ ~rec.superseded /\ rec.audit \in Audits
        /\ rec.audit[1] = "refutation" /\ rec.gate \in Gate
    BY DEF Current, IInv, TypeOK, Record
  <2>3. gate[rec.audit] = rec.gate
    BY <1>1, <2>2, CurrentGate DEF Idle, Down
  <2>4. rec.gate.seen = Roles
    BY <2>1, <2>2 DEF Status, RefutationStatus, Missing, Gate
  <2>5. Promotable(rec.audit)
    BY <2>1, <2>3, <2>4 DEF Promotable
  <2>6. Promotable(rec.audit)'
    BY <2>5 DEF Promotable, Status, LemmaStatus, RefutationStatus, Judged, Missing, disk
  <2>7. Working'
    BY <2>1, <2>2, <2>6 DEF Working, Settle, Job, Current, Before, After, kept
  <2>8. Job(rec.audit, TRUE, "graph") \in JobType /\ Asking'
    BY <1>1, <2>2 DEF Job, JobType, Steps, Asking
  <2> QED
    <3>1. pc \notin Down \cup {"start", "collected", "loop"} /\ job.step # "save"
      BY <1>1 DEF Down, Idle
    <3>2. /\ events \subseteq events' /\ events' \subseteq Audits \X Gate
          /\ rejected' \in Untrusted \cup {None} /\ asked' \subseteq Roles
          /\ UNCHANGED <<content, graph, disk, records, outcome, env>>
      BY DEF IInv, TypeOK, kept
    <3> QED
      BY <2>1, <2>7, <2>8, <3>1, <3>2, SettleStep
<1> QED
  BY <1>2, <1>3 DEF Places, Down, RefutationPlaces

LEMMA RejectStep == ASSUME IInv, Reject PROVE IInv'
<1> USE DEF Reject
<1>1. pc \notin Down \cup {"start", "collected", "loop"} /\ job = Idle /\ asked = {}
  BY NotAsked DEF Arbitrating, Idle, RefutationPlaces, Down
<1>2. Working' /\ Asking'
  BY <1>1 DEF Working, Settle, Done, Steps, Asking
<1> QED
  BY <1>1, <1>2, SettleStep DEF IInv, TypeOK, Idle, JobType

LEMMA NominateStep ==
    ASSUME IInv, NominateRefutation \/ NominateLemma PROVE IInv'
<1>1. PICK lane \in Lanes :
          /\ pc \notin Down \cup {"start", "collected", "loop"} /\ job = Idle
          /\ Current(lane) = {} /\ Settle(Job(<<lane, content[lane]>>, FALSE, "begin"))
          /\ UNCHANGED <<content, graph, disk, kept, asked, env>>
  BY DEF NominateRefutation, NominateLemma, Arbitrating, AtLemma, RefutationPlaces, Down, Lanes
<1>2. <<lane, content[lane]>> \in Audits /\ asked = {}
  BY <1>1, NotAsked DEF IInv, TypeOK, Audits, Idle
<1>3. Working' /\ Asking'
  BY <1>1, <1>2 DEF Working, Settle, Job, Before, After, Current, Asking, kept
<1>4. Job(<<lane, content[lane]>>, FALSE, "begin") \in JobType
  BY <1>2 DEF Job, JobType, Steps
<1> QED
  BY <1>1, <1>3, <1>4, SettleStep DEF IInv, TypeOK, Idle, kept

LEMMA NoteStep == ASSUME IInv, Note PROVE IInv'
<1> USE DEF Note
<1>1. job.step = "note" /\ job # Idle /\ job \in [step : Steps, audit : Audits, retry : BOOLEAN]
  BY JobShape DEF At, Idle, Steps, IInv, TypeOK, JobType
<1>2. asked = {} /\ pc \notin Down \cup {"start", "collected", "loop"}
  BY <1>1, NotAsked, AtPlace
<1>3. Working' /\ Asking'
  BY <1>2 DEF Working, Settle, Done, Steps, Asking
<1>4. events \subseteq events' /\ events' \subseteq Audits \X Gate
  BY <1>1 DEF Preserve, IInv, TypeOK
<1> QED
  BY <1>1, <1>2, <1>3, <1>4, SettleStep DEF IInv, TypeOK, JobType

LEMMA BeginStep == ASSUME IInv, Begin PROVE IInv'
<1> USE DEF Begin, Step
<1>1. job.step = "begin" /\ job # Idle /\ job \in [step : Steps, audit : Audits, retry : BOOLEAN]
  BY JobShape DEF At, Idle, Steps, IInv, TypeOK, JobType
<1>2. pc \notin Down \cup {"start", "collected", "loop"}
  BY <1>1, AtPlace
<1>3. /\ job' = [job EXCEPT !.step = "ask"] /\ job'.step = "ask"
      /\ job'.audit = job.audit /\ job'.retry = job.retry
      /\ job' \in [step : Steps, audit : Audits, retry : BOOLEAN]
  BY <1>1 DEF Settle, Steps
<1>4. Asking' /\ asked' \subseteq Roles
  BY <1>3 DEF Asking, At, Missing, Answered, Roles, disk
<1>5. Working'
  <2>1. Status(job.audit, gate[job.audit])' = Status(job.audit, gate[job.audit])
    BY <1>3 DEF Status, LemmaStatus, RefutationStatus, Judged, Missing, disk
  <2>2. /\ Current(job.audit[1])' = Current(job.audit[1])
        /\ Preserved(job.audit)' = Preserved(job.audit)
    BY <1>3 DEF Current, Preserved, kept, disk
  <2> QED
    BY <1>1, <1>3, <2>1, <2>2 DEF IInv, Working, Before, After
<1>6. [job EXCEPT !.step = "ask"] \in JobType
  BY <1>3 DEF JobType
<1> QED
  BY <1>1, <1>2, <1>4, <1>5, <1>6, SettleStep DEF IInv, TypeOK, kept

LEMMA SupportLostStep == ASSUME IInv, SupportLost PROVE IInv'
<1> USE DEF SupportLost
<1>1. job.step \in {"begin", "graph"} /\ job # Idle
  BY DEF At, Idle
<1>2. asked = {} /\ pc \notin Down \cup {"start", "collected", "loop"}
  BY <1>1, NotAsked, AtPlace
<1>3. CASE \E place \in Places : Go(place)
  <2>1. crashes' \in 0..MaxCrashes
    BY DEF IInv, TypeOK, env
  <2> QED
    BY <1>1, <1>2, <1>3, <2>1, GoStep DEF env
<1>4. CASE Settle(Done)
  <2>1. Working' /\ Asking'
    BY <1>2, <1>4 DEF Working, Settle, Done, Steps, Asking
  <2> QED
    BY <1>1, <1>2, <1>4, <2>1, SettleStep DEF IInv, TypeOK, JobType, kept
<1> QED
  BY <1>3, <1>4 DEF Places, Down

(* Steps that write a response, a gate or the graph. ------------------------------*)

\* A role without a response gives one: no gate counted it.
LEMMA RoleAnswersStep ==
    ASSUME IInv, NEW role \in Roles, NEW verdict \in Verdicts, RoleAnswers(role, verdict)
    PROVE  IInv'
<1> USE DEF RoleAnswers, kept, env
<1>1. /\ job.step = "ask" /\ job \in [step : Steps, audit : Audits, retry : BOOLEAN]
      /\ role \notin Answered(job.audit)
  BY JobShape DEF IInv, Asking, At, Steps, TypeOK, JobType
<1>2. response' \in [Audits -> [Roles -> Verdicts \cup {"none"}]]
  BY <1>1 DEF IInv, TypeOK
<1>3. TypeOK'
  BY <1>2 DEF IInv, TypeOK, Current
<1>4. \A a \in Audits : \A r \in Roles : a # job.audit \/ r # role =>
          response'[a][r] = response[a][r]
  BY <1>1 DEF IInv, TypeOK
<1>5. \A a \in Audits : Answered(a) \subseteq Answered(a)'
  BY <1>1, <1>4 DEF Answered
<1>6. \A a \in Audits :
          Answered(a)' \subseteq Answered(a) \cup (IF a = job.audit THEN {role} ELSE {})
  BY <1>4 DEF Answered
<1>7. ASSUME NEW a \in Audits, NEW g \in Gate, g.seen \subseteq Answered(a)
      PROVE  Status(a, g)' = Status(a, g)
  <2>1. \A r \in g.seen : response'[a][r] = response[a][r]
    BY <1>1, <1>4, <1>7 DEF Gate
  <2> QED
    BY <2>1, StatusKept
<1>8. /\ \A a \in Audits : Status(a, gate[a])' = Status(a, gate[a])
      /\ \A rec \in records : Status(rec.audit, rec.gate)' = Status(rec.audit, rec.gate)
  BY <1>7 DEF IInv, TypeOK, Filed, Record
<1>9. Filed'
  BY <1>5 DEF IInv, Filed, TypeOK, Record
<1>10. Asking'
  BY <1>1, <1>6 DEF IInv, Asking, At
<1>11. Working'
  BY <1>1, <1>8 DEF IInv, Working, Current, Preserved, Promotable, Steps
<1>12. Stopped' /\ Agreed'
  BY DEF IInv, Stopped, Agreed, Changed
<1>13. TrustIsBacked'
  BY <1>8 DEF IInv, TypeOK, TrustIsBacked, Current
<1>14. RetryIsRecoverable'
  BY <1>8 DEF IInv, RetryIsRecoverable, Changed
<1> QED
  BY <1>3, <1>9, <1>10, <1>11, <1>12, <1>13, <1>14 DEF IInv

LEMMA RecordInGraphStep == ASSUME IInv, RecordInGraph PROVE IInv'
<1> USE DEF RecordInGraph, Step, disk, kept, env
<1>1. /\ job.step = "graph" /\ job \in [step : Steps, audit : Audits, retry : BOOLEAN]
      /\ job # Idle
  BY JobShape DEF At, Steps, IInv, TypeOK, JobType, Idle
<1>2. asked = {} /\ pc \notin Down \cup {"start", "collected", "loop"}
  BY <1>1, NotAsked, AtPlace
<1>3. /\ job'.step = "commit" /\ job'.audit = job.audit /\ job'.retry = job.retry
      /\ job' \in [step : Steps, audit : Audits, retry : BOOLEAN]
  BY <1>1 DEF Settle, Steps
<1>4. \A a, g : Status(a, g)' = Status(a, g)
  BY DEF Status, LemmaStatus, RefutationStatus, Judged, Missing
<1>5. Promotable(job.audit)
  BY <1>1 DEF IInv, Working, Steps
<1>6. TypeOK'
  BY <1>1, <1>3 DEF IInv, TypeOK, Current, Settle
<1>7. Filed' /\ Asking' /\ Stopped' /\ Agreed'
  BY <1>1, <1>2, <1>3 DEF IInv, Filed, Answered, Asking, Stopped, Agreed, Changed, Settle
<1>8. Working'
  BY <1>1, <1>3, <1>4 DEF IInv, Working, Before, After, Current, Promotable, Steps
<1>9. TrustIsBacked'
  BY <1>4, <1>5 DEF IInv, TrustIsBacked, Promotable, Current
<1>10. RetryIsRecoverable'
  BY <1>4 DEF IInv, RetryIsRecoverable, Changed
<1> QED
  BY <1>6, <1>7, <1>8, <1>9, <1>10 DEF IInv

\* The gate of the audit under way is written again. The graph has no such
\* audit, for its gate would be closed; a current record of it is the one being
\* retried, whose gate was preserved before the roles were asked.
LEMMA WriteGateStep == ASSUME IInv, WriteGate PROVE IInv'
<1> USE DEF WriteGate, Step, kept, env
<1>1. /\ job.step = "ask" /\ job \in [step : Steps, audit : Audits, retry : BOOLEAN]
      /\ job # Idle /\ job.audit \in Audits
  BY JobShape DEF At, Steps, IInv, TypeOK, JobType, Idle
<1>2. asked' = {} /\ pc \notin Down \cup {"start", "collected", "loop"}
  BY <1>1, AtPlace
<1>3. /\ job'.step = "save" /\ job'.audit = job.audit /\ job'.retry = job.retry
      /\ job' \in [step : Steps, audit : Audits, retry : BOOLEAN]
  BY <1>1 DEF Settle, Steps
<1>4. gate' \in [Audits -> Gate] /\ \A a \in Audits : a # job.audit => gate'[a] = gate[a]
  <2>1. gate[job.audit] \in Gate
    BY <1>1 DEF IInv, TypeOK
  <2>2. [seen |-> Answered(job.audit), issue |-> gate[job.audit].issue + 1] \in Gate
    BY <2>1 DEF Gate, Answered
  <2> QED
    BY <2>2 DEF IInv, TypeOK
<1>5. \A a, g : Status(a, g)' = Status(a, g)
  BY DEF Status, LemmaStatus, RefutationStatus, Judged, Missing
<1>6. TypeOK'
  BY <1>1, <1>2, <1>3, <1>4 DEF IInv, TypeOK, Current, Settle
<1>7. Asking' /\ Stopped'
  BY <1>1, <1>2 DEF IInv, Asking, Stopped, Settle
<1>8. Filed'
  <2>1. \A a \in Audits : gate'[a].seen \subseteq Answered(a)
    BY <1>1, <1>4 DEF IInv, Filed, TypeOK
  <2> QED
    BY <2>1 DEF IInv, Filed, Answered
<1>9. Working'
  BY <1>1, <1>3 DEF IInv, Working, Before, After, Current, Steps
<1>10. Agreed'
  <2>1. ASSUME NEW rec \in records, ~rec.superseded, rec.audit[1] # job.audit[1]
        PROVE  ~Changed(rec)'
    <3>1. rec.audit \in Audits /\ ~Changed(rec)
      BY <1>1, <1>2, <2>1 DEF IInv, TypeOK, Record, Agreed
    <3> QED
      BY <1>4, <2>1, <3>1 DEF Changed
  <2> QED
    BY <1>3, <2>1 DEF Agreed
<1>11. CASE Closed(job.audit)
  <2>1. gate' = gate
    BY <1>11
  <2> QED
    BY <1>5, <1>6, <1>7, <1>8, <1>9, <1>10, <2>1
       DEF IInv, TrustIsBacked, Current, RetryIsRecoverable, Changed
<1>12. CASE ~Closed(job.audit)
  <2>1. job.audit \notin graph
    BY <1>1, <1>12, PromotableCloses DEF IInv, TrustIsBacked, Promotable
  <2>2. TrustIsBacked'
    BY <1>4, <1>5, <2>1 DEF IInv, TypeOK, TrustIsBacked, Current
  <2>3. ASSUME NEW rec \in records, Changed(rec)', ~rec.superseded
        PROVE  /\ <<rec.audit, rec.gate>> \in events
               /\ Status(rec.audit, rec.gate) = "blocked" /\ ~rec.recorded
               /\ rec.gate.seen \subseteq gate'[rec.audit].seen
    <3>1. rec.audit \in Audits /\ gate[rec.audit] = rec.gate
      BY <1>1, <1>2, <2>3, CurrentGate DEF IInv, TypeOK, Record
    <3>2. rec.audit = job.audit
      BY <1>4, <2>3, <3>1 DEF Changed
    <3>3. rec \in Current(job.audit[1])
      BY <2>3, <3>2 DEF Current
    <3>4. job.retry
      BY <1>1, <3>3 DEF IInv, Working, Before, Steps
    <3>5. Preserved(job.audit) /\ Status(job.audit, gate[job.audit]) = "blocked"
      BY <1>1, <3>4 DEF IInv, Working, Steps
    <3>6. rec.recorded => rec.audit \in graph
      BY DEF IInv, TrustIsBacked
    <3>7. gate'[job.audit].seen = Answered(job.audit)
      BY <1>1, <1>12 DEF IInv, TypeOK
    <3>8. rec.gate.seen \subseteq Answered(job.audit)
      BY <3>2 DEF IInv, Filed
    <3> QED
      BY <2>1, <3>1, <3>2, <3>5, <3>6, <3>7, <3>8 DEF Preserved
  <2>4. RetryIsRecoverable'
    BY <1>5, <2>3 DEF RetryIsRecoverable
  <2> QED
    BY <1>6, <1>7, <1>8, <1>9, <1>10, <2>2, <2>4 DEF IInv
<1> QED
  BY <1>11, <1>12

(* Steps that write a record. ------------------------------------------------------*)

\* One record takes the place of others: it counts what is on file, does not
\* claim more than the graph holds, and is the only current one of its lane.
LEMMA RecordsStep ==
    ASSUME IInv, NEW old \in SUBSET records, NEW new \in Record,
           records' = (records \ old) \cup {new}, UNCHANGED <<content, graph, disk>>,
           ~new.superseded => Current(new.audit[1]) \subseteq old /\ ~Changed(new),
           new.gate.seen \subseteq Answered(new.audit),
           new.recorded => new.audit \in graph /\ new.gate = gate[new.audit],
           outcome' = "rejected" => \E rec \in Current("refutation")' : rec.recorded,
           events \subseteq events', events' \subseteq Audits \X Gate,
           rejected' \in Untrusted \cup {None}, outcome' \in {"none", "rejected"},
           UNCHANGED <<pc, env>>, asked' \subseteq Roles, job' \in JobType,
           Asking', Working', Stopped', Agreed'
    PROVE  IInv'
<1> USE DEF disk, env
<1>1. \A a, g : Status(a, g)' = Status(a, g)
  BY DEF Status, LemmaStatus, RefutationStatus, Judged, Missing
<1>2. \A lane \in Lanes : \A one, other \in Current(lane)' : one = other
  <2> SUFFICES ASSUME NEW lane \in Lanes, NEW one \in Current(lane)',
                      NEW other \in Current(lane)'
               PROVE  one = other
    OBVIOUS
  <2>1. one # new => one \in Current(lane) /\ one \notin old
    BY DEF Current
  <2>2. other # new => other \in Current(lane) /\ other \notin old
    BY DEF Current
  <2>3. one = new \/ other = new => new.audit[1] = lane /\ ~new.superseded
    BY DEF Current
  <2> QED
    BY <2>1, <2>2, <2>3 DEF IInv, TypeOK
<1>3. TypeOK'
  BY <1>2 DEF IInv, TypeOK, JobType
<1>4. Filed'
  BY DEF IInv, Filed, Answered
<1>5. TrustIsBacked'
  BY <1>1 DEF IInv, TrustIsBacked
<1>6. RetryIsRecoverable'
  BY <1>1 DEF IInv, RetryIsRecoverable, Changed
<1> QED
  BY <1>3, <1>4, <1>5, <1>6 DEF IInv

\* Nothing but what stands may be recorded "rejected": a lane whose current
\* record is open has not decided the outcome.
LEMMA OpenIsUndecided ==
    ASSUME IInv, NEW rec \in Current("refutation"), ~rec.recorded
    PROVE  outcome # "rejected"
BY DEF IInv, TypeOK, TrustIsBacked, Lanes

\* A decided outcome survives the rewriting of a record that is not its own.
LEMMA OutcomeKept ==
    ASSUME IInv, NEW old \in SUBSET records, NEW new,
           records' = (records \ old) \cup {new},
           \A rec \in old : rec.audit[1] = "refutation" /\ ~rec.superseded => ~rec.recorded
    PROVE  outcome = "rejected" => \E rec \in Current("refutation")' : rec.recorded
BY DEF IInv, TrustIsBacked, Current

LEMMA AdoptStep == ASSUME IInv, NEW rec \in records, Adopt(rec) PROVE IInv'
<1> DEFINE lost == rec.audit[1] = "refutation" /\ ~Standing(rec.audit)
           new  == [rec EXCEPT !.gate = gate[rec.audit], !.superseded = lost]
<1>1. rec \in Record /\ rec.audit \in Audits /\ rec.audit[1] \in Lanes /\ gate[rec.audit] \in Gate
  BY DEF IInv, TypeOK, Record, Audits
<1>2. pc = "start" /\ job = Idle /\ asked = {}
  BY NotAsked DEF Adopt, IInv, Stopped, Idle
<1>3. ~rec.recorded /\ ~rec.superseded
  BY DEF Adopt, Adoptable, Explained
<1>4. lost \in BOOLEAN
  OBVIOUS
<1>5. /\ records' = (records \ {rec}) \cup {new}
      /\ UNCHANGED <<content, graph, disk, events, rejected, outcome, run, env>>
  BY DEF Adopt, Replace
<1> HIDE DEF lost
<1>6. /\ new \in Record /\ new.audit = rec.audit /\ new.gate = gate[rec.audit]
      /\ new.recorded = rec.recorded
  BY <1>1, <1>4 DEF Record
<1> HIDE DEF new
<1>7. Current(new.audit[1]) \subseteq {rec}
  BY <1>1, <1>3, <1>6 DEF IInv, TypeOK, Current
<1>8. ~Changed(new) /\ new.gate.seen \subseteq Answered(new.audit)
  BY <1>1, <1>6 DEF Changed, IInv, Filed
<1>9. outcome = "rejected" => \E other \in Current("refutation")' : other.recorded
  <2>1. {rec} \in SUBSET records /\ \A other \in {rec} : ~other.recorded
    BY <1>3
  <2> QED
    BY <1>5, <2>1, OutcomeKept
<1>10. Asking' /\ Working' /\ Stopped' /\ Agreed'
  BY <1>2, <1>5 DEF Asking, Working, Stopped, Agreed, Idle, Steps, run
<1>11. /\ events \subseteq events' /\ events' \subseteq Audits \X Gate
       /\ rejected' \in Untrusted \cup {None} /\ outcome' \in {"none", "rejected"}
       /\ asked' \subseteq Roles /\ job' \in JobType
  BY <1>2, <1>5 DEF IInv, TypeOK, run, JobType
<1>12. /\ {rec} \in SUBSET records
       /\ UNCHANGED <<pc, env>> /\ UNCHANGED <<content, graph, disk, outcome>>
  BY <1>5 DEF run
<1> QED
  BY <1>3, <1>5, <1>6, <1>7, <1>8, <1>9, <1>10, <1>11, <1>12, RecordsStep

LEMMA SupersedeStep ==
    ASSUME IInv, NEW rec \in Current("refutation"), Supersede(rec) PROVE IInv'
<1> DEFINE new == [rec EXCEPT !.superseded = TRUE]
<1> USE DEF Supersede, Replace
<1>1. rec \in records /\ rec \in Record /\ ~rec.superseded /\ rec.audit[1] = "refutation"
  BY DEF IInv, TypeOK, Current
<1>2. pc \notin Down \cup {"start", "collected", "loop"} /\ job = Idle /\ asked = {}
  BY NotAsked DEF Arbitrating, Idle, RefutationPlaces, Down
<1>3. ~rec.recorded
  BY <1>1, OpenIsNotRecorded
<1>4. /\ new \in Record /\ new.audit = rec.audit /\ new.gate = rec.gate
      /\ new.recorded = rec.recorded /\ new.superseded
  BY <1>1 DEF Record
<1>5. records' = (records \ {rec}) \cup {new}
  OBVIOUS
<1> HIDE DEF new
<1>6. new.gate.seen \subseteq Answered(new.audit)
  BY <1>1, <1>4 DEF IInv, Filed
<1>7. outcome = "rejected" => \E other \in Current("refutation")' : other.recorded
  BY ZenonT(30), <1>1, <1>3, <1>5, OutcomeKept
<1>8. Asking' /\ Working' /\ Stopped'
  BY <1>2 DEF Asking, Working, Stopped, Idle, Steps, run
<1>9. Agreed'
  BY <1>2, <1>4, <1>5 DEF IInv, Agreed, Idle, Changed, disk, run
<1>10. /\ events \subseteq events' /\ events' \subseteq Audits \X Gate
       /\ rejected' \in Untrusted \cup {None} /\ outcome' \in {"none", "rejected"}
       /\ UNCHANGED <<pc, env>> /\ asked' \subseteq Roles /\ job' \in JobType
       /\ UNCHANGED <<content, graph, disk, outcome>>
  BY <1>2 DEF IInv, TypeOK, run, JobType
<1>11. {rec} \in SUBSET records
  BY <1>1
<1> QED
  BY <1>3, <1>4, <1>5, <1>6, <1>7, <1>8, <1>9, <1>10, <1>11, RecordsStep

LEMMA SaveRecordStep == ASSUME IInv, SaveRecord PROVE IInv'
<1> USE DEF Step
<1>1. /\ job.step = "save" /\ job \in [step : Steps, audit : Audits, retry : BOOLEAN]
      /\ job # Idle
  BY JobShape DEF SaveRecord, At, Steps, IInv, TypeOK, JobType, Idle
<1>2. asked = {} /\ pc \notin Down \cup {"start", "collected", "loop"}
  BY <1>1, NotAsked, AtPlace
<1>3. PICK a \in Audits : a = job.audit /\ a[1] \in Lanes /\ gate[a] \in Gate
  BY <1>1 DEF IInv, TypeOK, Audits
<1>4. PICK new \in Record :
          new = [audit |-> a, gate |-> gate[a], recorded |-> FALSE, superseded |-> FALSE]
  <2>1. [audit |-> a, gate |-> gate[a], recorded |-> FALSE, superseded |-> FALSE] \in Record
    BY <1>3 DEF Record
  <2> QED
    BY <2>1
<1>5. new.audit = a /\ new.gate = gate[a] /\ ~new.recorded /\ ~new.superseded
  BY <1>4
<1> DEFINE old == Rewritten(a, job.retry)
           after == AfterSave(a, job.retry)
<1>6. /\ records' = (records \ old) \cup {new}
      /\ events \subseteq events' /\ events' \subseteq Audits \X Gate
      /\ rejected' \in Untrusted \cup {None}
      /\ IF after = "done" THEN Settle(Done) ELSE Settle([job EXCEPT !.step = after])
      /\ UNCHANGED <<content, graph, disk, outcome, asked, env>>
  BY <1>1, <1>3, <1>4 DEF SaveRecord, IInv, TypeOK
<1>7. old = Current(a[1]) /\ \A rec \in old : ~rec.recorded
  <2>1. CASE job.retry
    BY <1>1, <1>3, <2>1 DEF IInv, Working, Before, Steps, Rewritten, TypeOK
  <2>2. CASE ~job.retry
    BY <1>1, <1>3, <2>2 DEF IInv, Working, Before, Steps, Rewritten
  <2> QED
    BY <2>1, <2>2
<1>8. old \in SUBSET records
  BY <1>7 DEF Current
<1>9. ~Changed(new) /\ new.gate.seen \subseteq Answered(new.audit)
  BY <1>3, <1>5 DEF Changed, IInv, Filed
<1>10. outcome = "rejected" => \E rec \in Current("refutation")' : rec.recorded
  BY <1>6, <1>7, <1>8, OutcomeKept
<1>11. after \in {"graph", "note", "done"} /\ (after = "graph" => Promotable(a))
  BY <1>3 DEF AfterSave, Promotable, Status, RefutationStatus, Missing, Gate, Audits, Lanes
<1>12. /\ pc' = pc /\ job' \in JobType
       /\ job' = Done \/ (job'.step = after /\ job'.audit = a)
  BY <1>1, <1>3, <1>6, <1>11 DEF Settle, JobType, Steps
<1>13. Asking' /\ Stopped'
  BY <1>2, <1>6, <1>12 DEF Asking, Stopped
<1>14. Promotable(a)' <=> Promotable(a)
  BY <1>6 DEF Promotable, Status, LemmaStatus, RefutationStatus, Judged, Missing, disk
<1>15. new \in Current(a[1])'
  BY <1>5, <1>6 DEF Current
<1>16. Working'
  <2> HIDE DEF old, after
  <2>1. CASE job' = Done
    BY <2>1 DEF Working, Done, Steps
  <2>2. CASE job'.step = after /\ job'.audit = a
    BY <1>5, <1>11, <1>14, <1>15, <2>2 DEF Working, Before, After
  <2> QED
    BY <1>12, <2>1, <2>2
<1>17. Agreed'
  <2> SUFFICES ASSUME NEW rec \in records', ~rec.superseded PROVE ~Changed(rec)'
    BY DEF Agreed
  <2>1. CASE rec = new
    BY <1>5, <1>6, <2>1 DEF Changed, disk
  <2>2. CASE rec \in records /\ rec \notin old
    <3>1. rec.audit[1] # a[1]
      BY <1>7, <2>2 DEF Current
    <3> QED
      BY <1>1, <1>3, <1>2, <1>6, <2>2, <3>1 DEF IInv, Agreed, Changed, disk
  <2> QED
    BY <1>6, <2>1, <2>2
<1>18. outcome' \in {"none", "rejected"} /\ asked' \subseteq Roles
  BY <1>2, <1>6 DEF IInv, TypeOK
<1>19. ~new.superseded => Current(new.audit[1]) \subseteq old /\ ~Changed(new)
  BY <1>5, <1>7, <1>9
<1> HIDE DEF old, after
<1> QED
  BY <1>5, <1>6, <1>8, <1>9, <1>10, <1>12, <1>13, <1>16, <1>17, <1>18, <1>19, RecordsStep

LEMMA CommitStep == ASSUME IInv, Commit PROVE IInv'
<1> USE DEF Commit
<1>1. /\ job.step = "commit" /\ job \in [step : Steps, audit : Audits, retry : BOOLEAN]
      /\ job # Idle /\ job.audit \in Audits /\ job.audit[1] \in Lanes
  BY JobShape DEF At, Steps, IInv, TypeOK, JobType, Idle, Audits
<1>2. asked = {} /\ pc \notin Down \cup {"start", "collected", "loop"}
  BY <1>1, NotAsked, AtPlace
<1>3. PICK rec \in Current(job.audit[1]) : Replace(rec, [rec EXCEPT !.recorded = TRUE])
  OBVIOUS
<1> DEFINE new == [rec EXCEPT !.recorded = TRUE]
<1>4. /\ rec \in records /\ rec \in Record /\ ~rec.superseded
      /\ rec.audit[1] = job.audit[1] /\ Current(job.audit[1]) \subseteq {rec}
  BY <1>1, <1>3 DEF IInv, TypeOK, Current
<1>5. rec.audit = job.audit /\ job.audit \in graph
  BY <1>1, <1>4 DEF IInv, Working, After, Steps
<1>6. gate[rec.audit] = rec.gate
  BY <1>1, <1>2, <1>4, CurrentGate
<1>7. /\ new \in Record /\ new.audit = rec.audit /\ new.gate = rec.gate
      /\ new.recorded /\ ~new.superseded
  BY <1>4 DEF Record
<1>8. records' = (records \ {rec}) \cup {new}
  BY <1>3 DEF Replace
<1> HIDE DEF new
<1>9. ~Changed(new) /\ new.gate.seen \subseteq Answered(new.audit)
  BY <1>4, <1>6, <1>7 DEF Changed, IInv, Filed
<1>10. outcome' = "rejected" => \E other \in Current("refutation")' : other.recorded
  <2>1. CASE job.audit[1] = "refutation"
    BY <1>4, <1>7, <1>8, <2>1 DEF Current
  <2>2. CASE job.audit[1] # "refutation"
    <3>1. outcome' = outcome /\ {rec} \in SUBSET records
      BY <1>4, <2>2
    <3>2. \A other \in {rec} : other.audit[1] # "refutation"
      BY <1>4, <2>2
    <3> HIDE DEF Commit
    <3> QED
      BY <1>8, <3>1, <3>2, OutcomeKept
  <2> QED
    BY <2>1, <2>2
<1>11. job' = Done /\ pc' = pc
  BY DEF Settle
<1>12. Asking' /\ Working' /\ Stopped'
  BY <1>2, <1>11 DEF Asking, Working, Stopped, Done, Steps
<1>13. Agreed'
  BY <1>1, <1>2, <1>6, <1>7, <1>8, <1>9 DEF IInv, Agreed, Changed, disk
<1>14. /\ events \subseteq events' /\ events' \subseteq Audits \X Gate
       /\ rejected' \in Untrusted \cup {None} /\ outcome' \in {"none", "rejected"}
       /\ UNCHANGED <<pc, env>> /\ asked' \subseteq Roles /\ job' \in JobType
  BY <1>2, <1>11 DEF IInv, TypeOK, JobType
<1>15. {rec} \in SUBSET records /\ UNCHANGED <<content, graph, disk>>
  BY <1>4
<1>16. new.audit \in graph /\ new.gate = gate[new.audit] /\ Current(new.audit[1]) \subseteq {rec}
  BY <1>4, <1>5, <1>6, <1>7
<1> QED
  BY <1>7, <1>8, <1>9, <1>10, <1>12, <1>13, <1>14, <1>15, <1>16, RecordsStep

(* Theorems. -----------------------------------------------------------------------*)

LEMMA IInvKept == IInv /\ [Next]_vars => IInv'
<1> SUFFICES ASSUME IInv, [Next]_vars PROVE IInv'
  OBVIOUS
<1>1. CASE UNCHANGED vars
  <2> USE <1>1 DEF vars, disk, kept, run, env
  <2>1. /\ content' \in [Lanes -> Contents] /\ edits' \in 0..MaxEdits
        /\ failures' \in 0..MaxFailures /\ crashes' \in 0..MaxCrashes
        /\ events' \subseteq Audits \X Gate /\ rejected' \in Untrusted \cup {None}
        /\ pc' \in Places /\ asked' \subseteq Roles /\ job' \in JobType
    BY DEF IInv, TypeOK, JobType
  <2>2. Asking' /\ Stopped' /\ Agreed'
    BY DEF IInv, Asking, At, Answered, Stopped, Agreed, Changed
  <2>3. Working'
    BY DEF IInv, Working, Current, Preserved, Promotable, Status, LemmaStatus,
           RefutationStatus, Judged, Missing
  <2> QED
    BY <2>1, <2>2, <2>3, PlaceStep
<1>2. CASE Next
  BY <1>2, AdoptStep, RefuseStep, SupersedeStep, RetryRefutationStep, RetryLemmaStep,
     ReplayLemmaStep, RecoveredStep, PromoteStep, RejectStep, NominateStep, BeginStep,
     WriteGateStep, SaveRecordStep, NoteStep, RecordInGraphStep, CommitStep,
     SupportLostStep, RoleFailsStep, RoleAnswersStep, MoveStep, EditStep, CrashStep,
     ResumeStep
     DEF Next
<1> QED
  BY <1>1, <1>2

LEMMA IInvAlways == Spec => []IInv
BY InitIInv, IInvKept, PTL DEF Spec

\* Every variable keeps its shape and a report has at most one current record
\* for each of its results, through retries, supersession and crashes.
THEOREM AuditTypes == Spec => []TypeOK
BY IInvAlways, PTL DEF IInv

\* What the graph took, what a record claims and a "rejected" outcome rest on a
\* gate over both roles, for any number of crashes, failures and edits.
THEOREM AuditTrust == Spec => []TrustIsBacked
BY IInvAlways, PTL DEF IInv

\* A gate that a retry overwrote is always preserved under an event that names it.
THEOREM AuditRecoverable == Spec => []RetryIsRecoverable
BY IInvAlways, PTL DEF IInv

\* Start-up refuses a run in the four documented windows and in no other.
THEOREM AuditRefusals == Spec => RefusedInKnownWindow
<1>1. IInv /\ [Next]_vars =>
          [pc # "refused" /\ pc' = "refused" => \E rec \in records :
              Torn(rec) \/ Reissued(rec) \/ Withdrawn(rec) \/ Reopened(rec)]_vars
  BY RefusalStep
<1> QED
  BY <1>1, IInvAlways, PTL DEF Spec, RefusedInKnownWindow

=============================================================================
