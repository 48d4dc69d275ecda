------------------------- MODULE EventJournalProofs -------------------------
(***************************************************************************)
(* Proofs about EventJournal, for every set of reports and issue contents   *)
(* and every bound.  Type correctness, the evidence of issues and the single *)
(* publication of a report hold whatever fails; the rest holds, wherever the *)
(* process dies, until a write raises (faults > 0).                          *)
(***************************************************************************)
EXTENDS EventJournal, FiniteSetTheorems, TLAPS

(* The invariant says how far apart memory, snapshot and files can be at     *)
(* each point of append_event and of start-up.                               *)

(* Every number below next has a change, and a request was frozen between    *)
(* the acknowledgement and the cursor, showing what lies between.            *)
Coherent(s) ==
    /\ \A n \in Numbers : n < s.next => s.log[n] \in Change
    /\ s.ack < s.next
    /\ s.request # Absent =>
         /\ s.ack <= s.request.after
         /\ s.request.after < s.next
         /\ s.request.shown = (s.ack + 1)..s.request.after

(* No report stands under two numbers. *)
OncePerReport(s) ==
    \A m, n \in Numbers :
        s.log[m] \in Report /\ s.log[m] = s.log[n] => m = n

(* The event files are those of the snapshot s, except perhaps for the last. *)
FilesBelow(s) ==
    \A n \in Numbers :
        n # s.next - 1 =>
            eventFile[n] = IF n < s.next THEN s.log[n] ELSE Absent

LastFile(s) == s.next > 1 => eventFile[s.next - 1] = s.log[s.next - 1]

(* The snapshot on disk against the files. *)
DiskInv ==
    /\ Coherent(disk)
    /\ OncePerReport(disk)
    /\ FilesBelow(disk)
    /\ disk.pending = Absent => LastFile(disk)
    /\ disk.pending # Absent =>
         /\ disk.next > 1
         /\ disk.pending = disk.log[disk.next - 1]
         /\ eventFile[disk.next - 1] \in {Absent, disk.pending}

(* Memory is one event ahead of the disk. *)
OneAhead ==
    /\ disk.pending = Absent
    /\ disk.next \in Numbers
    /\ mem.pending \in Change
    /\ mem.next = disk.next + 1
    /\ mem.log = [disk.log EXCEPT ![disk.next] = mem.pending]
    /\ \/ mem.ack = disk.ack
       \/ /\ mem.pending = Decision
          /\ disk.request # Absent
          /\ mem.ack = disk.request.after

(* Memory differs from the disk in the pending mark or in the request.       *)
SameEvents ==
    /\ mem.pending = Absent
    /\ mem.next = disk.next
    /\ mem.log = disk.log
    /\ mem.ack = disk.ack
    /\ LastFile(disk)

Phase ==
    /\ pc \in {"finish", "clear", "event"} =>
         mem = disk /\ disk.pending # Absent
    /\ pc = "clear" => LastFile(disk)
    /\ pc \in {"validate", "idle"} => mem = disk /\ disk.pending = Absent
    /\ pc = "snapshot" =>
         /\ OneAhead \/ SameEvents
         /\ Coherent(mem)
         /\ OncePerReport(mem)
    /\ pc \notin {"corrupt", "handling"}

IInv == TypeOK /\ DiskInv /\ Phase

-----------------------------------------------------------------------------
(* The journal's variables keep their types, whatever dies or fails.         *)
LEMMA WithEventType ==
    ASSUME NEW s \in Snapshot, NEW c \in Change, s.next \in Numbers
    PROVE  WithEvent(s, c) \in Snapshot
<1>1. [s.log EXCEPT ![s.next] = c] \in [Numbers -> Change \cup {Absent}]
  BY DEF Snapshot
<1>2. s.next + 1 \in 1..(MaxEvents + 1)
  BY ChangeAssumption DEF Numbers
<1>3. WithEvent(s, c) = [s EXCEPT !.log = [s.log EXCEPT ![s.next] = c],
                                  !.pending = c, !.next = s.next + 1]
  BY DEF WithEvent, Snapshot
<1> QED BY <1>1, <1>2, <1>3 DEF Snapshot

LEMMA FreshType == FreshSnapshot \in Snapshot
BY ChangeAssumption DEF FreshSnapshot, Snapshot, Numbers, Request

LEMMA TypeInit == Init => TypeOK
BY FreshType, ChangeAssumption DEF Init, TypeOK

LEMMA TypeNext == TypeOK /\ [Next]_vars => TypeOK'
<1> SUFFICES ASSUME TypeOK, [Next]_vars PROVE TypeOK'
  OBVIOUS
<1> USE ChangeAssumption DEF TypeOK
<1>1. CASE Load
  BY <1>1 DEF Load
<1>2. CASE FinishPending
  BY <1>2 DEF FinishPending, Snapshot
<1>3. CASE ClearPending
  BY <1>3 DEF ClearPending, Snapshot
<1>4. CASE Validate
  BY <1>4 DEF Validate
<1>5. CASE WriteSnapshot
  BY <1>5 DEF WriteSnapshot
<1>6. CASE WriteEvent
  BY <1>6 DEF WriteEvent, Snapshot
<1>7. ASSUME NEW r \in Report, AcceptReport(r) PROVE TypeOK'
  <2>1. mem' \in Snapshot
    BY <1>7, WithEventType DEF AcceptReport, Change
  <2> QED BY <1>7, <2>1 DEF AcceptReport
<1>8. ASSUME NEW f \in Fault, RecordIssue(f) PROVE TypeOK'
  <2> DEFINE s == [mem EXCEPT !.issues = Append(@, f)]
  <2>0. Append(mem.issues, f) \in Seq(Fault)
    BY DEF Snapshot
  <2>1. s \in Snapshot /\ s.next = mem.next
    BY <2>0 DEF Snapshot
  <2>2. mem.next \in Numbers => WithEvent(s, f) \in Snapshot
    BY <2>1, WithEventType DEF Change
  <2>3. mem' \in Snapshot
    BY <1>8, <2>2 DEF RecordIssue
  <2> QED BY <1>8, <2>3 DEF RecordIssue, IssueNumbers
<1>9. CASE FreezeRequest
  <2>1. [after |-> mem.next - 1, shown |-> Unacknowledged] \in Request
    BY DEF Snapshot, Request, Unacknowledged
  <2>2. mem' \in Snapshot
    BY <1>9, <2>1 DEF FreezeRequest, Snapshot
  <2> QED BY <1>9, <2>2 DEF FreezeRequest
<1>10. CASE Decide
  <2> DEFINE s == [mem EXCEPT !.ack = mem.request.after, !.request = Absent]
  <2>1. s \in Snapshot /\ s.next = mem.next
    BY <1>10 DEF Decide, Snapshot, Request
  <2>2. mem' \in Snapshot
    BY <1>10, <2>1, WithEventType DEF Decide, Change
  <2> QED BY <1>10, <2>2 DEF Decide
<1>11. CASE WriteFails
  BY <1>11 DEF WriteFails
<1>12. CASE PersistInHandler
  BY <1>12 DEF PersistInHandler
<1>13. CASE Crash
  BY <1>13, FreshType DEF Crash
<1>14. CASE UNCHANGED vars
  BY <1>14 DEF vars
<1> QED BY <1>1, <1>2, <1>3, <1>4, <1>5, <1>6, <1>7, <1>8, <1>9, <1>10, <1>11,
           <1>12, <1>13, <1>14 DEF Next, Startup, Writing, Operation, Failure

(* Every variable keeps its type, in runs with crashes and failing writes.   *)
THEOREM TypeCorrect == Spec => []TypeOK
BY TypeInit, TypeNext, PTL DEF Spec

-----------------------------------------------------------------------------
(* An issue that memory or disk lists has its file: immutable files never    *)
(* change.                                                                   *)
EvidenceOf(s) == \A n \in 1..Len(s.issues) : issueFile[n] = s.issues[n]

EvidenceInv ==
    /\ EvidenceOf(disk)
    /\ EvidenceOf(mem)
    /\ Len(disk.issues) <= MaxIssues
    /\ Len(mem.issues) <= MaxIssues

LEMMA EvidenceNext == TypeOK /\ EvidenceInv /\ [Next]_vars => EvidenceInv'
<1> SUFFICES ASSUME TypeOK, EvidenceInv, [Next]_vars PROVE EvidenceInv'
  OBVIOUS
<1>0. /\ mem.issues \in Seq(Fault) /\ disk.issues \in Seq(Fault)
      /\ Len(mem.issues) \in Nat /\ Len(disk.issues) \in Nat
      /\ mem \in Snapshot /\ MaxIssues \in Nat
      /\ \A f \in Fault : f # Absent
  BY ChangeAssumption DEF TypeOK, Snapshot, Change
<1>1. ASSUME disk' \in {disk, mem}, mem'.issues = mem.issues,
             issueFile' = issueFile
      PROVE  EvidenceInv'
  BY <1>1 DEF EvidenceInv, EvidenceOf
<1>2. CASE Load
  BY <1>2 DEF Load, EvidenceInv, EvidenceOf
<1>3. CASE FinishPending \/ Validate \/ WriteSnapshot \/ WriteFails
           \/ PersistInHandler \/ UNCHANGED vars
  BY <1>1, <1>3
  DEF FinishPending, Validate, WriteSnapshot, WriteFails, PersistInHandler, vars
<1>4. CASE ClearPending
  <2>1. mem'.issues = mem.issues /\ disk' = mem' /\ issueFile' = issueFile
    BY <1>0, <1>4 DEF ClearPending, Snapshot
  <2> QED BY <2>1 DEF EvidenceInv, EvidenceOf
<1>5. CASE WriteEvent
  BY <1>0, <1>1, <1>5 DEF WriteEvent, Snapshot
<1>6. ASSUME NEW r \in Report, AcceptReport(r) PROVE EvidenceInv'
  BY <1>0, <1>1, <1>6 DEF AcceptReport, WithEvent, Snapshot
<1>7. ASSUME NEW f \in Fault, RecordIssue(f) PROVE EvidenceInv'
  <2> DEFINE n == Len(mem.issues) + 1
  <2>1. CASE mem' = mem /\ issueFile' = issueFile
    BY <1>1, <1>7, <2>1 DEF RecordIssue
  <2>2. CASE /\ Writable(issueFile[n], f)
             /\ issueFile' = [issueFile EXCEPT ![n] = f]
             /\ mem' = WithEvent([mem EXCEPT !.issues = Append(@, f)], f)
    <3>1. mem'.issues = Append(mem.issues, f)
      BY <1>0, <2>2 DEF WithEvent, Snapshot
    <3>2. n \in IssueNumbers /\ disk' = disk
      BY <1>0, <1>7 DEF RecordIssue, IssueNumbers
    <3>3. issueFile'[n] = f /\ \A k \in IssueNumbers : k # n =>
                                  issueFile'[k] = issueFile[k]
      BY <2>2, <3>2 DEF TypeOK
    <3>4. \A k \in IssueNumbers : issueFile[k] \in Fault =>
                                   issueFile'[k] = issueFile[k]
      BY <1>0, <2>2, <3>3 DEF Writable
    <3>5. EvidenceOf(disk)'
      <4> SUFFICES ASSUME NEW k \in 1..Len(disk.issues)
                   PROVE  issueFile'[k] = disk.issues[k]
        BY <3>2 DEF EvidenceOf
      <4>1. k \in IssueNumbers /\ disk.issues[k] \in Fault
        <5>1. k \in IssueNumbers
          BY <1>0 DEF EvidenceInv, IssueNumbers
        <5>2. disk.issues[k] \in Fault
          BY <1>0
        <5> QED BY <5>1, <5>2
      <4> QED BY <3>4, <4>1 DEF EvidenceInv, EvidenceOf
    <3>6. EvidenceOf(mem)'
      <4> SUFFICES ASSUME NEW k \in 1..n
                   PROVE  issueFile'[k] = Append(mem.issues, f)[k]
        BY <1>0, <3>1 DEF EvidenceOf
      <4>1. CASE k = n
        BY <1>0, <3>3, <4>1
      <4>2. CASE k # n
        <5>1. k \in 1..Len(mem.issues) /\ k \in IssueNumbers
          BY <1>0, <4>2, <3>2 DEF IssueNumbers
        <5> QED BY <1>0, <3>3, <4>2, <5>1 DEF EvidenceInv, EvidenceOf
      <4> QED BY <4>1, <4>2
    <3> QED BY <1>0, <3>1, <3>2, <3>5, <3>6 DEF EvidenceInv, IssueNumbers
  <2> QED BY <1>7, <2>1, <2>2 DEF RecordIssue
<1>8. CASE FreezeRequest
  BY <1>0, <1>1, <1>8 DEF FreezeRequest, Snapshot
<1>9. CASE Decide
  BY <1>0, <1>1, <1>9 DEF Decide, WithEvent, Snapshot
<1>10. CASE Crash
  BY <1>10, ChangeAssumption
  DEF Crash, EvidenceInv, EvidenceOf, FreshSnapshot
<1> QED BY <1>2, <1>3, <1>4, <1>5, <1>6, <1>7, <1>8, <1>9, <1>10
        DEF Next, Startup, Writing, Operation, Failure

(* Every issue of the durable snapshot has its evidence file, unchanged,     *)
(* whatever dies or fails between the writes.                                *)
THEOREM IssueEvidence == Spec => []IssueHasEvidence
<1>1. Init => EvidenceInv
  BY ChangeAssumption DEF Init, EvidenceInv, EvidenceOf, FreshSnapshot
<1>2. EvidenceInv => IssueHasEvidence
  BY DEF EvidenceInv, EvidenceOf, IssueHasEvidence
<1> QED BY <1>1, <1>2, EvidenceNext, TypeCorrect, PTL DEF Spec

-----------------------------------------------------------------------------
(* Whatever fails, a file holds the event of the snapshot under its number,  *)
(* memory extends the snapshot, and what start-up or append_event publishes  *)
(* is the last event of the snapshot.                                        *)
LastIsPending(s) == s.pending # Absent =>
    s.next > 1 /\ s.pending = s.log[s.next - 1]

PublishInv ==
    /\ \A n \in Numbers : eventFile[n] # Absent =>
         n < disk.next /\ eventFile[n] = disk.log[n]
    /\ OncePerReport(disk) /\ LastIsPending(disk)
    /\ pc # "down" =>
         /\ OncePerReport(mem) /\ LastIsPending(mem)
         /\ disk.next <= mem.next
         /\ \A n \in Numbers : n < disk.next => mem.log[n] = disk.log[n]
    /\ pc \in {"finish", "event"} => mem = disk /\ disk.pending # Absent

(* Appending an event to a snapshot. *)
LEMMA WithEventFields ==
    ASSUME NEW s \in Snapshot, NEW c, s.next \in Numbers
    PROVE  /\ WithEvent(s, c).next = s.next + 1
           /\ WithEvent(s, c).pending = c
           /\ WithEvent(s, c).log = [s.log EXCEPT ![s.next] = c]
           /\ WithEvent(s, c).ack = s.ack
           /\ WithEvent(s, c).request = s.request
BY DEF WithEvent, Snapshot

(* What one more event does to the snapshot in memory.                       *)
LEMMA PublishAppend ==
    ASSUME TypeOK, PublishInv, pc \in {"idle", "handling"},
           mem.next \in Numbers, NEW c \in Change,
           pc' = "snapshot", UNCHANGED <<disk, eventFile>>,
           mem'.next = mem.next + 1,
           mem'.pending = c,
           mem'.log = [mem.log EXCEPT ![mem.next] = c],
           c \in Report => \A n \in Numbers : mem.log[n] # c
    PROVE  PublishInv'
<1>t. /\ mem.next \in Nat /\ disk.next \in Nat
      /\ mem.log \in [Numbers -> Change \cup {Absent}]
  BY DEF TypeOK, Snapshot, Numbers
<1>1. OncePerReport(mem)'
  BY <1>t DEF PublishInv, OncePerReport
<1>2. LastIsPending(mem)'
  <2>1. mem'.next - 1 = mem.next /\ mem'.next > 1
    BY <1>t DEF Numbers
  <2>2. mem'.log[mem.next] = c
    BY <1>t
  <2> QED BY <2>1, <2>2 DEF LastIsPending
<1>3. /\ disk.next <= mem'.next
      /\ \A n \in Numbers : n < disk.next => mem'.log[n] = disk.log[n]
  BY <1>t DEF PublishInv, Numbers
<1>4. OncePerReport(disk)' /\ LastIsPending(disk)'
  BY DEF PublishInv, OncePerReport, LastIsPending
<1> QED BY <1>1, <1>2, <1>3, <1>4 DEF PublishInv

LEMMA PublishNext == TypeOK /\ PublishInv /\ [Next]_vars => PublishInv'
<1> SUFFICES ASSUME TypeOK, PublishInv, [Next]_vars PROVE PublishInv'
  OBVIOUS
<1>t. /\ mem \in Snapshot /\ disk \in Snapshot
      /\ mem.next \in 1..(MaxEvents + 1) /\ disk.next \in 1..(MaxEvents + 1)
      /\ MaxEvents \in Nat /\ Absent \notin Change
      /\ eventFile \in [Numbers -> Change \cup {Absent}]
  BY ChangeAssumption DEF TypeOK, Snapshot
<1>1. CASE Load
  <2>1. /\ mem' = disk /\ disk' = disk /\ eventFile' = eventFile
        /\ pc' = IF disk.pending = Absent THEN "validate" ELSE "finish"
    BY <1>1 DEF Load
  <2>2. /\ OncePerReport(disk) /\ LastIsPending(disk)
        /\ \A n \in Numbers : eventFile[n] # Absent =>
             n < disk.next /\ eventFile[n] = disk.log[n]
    BY DEF PublishInv
  <2>3. /\ OncePerReport(mem)' /\ LastIsPending(mem)'
        /\ OncePerReport(disk)' /\ LastIsPending(disk)'
    BY <2>1, <2>2 DEF OncePerReport, LastIsPending
  <2> QED BY <1>t, <2>1, <2>2, <2>3 DEF PublishInv
<1>2. CASE FinishPending \/ WriteEvent
  <2>1. /\ mem = disk /\ disk' = disk /\ disk.next - 1 \in Numbers
        /\ disk.pending = disk.log[disk.next - 1]
    BY <1>2, <1>t
    DEF FinishPending, WriteEvent, PublishInv, LastIsPending, Numbers
  <2>2. /\ mem'.next = mem.next /\ mem'.log = mem.log
        /\ mem'.pending \in {Absent, mem.pending}
    BY <1>2, <1>t DEF FinishPending, WriteEvent, Snapshot
  <2>3. /\ pc' \in {"clear", "corrupt", "snapshot", "refused"}
        /\ eventFile' \in {eventFile,
                           [eventFile EXCEPT ![disk.next - 1] = disk.pending]}
    BY <1>2, <2>1 DEF FinishPending, WriteEvent
  <2>4. \A n \in Numbers : eventFile'[n] # Absent =>
          n < disk'.next /\ eventFile'[n] = disk'.log[n]
    BY <1>t, <2>1, <2>3 DEF PublishInv, Numbers
  <2>5. /\ OncePerReport(mem)' /\ LastIsPending(mem)'
        /\ OncePerReport(disk)' /\ LastIsPending(disk)'
    BY <2>1, <2>2 DEF PublishInv, OncePerReport, LastIsPending
  <2>6. /\ disk'.next <= mem'.next
        /\ \A n \in Numbers : n < disk'.next => mem'.log[n] = disk'.log[n]
    BY <1>t, <2>1, <2>2
  <2> QED BY <2>3, <2>4, <2>5, <2>6 DEF PublishInv
<1>3. CASE ClearPending
  <2>1. /\ disk' = mem' /\ pc' = "validate" /\ eventFile' = eventFile
        /\ mem'.next = mem.next /\ mem'.log = mem.log /\ mem'.pending = Absent
    BY <1>3, <1>t DEF ClearPending, Snapshot
  <2>2. pc # "down"
    BY <1>3 DEF ClearPending
  <2>3. /\ OncePerReport(mem)' /\ LastIsPending(mem)'
        /\ OncePerReport(disk)' /\ LastIsPending(disk)'
    BY <2>1, <2>2 DEF PublishInv, OncePerReport, LastIsPending
  <2>4. \A n \in Numbers : eventFile'[n] # Absent =>
          n < disk'.next /\ eventFile'[n] = disk'.log[n]
    BY <1>t, <2>1, <2>2 DEF PublishInv, Numbers
  <2> QED BY <1>t, <2>1, <2>3, <2>4 DEF PublishInv
<1>4. CASE WriteSnapshot \/ PersistInHandler
  <2>1. /\ disk' = mem /\ mem' = mem /\ eventFile' = eventFile /\ pc # "down"
        /\ pc' \in {"finish", "event"} => mem.pending # Absent
    BY <1>4 DEF WriteSnapshot, PersistInHandler
  <2>2. /\ OncePerReport(mem)' /\ LastIsPending(mem)'
        /\ OncePerReport(disk)' /\ LastIsPending(disk)'
    BY <2>1 DEF PublishInv, OncePerReport, LastIsPending
  <2>3. \A n \in Numbers : eventFile'[n] # Absent =>
          n < disk'.next /\ eventFile'[n] = disk'.log[n]
    BY <1>t, <2>1 DEF PublishInv, Numbers
  <2> QED BY <1>t, <2>1, <2>2, <2>3 DEF PublishInv
<1>5. ASSUME NEW r \in Report, AcceptReport(r) PROVE PublishInv'
  <2>1. /\ mem' = WithEvent(mem, r) /\ mem.next \in Numbers /\ r \in Change
        /\ pc \in {"idle", "handling"} /\ pc' = "snapshot"
        /\ UNCHANGED <<disk, eventFile>> /\ \A n \in Numbers : mem.log[n] # r
    BY <1>5 DEF AcceptReport, Change
  <2>2. /\ mem'.next = mem.next + 1 /\ mem'.pending = r
        /\ mem'.log = [mem.log EXCEPT ![mem.next] = r]
    BY <1>t, <2>1, WithEventFields
  <2> QED BY <2>1, <2>2, PublishAppend
<1>6. ASSUME NEW f \in Fault, RecordIssue(f) PROVE PublishInv'
  <2> DEFINE s == [mem EXCEPT !.issues = Append(@, f)]
  <2>0. Append(mem.issues, f) \in Seq(Fault)
    BY <1>t DEF Snapshot
  <2>1. s \in Snapshot /\ s.next = mem.next /\ s.log = mem.log
    BY <1>t, <2>0 DEF Snapshot
  <2>2. /\ mem.next \in Numbers /\ f \in Change /\ f \notin Report
        /\ pc \in {"idle", "handling"} /\ UNCHANGED <<disk, eventFile>>
    BY <1>6, ChangeAssumption DEF RecordIssue, Change
  <2>3. CASE mem' = WithEvent(s, f) /\ pc' = "snapshot"
    <3>1. /\ mem'.next = mem.next + 1 /\ mem'.pending = f
          /\ mem'.log = [mem.log EXCEPT ![mem.next] = f]
      <4> HIDE DEF s
      <4> QED BY <2>1, <2>2, <2>3, WithEventFields
    <3> QED BY <2>2, <2>3, <3>1, PublishAppend
  <2>4. CASE pc' = "refused" /\ mem' = mem
    BY <2>2, <2>4 DEF PublishInv, OncePerReport, LastIsPending
  <2> QED BY <1>6, <2>3, <2>4 DEF RecordIssue
<1>7. CASE FreezeRequest
  <2>1. /\ mem'.next = mem.next /\ mem'.log = mem.log
        /\ mem'.pending = mem.pending /\ UNCHANGED <<disk, eventFile>>
        /\ pc = "idle" /\ pc' = "snapshot"
    BY <1>7, <1>t DEF FreezeRequest, Snapshot
  <2> QED BY <2>1 DEF PublishInv, OncePerReport, LastIsPending
<1>8. CASE Decide
  <2> DEFINE s == [mem EXCEPT !.ack = mem.request.after, !.request = Absent]
  <2>1. s \in Snapshot /\ s.next = mem.next /\ s.log = mem.log
    BY <1>8, <1>t DEF Decide, Snapshot, Request
  <2>2. /\ mem.next \in Numbers /\ Decision \in Change /\ Decision \notin Report
        /\ pc = "idle" /\ pc' = "snapshot" /\ UNCHANGED <<disk, eventFile>>
        /\ mem' = WithEvent(s, Decision)
    BY <1>8, ChangeAssumption DEF Decide, Change
  <2>3. /\ mem'.next = mem.next + 1 /\ mem'.pending = Decision
        /\ mem'.log = [mem.log EXCEPT ![mem.next] = Decision]
    <3> HIDE DEF s
    <3> QED BY <2>1, <2>2, WithEventFields
  <2> QED BY <2>2, <2>3, PublishAppend
<1>9. CASE Validate \/ WriteFails \/ Crash \/ UNCHANGED vars
  BY <1>9
  DEF Validate, WriteFails, Crash, vars, PublishInv, OncePerReport, LastIsPending
<1> QED BY <1>1, <1>2, <1>3, <1>4, <1>5, <1>6, <1>7, <1>8, <1>9
        DEF Next, Startup, Writing, Operation, Failure

(* No report is published under two event numbers, whatever dies or fails.   *)
THEOREM PublishedOnce == Spec => []ReportPublishedOnce
<1>1. Init => PublishInv
  BY ChangeAssumption
  DEF Init, FreshSnapshot, PublishInv, OncePerReport, LastIsPending, Numbers, Change
<1>2. TypeOK /\ PublishInv => ReportPublishedOnce
  <2> SUFFICES ASSUME TypeOK, PublishInv, NEW r \in Report
               PROVE  Cardinality({n \in Numbers : eventFile[n] = r}) <= 1
    BY DEF ReportPublishedOnce
  <2> DEFINE S == {n \in Numbers : eventFile[n] = r}
  <2>1. r # Absent
    BY ChangeAssumption DEF Change
  <2>2. \A m, n \in S : m = n
    BY <2>1 DEF PublishInv, OncePerReport
  <2>3. CASE S = {}
    BY <2>3, FS_EmptySet
  <2>4. ASSUME NEW n \in S PROVE Cardinality(S) = 1
    <3>1. S = {n}
      BY <2>2, <2>4
    <3> QED BY <3>1, FS_Singleton
  <2> QED BY <2>3, <2>4
<1> QED BY <1>1, <1>2, PublishNext, TypeCorrect, PTL DEF Spec

-----------------------------------------------------------------------------
(* From here on no write raises. *)
LEMMA InitInv == Init => IInv
<1> SUFFICES ASSUME Init PROVE IInv
  OBVIOUS
<1>1. TypeOK
  BY TypeInit
<1>2. /\ disk.next = 1 /\ disk.ack = 0 /\ disk.pending = Absent
      /\ disk.request = Absent
      /\ disk.log = [n \in Numbers |-> Absent]
      /\ eventFile = [n \in Numbers |-> Absent]
      /\ pc = "down"
  BY DEF Init, FreshSnapshot
<1>3. DiskInv
  BY <1>2, ChangeAssumption
  DEF DiskInv, Coherent, OncePerReport, FilesBelow, LastFile, Numbers, Change
<1> QED BY <1>1, <1>2, <1>3 DEF IInv, Phase

(* The step into append_event from a quiet snapshot: memory gets one event   *)
(* ahead, and stays coherent.                                                *)
LEMMA AppendStep ==
    ASSUME IInv, pc = "idle", mem.next \in Numbers, NEW c \in Change,
           pc' = "snapshot", UNCHANGED <<disk, eventFile>>, TypeOK',
           mem'.next = mem.next + 1,
           mem'.pending = c,
           mem'.log = [mem.log EXCEPT ![mem.next] = c],
           \/ mem'.ack = mem.ack /\ mem'.request = mem.request
           \/ /\ c = Decision /\ mem.request # Absent
              /\ mem'.ack = mem.request.after /\ mem'.request = Absent,
           c \in Report => \A n \in Numbers : mem.log[n] # c
    PROVE  IInv'
<1>0. mem = disk /\ disk.pending = Absent
  BY DEF IInv, Phase
<1>t. /\ mem.next \in Nat /\ mem.ack \in Nat
      /\ mem.log \in [Numbers -> Change \cup {Absent}]
      /\ mem.request # Absent => mem.request.after \in Nat
  BY DEF IInv, TypeOK, Snapshot, Request, Numbers
<1>1. DiskInv'
  BY <1>0 DEF IInv, DiskInv, Coherent, OncePerReport, FilesBelow, LastFile
<1>2. OneAhead'
  BY <1>0 DEF OneAhead
<1>3. Coherent(mem)'
  <2>0. Coherent(mem)
    BY <1>0 DEF IInv, DiskInv
  <2>1. ASSUME NEW n \in Numbers, n < mem'.next
        PROVE  mem'.log[n] \in Change
    <3>1. n = mem.next \/ n < mem.next
      BY <2>1, <1>t DEF Numbers
    <3>2. mem'.log[n] = IF n = mem.next THEN c ELSE mem.log[n]
      BY <1>t
    <3> QED BY <2>0, <3>1, <3>2 DEF Coherent
  <2>2. mem'.ack < mem'.next
    BY <2>0, <1>t DEF Coherent
  <2>3. mem'.request # Absent => mem'.request = mem.request /\ mem'.ack = mem.ack
    OBVIOUS
  <2>4. mem'.request # Absent =>
         /\ mem'.ack <= mem'.request.after
         /\ mem'.request.after < mem'.next
         /\ mem'.request.shown = (mem'.ack + 1)..mem'.request.after
    BY <2>0, <2>3, <1>t DEF Coherent
  <2> QED BY <2>1, <2>2, <2>4 DEF Coherent
<1>4. OncePerReport(mem)'
  BY <1>0, <1>t DEF IInv, DiskInv, OncePerReport
<1> QED BY <1>1, <1>2, <1>3, <1>4 DEF IInv, Phase

LEMMA OperationStep == IInv /\ Operation => IInv'
<1> SUFFICES ASSUME IInv, Operation PROVE IInv'
  OBVIOUS
<1>t. TypeOK' /\ mem \in Snapshot
  BY TypeNext DEF IInv, Next, TypeOK
<1>h. pc # "handling"
  BY DEF IInv, Phase
<1>1. ASSUME NEW r \in Report, AcceptReport(r) PROVE IInv'
  <2>1. mem.next \in Numbers /\ pc = "idle" /\ r \in Change
    BY <1>1, <1>h DEF AcceptReport, Change
  <2>2. mem' = WithEvent(mem, r) /\ pc' = "snapshot"
    BY <1>1 DEF AcceptReport
  <2>3. UNCHANGED <<disk, eventFile>> /\ \A n \in Numbers : mem.log[n] # r
    BY <1>1 DEF AcceptReport
  <2>4. /\ mem'.next = mem.next + 1 /\ mem'.pending = r
        /\ mem'.log = [mem.log EXCEPT ![mem.next] = r]
        /\ mem'.ack = mem.ack /\ mem'.request = mem.request
    BY <1>t, <2>1, <2>2, WithEventFields
  <2>5. r \in Report => \A n \in Numbers : mem.log[n] # r
    BY <2>3
  <2> QED BY <1>t, <2>1, <2>2, <2>3, <2>4, <2>5, AppendStep, Zenon
<1>2. ASSUME NEW f \in Fault, RecordIssue(f) PROVE IInv'
  <2> DEFINE s == [mem EXCEPT !.issues = Append(@, f)]
  <2>0. Append(mem.issues, f) \in Seq(Fault)
    BY <1>t DEF Snapshot
  <2>1. /\ s \in Snapshot /\ s.next = mem.next /\ s.log = mem.log
        /\ s.ack = mem.ack /\ s.request = mem.request
    BY <1>t, <2>0 DEF Snapshot
  <2>2. mem.next \in Numbers /\ pc = "idle" /\ f \in Change /\ f \notin Report
    BY <1>2, <1>h, ChangeAssumption DEF RecordIssue, Change
  <2>3. CASE mem' = WithEvent(s, f) /\ pc' = "snapshot"
    <3>1. /\ mem'.next = mem.next + 1 /\ mem'.pending = f
          /\ mem'.log = [mem.log EXCEPT ![mem.next] = f]
          /\ mem'.ack = mem.ack /\ mem'.request = mem.request
      <4> HIDE DEF s
      <4> QED BY <2>1, <2>2, <2>3, WithEventFields
    <3>2. UNCHANGED <<disk, eventFile>>
      BY <1>2 DEF RecordIssue
    <3> QED BY <1>t, <2>2, <2>3, <3>1, <3>2, AppendStep
  <2>4. CASE pc' = "refused" /\ mem' = mem
    <3>1. DiskInv'
      BY <1>2 DEF RecordIssue, IInv, DiskInv, Coherent, OncePerReport,
                  FilesBelow, LastFile
    <3> QED BY <1>t, <2>4, <3>1 DEF IInv, Phase
  <2> QED BY <1>2, <2>3, <2>4 DEF RecordIssue
<1>3. CASE FreezeRequest
  <2> DEFINE q == [after |-> mem.next - 1, shown |-> Unacknowledged]
  <2>0. mem = disk /\ disk.pending = Absent /\ pc = "idle"
    BY <1>3 DEF FreezeRequest, IInv, Phase
  <2>1. /\ mem'.next = mem.next /\ mem'.pending = Absent /\ mem'.ack = mem.ack
        /\ mem'.log = mem.log /\ mem'.request = q
    BY <1>3, <1>t, <2>0 DEF FreezeRequest, Snapshot
  <2>2. /\ mem.next \in 1..(MaxEvents + 1) /\ mem.ack \in Nat
        /\ MaxEvents \in Nat /\ mem.ack < mem.next
    BY <1>t, <2>0, ChangeAssumption DEF Snapshot, IInv, DiskInv, Coherent
  <2>3. \A n \in Numbers : eventFile[n] # Absent <=> n < mem.next
    BY <2>0, <2>2, ChangeAssumption
    DEF IInv, DiskInv, Coherent, FilesBelow, LastFile, Numbers
  <2>4. Unacknowledged = (mem.ack + 1)..(mem.next - 1)
    BY <2>2, <2>3 DEF Unacknowledged, Numbers
  <2>5. DiskInv' /\ LastFile(disk)'
    BY <1>3, <2>0 DEF FreezeRequest, IInv, DiskInv, Coherent, OncePerReport,
                FilesBelow, LastFile
  <2>6. SameEvents'
    BY <1>3, <2>0, <2>1, <2>5 DEF FreezeRequest, SameEvents
  <2>7. Coherent(mem)'
    BY <2>0, <2>1, <2>2, <2>4 DEF Coherent, IInv, DiskInv
  <2>8. OncePerReport(mem)'
    BY <2>0, <2>1 DEF OncePerReport, IInv, DiskInv
  <2> QED BY <1>3, <1>t, <2>5, <2>6, <2>7, <2>8 DEF FreezeRequest, IInv, Phase
<1>4. CASE Decide
  <2> DEFINE s == [mem EXCEPT !.ack = mem.request.after, !.request = Absent]
  <2>1. /\ s \in Snapshot /\ s.next = mem.next /\ s.log = mem.log
        /\ s.ack = mem.request.after /\ s.request = Absent
    BY <1>4, <1>t DEF Decide, Snapshot, Request
  <2>2. mem.next \in Numbers /\ pc = "idle" /\ Decision \in Change
        /\ Decision \notin Report /\ mem.request # Absent
    BY <1>4, ChangeAssumption DEF Decide, Change
  <2>3. /\ mem' = WithEvent(s, Decision) /\ pc' = "snapshot"
        /\ UNCHANGED <<disk, eventFile>>
    BY <1>4 DEF Decide
  <2>4. /\ mem'.next = mem.next + 1 /\ mem'.pending = Decision
        /\ mem'.log = [mem.log EXCEPT ![mem.next] = Decision]
        /\ mem'.ack = mem.request.after /\ mem'.request = Absent
    <3> HIDE DEF s
    <3> QED BY <2>1, <2>2, <2>3, WithEventFields
  <2> QED BY <1>t, <2>2, <2>3, <2>4, AppendStep
<1> QED BY <1>1, <1>2, <1>3, <1>4 DEF Operation

LEMMA StartupStep == IInv /\ Startup => IInv'
<1> SUFFICES ASSUME IInv, Startup PROVE IInv'
  OBVIOUS
<1>t. TypeOK' /\ mem \in Snapshot /\ disk \in Snapshot
      /\ eventFile \in [Numbers -> Change \cup {Absent}]
  BY TypeNext DEF IInv, Next, TypeOK
<1>n. /\ disk.next \in 1..(MaxEvents + 1) /\ disk.log \in [Numbers -> Change \cup {Absent}]
      /\ MaxEvents \in Nat /\ disk.ack \in Nat
      /\ Absent \notin Change
  BY <1>t, ChangeAssumption DEF Snapshot
<1>1. CASE Load
  <2>1. DiskInv'
    BY <1>1 DEF Load, IInv, DiskInv, Coherent, OncePerReport, FilesBelow, LastFile
  <2> QED BY <1>1, <1>t, <2>1 DEF Load, IInv, Phase
<1>2. CASE FinishPending
  <2>1. mem = disk /\ disk.pending # Absent
    BY <1>2 DEF FinishPending, IInv, Phase
  <2>2. /\ disk.next - 1 \in Numbers /\ disk.pending = disk.log[disk.next - 1]
        /\ eventFile[disk.next - 1] \in {Absent, disk.pending}
    BY <1>n, <2>1 DEF IInv, DiskInv, Numbers
  <2>3. /\ eventFile' = [eventFile EXCEPT ![disk.next - 1] = disk.pending]
        /\ pc' = "clear" /\ UNCHANGED <<mem, disk>>
    BY <1>2, <2>1, <2>2 DEF FinishPending, Writable
  <2>4. DiskInv' /\ LastFile(disk)'
    BY <1>t, <1>n, <2>1, <2>2, <2>3
    DEF IInv, DiskInv, Coherent, OncePerReport, FilesBelow, LastFile
  <2> QED BY <1>t, <2>1, <2>3, <2>4 DEF IInv, Phase
<1>3. CASE ClearPending
  <2>1. mem = disk /\ LastFile(disk) /\ pc' = "validate" /\ disk' = mem'
        /\ eventFile' = eventFile
    BY <1>3 DEF ClearPending, IInv, Phase
  <2>2. /\ disk'.next = disk.next /\ disk'.log = disk.log /\ disk'.ack = disk.ack
        /\ disk'.request = disk.request /\ disk'.pending = Absent
    BY <1>3, <1>t, <2>1 DEF ClearPending, Snapshot
  <2>3. DiskInv'
    BY <2>1, <2>2
    DEF IInv, DiskInv, Coherent, OncePerReport, FilesBelow, LastFile
  <2> QED BY <1>t, <2>1, <2>2, <2>3 DEF IInv, Phase
<1>4. CASE Validate
  <2>1. mem = disk /\ disk.pending = Absent
    BY <1>4 DEF Validate, IInv, Phase
  <2>2. \A n \in Numbers : eventFile[n] # Absent <=> n < mem.next
    BY <1>n, <2>1 DEF IInv, DiskInv, Coherent, FilesBelow, LastFile, Numbers
  <2>3. {n \in Numbers : eventFile[n] # Absent} = 1..(mem.next - 1)
    BY <1>n, <2>1, <2>2 DEF Numbers
  <2>4. StreamAccepted
    BY <2>1, <2>3 DEF StreamAccepted, IInv, DiskInv, Coherent
  <2>5. DiskInv'
    BY <1>4 DEF Validate, IInv, DiskInv, Coherent, OncePerReport, FilesBelow, LastFile
  <2> QED BY <1>4, <1>t, <2>1, <2>4, <2>5 DEF Validate, IInv, Phase
<1> QED BY <1>1, <1>2, <1>3, <1>4 DEF Startup

LEMMA WritingStep == IInv /\ Writing => IInv'
<1> SUFFICES ASSUME IInv, Writing PROVE IInv'
  OBVIOUS
<1>t. TypeOK' /\ mem \in Snapshot /\ disk \in Snapshot
      /\ eventFile \in [Numbers -> Change \cup {Absent}]
  BY TypeNext DEF IInv, Next, TypeOK
<1>n. /\ disk.next \in 1..(MaxEvents + 1) /\ disk.log \in [Numbers -> Change \cup {Absent}]
      /\ MaxEvents \in Nat /\ Absent \notin Change
  BY <1>t, ChangeAssumption DEF Snapshot
<1>1. CASE WriteSnapshot
  <2>1. disk' = mem /\ mem' = mem /\ eventFile' = eventFile
        /\ Coherent(mem) /\ OncePerReport(mem)
    BY <1>1 DEF WriteSnapshot, IInv, Phase
  <2>2. Coherent(disk)' /\ OncePerReport(disk)'
    BY <2>1 DEF Coherent, OncePerReport
  <2>3. CASE OneAhead
    <3>1. pc' = "event" /\ mem.pending # Absent
      BY <1>1, <1>n, <2>3 DEF WriteSnapshot, OneAhead
    <3>2. /\ mem.next = disk.next + 1 /\ disk.next \in Numbers
          /\ mem.log = [disk.log EXCEPT ![disk.next] = mem.pending]
          /\ disk.pending = Absent
      BY <2>3 DEF OneAhead
    <3>3. \A n \in Numbers :
             eventFile[n] = IF n < disk.next THEN disk.log[n] ELSE Absent
      BY <1>n, <3>2 DEF IInv, DiskInv, FilesBelow, LastFile, Numbers
    <3>4. FilesBelow(disk)'
      BY <1>n, <2>1, <3>2, <3>3 DEF FilesBelow, Numbers
    <3>5. /\ mem.next > 1 /\ mem.pending = mem.log[mem.next - 1]
          /\ eventFile[mem.next - 1] = Absent
      BY <1>n, <3>2, <3>3 DEF Numbers
    <3>6. DiskInv'
      BY <2>1, <2>2, <3>1, <3>4, <3>5 DEF DiskInv
    <3> QED BY <1>t, <2>1, <3>1, <3>6 DEF IInv, Phase
  <2>4. CASE SameEvents
    <3>1. pc' = "idle" /\ mem.pending = Absent
      BY <1>1, <2>4 DEF WriteSnapshot, SameEvents
    <3>2. FilesBelow(disk)' /\ LastFile(disk)'
      BY <2>1, <2>4 DEF IInv, DiskInv, SameEvents, FilesBelow, LastFile
    <3>3. DiskInv'
      BY <2>1, <2>2, <3>1, <3>2 DEF DiskInv
    <3> QED BY <1>t, <2>1, <3>1, <3>3 DEF IInv, Phase
  <2> QED BY <1>1, <2>3, <2>4 DEF WriteSnapshot, IInv, Phase
<1>2. CASE WriteEvent
  <2>1. mem = disk /\ disk.pending # Absent
    BY <1>2 DEF WriteEvent, IInv, Phase
  <2>2. /\ disk.next - 1 \in Numbers /\ disk.pending = disk.log[disk.next - 1]
        /\ eventFile[disk.next - 1] \in {Absent, disk.pending}
    BY <1>n, <2>1 DEF IInv, DiskInv, Numbers
  <2>3. /\ eventFile' = [eventFile EXCEPT ![disk.next - 1] = disk.pending]
        /\ pc' = "snapshot" /\ disk' = disk
        /\ mem' = [mem EXCEPT !.pending = Absent]
    BY <1>2, <2>1, <2>2 DEF WriteEvent, Writable
  <2>4. /\ mem'.next = disk.next /\ mem'.log = disk.log /\ mem'.ack = disk.ack
        /\ mem'.request = disk.request /\ mem'.pending = Absent
    BY <1>t, <2>1, <2>3 DEF Snapshot
  <2>5. DiskInv' /\ LastFile(disk)'
    BY <1>t, <1>n, <2>1, <2>2, <2>3
    DEF IInv, DiskInv, Coherent, OncePerReport, FilesBelow, LastFile
  <2>6. SameEvents' /\ Coherent(mem)' /\ OncePerReport(mem)'
    BY <2>3, <2>4, <2>5 DEF SameEvents, IInv, DiskInv, Coherent, OncePerReport
  <2> QED BY <1>t, <2>3, <2>5, <2>6 DEF IInv, Phase
<1> QED BY <1>1, <1>2 DEF Writing

LEMMA OtherStep ==
    ASSUME faults' = 0, IInv, Failure \/ UNCHANGED vars
    PROVE  IInv'
<1>t. TypeOK'
  BY TypeNext DEF IInv, Next
<1>1. ASSUME UNCHANGED <<disk, eventFile>> PROVE DiskInv'
  BY <1>1 DEF IInv, DiskInv, Coherent, OncePerReport, FilesBelow, LastFile
<1>2. CASE WriteFails
  BY <1>2 DEF WriteFails, IInv, TypeOK
<1>3. CASE PersistInHandler
  BY <1>3 DEF PersistInHandler, IInv, Phase
<1>4. CASE Crash
  BY <1>4, <1>1, <1>t DEF Crash, IInv, Phase
<1>5. CASE UNCHANGED vars
  <2>1. Phase'
    BY <1>5 DEF vars, IInv, Phase, LastFile, OneAhead, SameEvents, Coherent,
                OncePerReport
  <2> QED BY <1>5, <1>1, <1>t, <2>1 DEF vars, IInv
<1> QED BY <1>2, <1>3, <1>4, <1>5 DEF Failure

LEMMA NextInv ==
    ASSUME faults' = 0, IInv, [Next]_vars
    PROVE  IInv'
BY OperationStep, StartupStep, WritingStep, OtherStep DEF Next

(* A write that raised is never forgotten. *)
LEMMA FaultsStay ==
    ASSUME TypeOK, [Next]_vars, faults' = 0
    PROVE  faults = 0
<1>1. faults \in Nat
  BY ChangeAssumption DEF TypeOK
<1>2. faults' = faults \/ faults' = faults + 1
  BY DEF Next, Startup, Writing, Operation, Failure, Load, FinishPending,
         ClearPending, Validate, WriteSnapshot, WriteEvent, AcceptReport,
         RecordIssue, FreezeRequest, Decide, WriteFails, PersistInHandler, Crash,
         vars
<1> QED BY <1>1, <1>2

(* The strengthening is an invariant until a write raises.                   *)
CalmInv == TypeOK /\ (faults = 0 => IInv)

LEMMA JournalInv == Spec => []CalmInv
<1>1. CalmInv /\ [Next]_vars => CalmInv'
  <2> SUFFICES ASSUME CalmInv, [Next]_vars PROVE CalmInv'
    OBVIOUS
  <2>1. TypeOK'
    BY TypeNext DEF CalmInv
  <2>2. ASSUME faults' = 0 PROVE IInv'
    BY <2>2, FaultsStay, NextInv DEF CalmInv
  <2> QED BY <2>1, <2>2 DEF CalmInv
<1>2. Init => CalmInv
  BY InitInv DEF CalmInv, IInv
<1> QED BY <1>1, <1>2, PTL DEF Spec

(* Whenever the process dies, the event files are the events of the snapshot *)
(* or all but its pending last one.                                          *)
THEOREM OneAheadOnly == Spec => []SnapshotOneAhead
<1>1. CalmInv => SnapshotOneAhead
  <2> SUFFICES ASSUME IInv, NEW n \in Numbers
               PROVE  \/ eventFile[n] = IF n < disk.next THEN disk.log[n]
                                                         ELSE Absent
                      \/ /\ n = disk.next - 1
                         /\ disk.pending = disk.log[n]
                         /\ eventFile[n] = Absent
    BY DEF SnapshotOneAhead, CalmInv
  <2>1. disk.next \in Nat /\ n \in Nat
    BY ChangeAssumption DEF IInv, TypeOK, Snapshot, Numbers
  <2>2. CASE n # disk.next - 1
    BY <2>2 DEF IInv, DiskInv, FilesBelow
  <2>3. CASE n = disk.next - 1 /\ disk.pending = Absent
    BY <2>1, <2>3 DEF IInv, DiskInv, LastFile, Numbers
  <2>4. CASE n = disk.next - 1 /\ disk.pending # Absent
    BY <2>1, <2>4 DEF IInv, DiskInv
  <2> QED BY <2>2, <2>3, <2>4
<1> QED BY <1>1, JournalInv, PTL

(* Start-up never finds the stream it wrote itself corrupt.                  *)
THEOREM ResumeIsAccepted == Spec => []ResumeAccepted
<1>1. CalmInv => ResumeAccepted
  BY DEF CalmInv, IInv, Phase, ResumeAccepted
<1> QED BY <1>1, JournalInv, PTL

-----------------------------------------------------------------------------
(* What each step does to the files, seen from outside the process. *)
StreamVars == <<disk.log, disk.next, eventFile, disk.ack>>

(* The snapshot on disk moves by one event, or its events stay.              *)
LEMMA DiskMoves ==
    ASSUME faults' = 0, IInv, [Next]_vars
    PROVE  \/ /\ WriteSnapshot /\ OneAhead
              /\ disk' = mem /\ eventFile' = eventFile
           \/ /\ FinishPending \/ WriteEvent
              /\ disk' = disk
              /\ disk.next - 1 \in Numbers
              /\ disk.pending = disk.log[disk.next - 1]
              /\ eventFile[disk.next - 1] \in {Absent, disk.pending}
              /\ eventFile' = [eventFile EXCEPT ![disk.next - 1] = disk.pending]
           \/ UNCHANGED StreamVars
<1>t. mem \in Snapshot /\ disk \in Snapshot
  BY DEF IInv, TypeOK
<1>n. disk.next \in 1..(MaxEvents + 1) /\ MaxEvents \in Nat
  BY <1>t, ChangeAssumption DEF Snapshot
<1>1. CASE WriteSnapshot
  <2>1. CASE OneAhead
    BY <1>1, <2>1 DEF WriteSnapshot
  <2>2. CASE SameEvents
    BY <1>1, <2>2 DEF WriteSnapshot, SameEvents, StreamVars
  <2> QED BY <1>1, <2>1, <2>2 DEF WriteSnapshot, IInv, Phase
<1>2. CASE FinishPending \/ WriteEvent
  <2>1. mem = disk /\ disk.pending # Absent
    BY <1>2 DEF FinishPending, WriteEvent, IInv, Phase
  <2>2. /\ disk.next - 1 \in Numbers /\ disk.pending = disk.log[disk.next - 1]
        /\ eventFile[disk.next - 1] \in {Absent, disk.pending}
    BY <1>n, <2>1 DEF IInv, DiskInv, Numbers
  <2> QED BY <1>2, <2>1, <2>2 DEF FinishPending, WriteEvent, Writable
<1>3. CASE ClearPending
  <2>1. mem = disk
    BY <1>3 DEF ClearPending, IInv, Phase
  <2>2. /\ mem'.next = disk.next /\ mem'.log = disk.log /\ mem'.ack = disk.ack
    BY <1>3, <1>t, <2>1 DEF ClearPending, Snapshot
  <2> QED BY <1>3, <2>2 DEF ClearPending, StreamVars
<1>4. CASE Operation
  BY <1>4 DEF Operation, AcceptReport, RecordIssue, FreezeRequest, Decide, StreamVars
<1>5. CASE Load \/ Validate \/ Crash \/ UNCHANGED vars
  BY <1>5 DEF Load, Validate, Crash, vars, StreamVars
<1>6. CASE WriteFails \/ PersistInHandler
  BY <1>6 DEF WriteFails, PersistInHandler, IInv, TypeOK, Phase
<1> QED BY <1>1, <1>2, <1>3, <1>4, <1>5, <1>6
        DEF Next, Startup, Writing, Failure

(* No decision acknowledges an event that its request did not show.          *)
THEOREM AckedWasShown == Spec => AckOnlyShown
<1>1. ASSUME CalmInv, [Next]_vars, faults' = 0, disk'.ack # disk.ack
      PROVE  /\ disk.request # Absent
             /\ disk'.ack = disk.request.after
             /\ (disk.ack + 1)..disk'.ack = disk.request.shown
  <2>0. IInv
    BY <1>1, FaultsStay DEF CalmInv
  <2>1. OneAhead /\ disk' = mem
    BY <1>1, <2>0, DiskMoves DEF StreamVars
  <2>2. disk.request # Absent /\ disk'.ack = disk.request.after
    BY <1>1, <2>1 DEF OneAhead
  <2> QED BY <1>1, <2>0, <2>2 DEF IInv, DiskInv, Coherent
<1>2. CalmInv /\ [Next]_vars =>
        [faults' = 0 /\ disk'.ack # disk.ack =>
           /\ disk.request # Absent
           /\ disk'.ack = disk.request.after
           /\ (disk.ack + 1)..disk'.ack = disk.request.shown]_vars
  BY <1>1
<1> QED BY <1>2, JournalInv, PTL DEF Spec, AckOnlyShown

LEMMA StreamStep ==
    ASSUME faults' = 0, IInv, [Next]_vars
    PROVE  [Stream!Next]_(Stream!vars)
<1>f. UNCHANGED (faults > 0) /\ UNCHANGED faults
  BY FaultsStay DEF IInv
<1>t. mem \in Snapshot /\ disk \in Snapshot
      /\ eventFile \in [Numbers -> Change \cup {Absent}]
  BY DEF IInv, TypeOK
<1>n. /\ disk.next \in 1..(MaxEvents + 1) /\ disk.ack \in Nat
      /\ MaxEvents \in Nat /\ Absent \notin Change
  BY <1>t, ChangeAssumption DEF Snapshot
<1>1. CASE OneAhead /\ disk' = mem /\ eventFile' = eventFile
  <2>1. /\ disk.next \in Numbers /\ disk'.next = disk.next + 1
        /\ disk'.log = [disk.log EXCEPT ![disk.next] = mem.pending]
        /\ mem.pending \in Change
    BY <1>1 DEF OneAhead
  <2>2. \A n \in Numbers : n < disk.next => eventFile[n] = disk.log[n]
    BY <1>1, <1>n DEF OneAhead, IInv, DiskInv, FilesBelow, LastFile, Numbers
  <2>3. /\ disk'.ack \in disk.ack..(disk.next - 1)
        /\ mem.pending # Decision => disk'.ack = disk.ack
    <3>1. disk.ack < disk.next
      BY DEF IInv, DiskInv, Coherent
    <3>2. CASE mem.ack = disk.ack
      BY <1>1, <1>n, <3>1, <3>2
    <3>3. CASE /\ mem.pending = Decision /\ disk.request # Absent
               /\ mem.ack = disk.request.after
      <4>1. /\ disk.request.after \in Nat
            /\ disk.ack <= disk.request.after /\ disk.request.after < disk.next
        BY <1>t, <3>3, <1>n DEF Snapshot, Request, IInv, DiskInv, Coherent
      <4> QED BY <1>1, <1>n, <3>3, <4>1
    <3> QED BY <1>1, <3>2, <3>3 DEF OneAhead
  <2>4. Stream!Commit(mem.pending)
    BY <1>1, <2>1, <2>2, <2>3 DEF Stream!Commit, Stream!Numbers, Numbers
  <2> QED BY <1>f, <2>1, <2>4 DEF Stream!Next
<1>2. CASE /\ disk' = disk /\ disk.next - 1 \in Numbers
           /\ disk.pending = disk.log[disk.next - 1]
           /\ eventFile[disk.next - 1] \in {Absent, disk.pending}
           /\ eventFile' = [eventFile EXCEPT ![disk.next - 1] = disk.pending]
  <2>1. CASE eventFile[disk.next - 1] = Absent
    <3>1. Stream!Publish
      BY <1>2, <1>n, <2>1 DEF Stream!Publish, Numbers
    <3> QED BY <1>f, <3>1 DEF Stream!Next
  <2>2. CASE eventFile[disk.next - 1] = disk.pending
    <3>1. eventFile' = eventFile
      BY <1>2, <1>t, <2>2
    <3> QED BY <1>f, <1>2, <3>1 DEF Stream!vars
  <2> QED BY <1>2, <2>1, <2>2
<1>3. CASE UNCHANGED StreamVars
  BY <1>f, <1>3 DEF StreamVars, Stream!vars
<1> QED BY <1>1, <1>2, <1>3, DiskMoves

(* The journal implements the event stream of module EventStream: crashes    *)
(* and restarts are invisible in the committed and published events.         *)
THEOREM JournalImplementsStream == Spec => ImplementsStream
<1>1. Init => Stream!Init
  BY DEF Init, FreshSnapshot, Stream!Init, Stream!Numbers, Numbers
<1>2. CalmInv /\ [Next]_vars => [Stream!Next]_(Stream!vars)
  <2> SUFFICES ASSUME CalmInv, [Next]_vars PROVE [Stream!Next]_(Stream!vars)
    OBVIOUS
  <2>1. CASE faults' = 0
    BY <2>1, FaultsStay, StreamStep DEF CalmInv
  <2>2. CASE faults' # 0
    <3>1. faults' > 0
      BY <2>2, TypeNext, ChangeAssumption DEF CalmInv, TypeOK
    <3> QED BY <3>1 DEF Stream!Next
  <2> QED BY <2>1, <2>2
<1> QED BY <1>1, <1>2, JournalInv, PTL DEF Spec, ImplementsStream, Stream!Spec
=============================================================================
