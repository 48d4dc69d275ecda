--------------------------- MODULE ReportAdmissionProofs ---------------------------
(*****************************************************************************)
(* For every graph, vault and decision, and every number of crashes, restarts *)
(* and interferences: the types; that the typed graph implements              *)
(* GraphRevisions (each operation is a revision at most once, revisions are   *)
(* published in order); that a run is refused only for a reason outside it;   *)
(* and that an accepted report stays on record. The layers:                   *)
(*                                                                           *)
(*   HistoryInv   the two JSON files and the newest snapshot, at every step   *)
(*                of a transaction and of its replay                          *)
(*   BaseInv      the types, the vault's notes and transaction, and what is   *)
(*                so at each place of the run                                 *)
(*   Progress     what the run relies on having been published                *)
(*   Untouched    the notes of a graph that no human has edited               *)
(*   Seen         what a vault keeps that no human has edited                 *)
(*   OwnTitles    the titles of the tasks where no other run has admitted any *)
(*****************************************************************************)
EXTENDS ReportAdmission, FiniteSetTheorems, WellFoundedInduction, TLAPS

OpId == {"run-start", "coordinator-tasks", "worker-report", "human"} \X Nat

\* The files and the snapshot hold what their types say.
Typed ==
    /\ state.chain \in Seq(OpId)
    /\ pending.after.chain \in Seq(OpId)
    /\ snapshot.rev \in Int

\* A reconciliation is named for the number of revisions before it.
HumanPlaced ==
    \A i \in 1..Len(Chain) : Chain[i][1] = "human" => Chain[i] = <<"human", i - 1>>

\* No snapshot exists, and no revision is recorded.
Lost == state.chain = <<>> /\ snapshot.rev = -1

\* Outside a transaction the recorded revision is published, or the first is lost.
AtRest == ~HasPending => snapshot.rev = Len(state.chain) \/ Lost

\* In a transaction the newest snapshot is the revision before, or its own.
InTransaction ==
    HasPending =>
        LET new == Len(pending.after.chain)
        IN  /\ new >= 1
            /\ \/ snapshot.rev \in {new - 1, new}
               \/ snapshot.rev = -1 /\ new = 1

Unborn == ~HasState => Lost /\ ~HasPending

\* What an operation has done where it stands.
Standing ==
    /\ gpc # "idle" => call \in GraphCalls
    /\ gpc = "notes" => HasPending
    /\ gpc \in {"snapshot", "unlink"} => HasState /\ (HasPending => state = pending.after)
    /\ gpc = "unlink" => snapshot.rev = Len(state.chain)

HistoryInv ==
    /\ Typed
    /\ HumanPlaced
    /\ AtRest
    /\ InTransaction
    /\ Unborn
    /\ Standing

\* A report that is being accepted belongs to an assignment of the decision.
Assigned == pc \in {"finding", "status", "integrate"} => current \in Assignment

\* Every write operation has an identity of its own kind, never a reconciliation's.
LEMMA WriteIds ==
    ASSUME NEW op \in GraphCalls, op.kind = "write"
    PROVE  op.id \in OpId /\ op.id[1] # "human"
BY AdmissionConstants
   DEF GraphCalls, OpenOp, ReconcileOp, RunStartOp, TasksOp, ReportOp, OpId

\* A step that leaves the durable files alone and only moves the operation to a
\* place that asks nothing new keeps the invariant and the history.
LEMMA Still ==
    ASSUME HistoryInv,
           UNCHANGED durableGraph,
           \/ gpc' = "idle"
           \/ gpc' = "enter" /\ call' \in GraphCalls
           \/ UNCHANGED <<gpc, call>>
    PROVE  HistoryInv' /\ UNCHANGED <<Chain, snapshot.rev>>
<1>1. /\ files' = files /\ state' = state /\ pending' = pending /\ snapshot' = snapshot
      /\ HasState' = HasState /\ HasPending' = HasPending /\ Chain' = Chain
  BY DEF durableGraph, HasState, HasPending, Chain
<1>2. Typed' /\ HumanPlaced' /\ AtRest' /\ InTransaction' /\ Unborn'
  BY <1>1 DEF HistoryInv, Typed, HumanPlaced, AtRest, InTransaction, Unborn, Lost
<1>3. Standing'
  BY <1>1 DEF HistoryInv, Standing
<1> QED
  BY <1>1, <1>2, <1>3 DEF HistoryInv

\* The durable intent of a new operation is one application in the history.
LEMMA BeginApplies ==
    ASSUME HistoryInv, gpc = "enter", HasState, ~HasPending,
           NEW have, NEW touch, NEW id \in OpId,
           ~Applied(id),
           id[1] = "human" => id = <<"human", Rev(state)>>,
           Begin(have, touch, id)
    PROVE  HistoryInv' /\ Revisions!Apply
<1> DEFINE old == state.chain
<1>1. /\ old \in Seq(OpId) /\ Len(old) \in Nat
      /\ snapshot.rev \in Int
      /\ Chain = old
      /\ \A i \in 1..Len(old) : old[i] # id
      /\ DOMAIN old = 1..Len(old)
  BY DEF HistoryInv, Typed, Chain, Applied
<1>2. pending'.after.chain = Append(old, id)
  BY DEF Begin, Recorded
<1>3. /\ state' = state /\ snapshot' = snapshot /\ call' = call /\ gpc' = "notes"
      /\ HasPending' /\ HasState'
  BY DEF Begin, HasPending, HasState
<1>4. Chain' = Append(old, id)
  BY <1>2, <1>3 DEF Chain
<1>5. /\ Append(old, id) \in Seq(OpId)
      /\ Len(Append(old, id)) = Len(old) + 1
      /\ Append(old, id)[Len(old) + 1] = id
      /\ \A i \in 1..Len(old) : Append(old, id)[i] = old[i]
  BY <1>1
<1>6. snapshot.rev = Len(old) \/ (old = <<>> /\ snapshot.rev = -1)
  BY DEF HistoryInv, AtRest, Lost
<1>7. Typed'
  BY <1>1, <1>2, <1>3, <1>5 DEF Typed
<1>8. HumanPlaced'
  <2> SUFFICES ASSUME NEW i \in 1..Len(Append(old, id)), Append(old, id)[i][1] = "human"
               PROVE  Append(old, id)[i] = <<"human", i - 1>>
    BY <1>4 DEF HumanPlaced
  <2>1. CASE i \in 1..Len(old)
    BY <2>1, <1>1, <1>5 DEF HistoryInv, HumanPlaced
  <2>2. CASE i = Len(old) + 1
    BY <2>2, <1>5 DEF Rev
  <2> QED
    BY <2>1, <2>2, <1>1, <1>5
<1>9. AtRest' /\ Unborn'
  BY <1>3 DEF AtRest, Unborn
<1>10. InTransaction'
  <2>1. Len(<<>>) = 0
    OBVIOUS
  <2> QED
    BY <2>1, <1>1, <1>2, <1>3, <1>5, <1>6 DEF InTransaction
<1>11. Standing'
  BY <1>3 DEF HistoryInv, Standing
<1>12. Revisions!Apply
  <2>1. snapshot.rev = Len(Chain) \/ Chain = <<>>
    BY <1>1, <1>6
  <2>2. Len(Chain') = Len(Chain) + 1
    BY <1>1, <1>4, <1>5
  <2>3. \A i \in 1..Len(Chain) : Chain'[i] = Chain[i] /\ Chain'[i] # Chain'[Len(Chain) + 1]
    BY <1>1, <1>4, <1>5
  <2> QED
    BY <2>1, <2>2, <2>3, <1>3 DEF Revisions!Apply
<1> QED
  BY <1>7, <1>8, <1>9, <1>10, <1>11, <1>12 DEF HistoryInv

\* Only the enclosing cases of a call that begins, opens or returns at once.
LEMMA EnterStep ==
    ASSUME HistoryInv, Enter
    PROVE  HistoryInv' /\ (Revisions!Apply \/ UNCHANGED <<Chain, snapshot.rev>>)
<1>1. gpc = "enter" /\ call \in GraphCalls
  BY DEF Enter, HistoryInv, Standing
<1>2. ASSUME NEW value, Return(value)
      PROVE  HistoryInv' /\ UNCHANGED <<Chain, snapshot.rev>>
  BY <1>2, Still DEF Return, Idle
<1>3. CASE HasPending /\ Recover
  <2>1. /\ UNCHANGED <<files, state, pending, snapshot, call>> /\ gpc' = "notes"
        /\ HasState' = HasState /\ HasPending' = HasPending /\ Chain' = Chain
    BY <1>3 DEF Recover, durableGraph, HasState, HasPending, Chain
  <2>2. Typed' /\ HumanPlaced' /\ AtRest' /\ InTransaction' /\ Unborn'
    BY <2>1 DEF HistoryInv, Typed, HumanPlaced, AtRest, InTransaction, Unborn, Lost
  <2>3. Standing'
    BY <1>1, <1>3, <2>1 DEF Standing
  <2> QED
    BY <2>1, <2>2, <2>3 DEF HistoryInv
<1>4. CASE ~HasPending /\ Open
  <2>1. CASE HasState
    BY <1>2, <1>4, <2>1 DEF Open
  <2>2. CASE ~HasState
    <3>1. /\ UNCHANGED <<pending, snapshot, call>> /\ gpc' = "snapshot"
          /\ state'.chain = <<>> /\ HasState' /\ ~HasPending'
      BY <1>4, <2>2 DEF Open, EmptyState, HasState, HasPending
    <3>2. state.chain = <<>> /\ snapshot.rev = -1
      BY <2>2 DEF HistoryInv, Unborn, Lost
    <3>3. Chain' = Chain
      BY <1>4, <3>1, <3>2 DEF Chain
    <3>4. Typed' /\ HumanPlaced' /\ AtRest' /\ InTransaction' /\ Unborn'
      BY <3>1, <3>2, <3>3
         DEF HistoryInv, Typed, HumanPlaced, AtRest, InTransaction, Unborn, Lost
    <3>5. Standing'
      BY <1>1, <3>1 DEF Standing
    <3> QED
      BY <3>1, <3>3, <3>4, <3>5 DEF HistoryInv
  <2> QED
    BY <2>1, <2>2
<1>5. CASE ~HasPending /\ Reconcile
  <2> DEFINE id == <<"human", Rev(state)>>
  <2>1. (\E value : Return(value)) \/ (HasState /\ Begin(Loaded, Edited, id))
    BY <1>5 DEF Reconcile
  <2>2. CASE HasState /\ Begin(Loaded, Edited, id)
    <3>1. id \in OpId
      BY DEF OpId, Rev, HistoryInv, Typed
    <3>2. ~Applied(id)
      <4>1. Chain = state.chain /\ Len(state.chain) \in Nat
            /\ DOMAIN state.chain = 1..Len(state.chain)
        BY <1>5 DEF Chain, HistoryInv, Typed
      <4> SUFFICES ASSUME NEW i \in 1..Len(state.chain), state.chain[i] = id
                   PROVE  FALSE
        BY <4>1 DEF Applied
      <4>2. state.chain[i] = <<"human", i - 1>>
        BY <4>1 DEF HistoryInv, HumanPlaced
      <4>3. i - 1 = Len(state.chain)
        BY <4>2 DEF Rev
      <4> QED
        BY <4>1, <4>3
    <3> HIDE DEF id
    <3>3. id[1] = "human" => id = <<"human", Rev(state)>>
      BY DEF id
    <3> QED
      BY <1>1, <1>5, <2>2, <3>1, <3>2, <3>3, BeginApplies
  <2> QED
    BY <1>2, <2>1, <2>2
<1>6. CASE ~HasPending /\ Write
  <2>1. \/ \E value : Return(value)
        \/ HasState /\ ~Applied(call.id) /\ Begin(Loaded, call.touch, call.id)
    BY <1>6 DEF Write
  <2>2. call.id \in OpId /\ call.id[1] # "human"
    BY <1>1, <1>6, WriteIds DEF Write
  <2>3. CASE HasState /\ ~Applied(call.id) /\ Begin(Loaded, call.touch, call.id)
    BY <1>1, <1>6, <2>2, <2>3, BeginApplies
  <2> QED
    BY <1>2, <2>1, <2>3
<1> QED
  BY <1>3, <1>4, <1>5, <1>6 DEF Enter

\* The state file takes over the transaction's state: no new history.
LEMMA WriteStateStep ==
    ASSUME HistoryInv, WriteState
    PROVE  HistoryInv' /\ UNCHANGED <<Chain, snapshot.rev>>
<1>1. /\ UNCHANGED <<files, pending, snapshot>> /\ state' = pending.after
      /\ HasState' = HasState /\ HasPending' = HasPending /\ HasPending /\ HasState
  BY DEF WriteState, HistoryInv, Standing, Unborn, HasState, HasPending
<1>2. Chain' = Chain
  BY <1>1 DEF Chain
<1>3. Typed' /\ HumanPlaced' /\ AtRest' /\ InTransaction' /\ Unborn'
  BY <1>1, <1>2 DEF HistoryInv, Typed, HumanPlaced, AtRest, InTransaction, Unborn
<1>4. gpc' = "idle" \/ (gpc' = "snapshot" /\ call' = call /\ gpc = "notes")
  BY DEF WriteState, Idle
<1>5. Standing'
  BY <1>1, <1>4 DEF HistoryInv, Standing
<1> QED
  BY <1>1, <1>2, <1>3, <1>5 DEF HistoryInv

\* A snapshot is written over its parent, or is the one that is there.
LEMMA WriteSnapshotStep ==
    ASSUME HistoryInv, WriteSnapshot
    PROVE  HistoryInv' /\ (Revisions!Publish \/ UNCHANGED <<Chain, snapshot.rev>>)
<1>1. CASE Return("raised")
  BY <1>1, Still DEF Return, Idle
<1>2. CASE /\ Publishable(state, nodes)
           /\ snapshot' = [rev |-> Rev(state), notes |-> nodes]
           /\ gpc' = "unlink"
           /\ UNCHANGED <<disk, files, state, pending, hands, recovering, nodes, todo, call, ret>>
  <2>1. /\ UNCHANGED <<files, state, pending, call>> /\ snapshot'.rev = Len(state.chain)
        /\ HasState' = HasState /\ HasPending' = HasPending /\ Chain' = Chain
    BY <1>2 DEF Rev, HasState, HasPending, Chain
  <2>2. /\ gpc = "snapshot" /\ HasState /\ (HasPending => state = pending.after)
        /\ call \in GraphCalls
    BY DEF WriteSnapshot, HistoryInv, Standing
  <2>3. Chain = state.chain /\ Len(state.chain) \in Nat /\ snapshot.rev \in Int
    BY <2>2 DEF Chain, HistoryInv, Typed
  <2>4. Typed' /\ HumanPlaced' /\ AtRest' /\ Unborn'
    BY <2>1, <2>2, <2>3 DEF HistoryInv, Typed, HumanPlaced, AtRest, Unborn
  <2>5. InTransaction'
    BY <2>1, <2>2, <2>3 DEF HistoryInv, InTransaction
  <2>6. Standing'
    BY <1>2, <2>1, <2>2 DEF Standing
  <2>7. snapshot.rev \in {Len(state.chain) - 1, Len(state.chain)}
    <3>1. CASE HasPending
      BY <1>2, <2>2, <2>3, <3>1 DEF HistoryInv, InTransaction, Publishable, Rev
    <3>2. CASE ~HasPending
      <4>1. Len(<<>>) = 0
        OBVIOUS
      <4> QED
        BY <2>3, <3>2, <4>1 DEF HistoryInv, AtRest, Lost
    <3> QED
      BY <3>1, <3>2
  <2>8. Revisions!Publish \/ snapshot'.rev = snapshot.rev
    BY <2>1, <2>3, <2>7 DEF Revisions!Publish
  <2> QED
    BY <2>1, <2>4, <2>5, <2>6, <2>8 DEF HistoryInv
<1> QED
  BY <1>1, <1>2 DEF WriteSnapshot

\* The end of a transaction leaves its state recorded and published.
LEMMA SettleStep ==
    ASSUME HistoryInv, Settle
    PROVE  HistoryInv' /\ UNCHANGED <<Chain, snapshot.rev>>
<1>1. /\ UNCHANGED <<state, snapshot>> /\ pending' = NoTransaction
      /\ HasState' = HasState /\ ~HasPending'
  BY DEF Settle, HasState, HasPending
<1>2. /\ gpc = "unlink" /\ HasState /\ (HasPending => state = pending.after)
      /\ call \in GraphCalls /\ snapshot.rev = Len(state.chain)
  BY DEF Settle, HistoryInv, Standing
<1>3. Chain' = Chain
  BY <1>1, <1>2 DEF Chain
<1>4. Typed'
  <2>1. pending'.after.chain = <<>>
    BY <1>1 DEF NoTransaction, EmptyState
  <2>2. <<>> \in Seq(OpId)
    OBVIOUS
  <2>3. state'.chain \in Seq(OpId) /\ snapshot'.rev \in Int
    BY <1>1 DEF HistoryInv, Typed
  <2> QED
    BY <2>1, <2>2, <2>3 DEF Typed
<1>5. HumanPlaced' /\ AtRest' /\ InTransaction' /\ Unborn'
  BY <1>1, <1>2, <1>3 DEF HistoryInv, HumanPlaced, AtRest, InTransaction, Unborn, Lost
<1>6. gpc' = "idle" \/ (gpc' = "enter" /\ call' = call)
  BY DEF Settle, Idle
<1>7. Standing'
  BY <1>2, <1>6 DEF Standing
<1> QED
  BY <1>1, <1>3, <1>4, <1>5, <1>7 DEF HistoryInv

\* Every step of the store.
LEMMA StoreStep ==
    ASSUME HistoryInv, GraphStep
    PROVE  HistoryInv' /\ (Revisions!Apply \/ Revisions!Publish \/ UNCHANGED <<Chain, snapshot.rev>>)
<1>1. CASE WriteNote \/ RemoveNote
  BY <1>1, Still DEF WriteNote, RemoveNote, callVars
<1> QED
  BY <1>1, EnterStep, WriteStateStep, WriteSnapshotStep, SettleStep DEF GraphStep

\* Only a collected assignment is ever on its way through an acceptance.
LEMMA AssignedStep ==
    ASSUME Assigned, [Next]_vars
    PROVE  Assigned'
<1>1. CASE UNCHANGED <<pc, current>>
  BY <1>1 DEF Assigned
<1>2. CASE pc' \in {"down", "open", "reconcile", "run-start", "validate", "admit", "tasks",
                    "decide", "collect", "accept", "done"}
  BY <1>2 DEF Assigned
<1>3. Start \/ Crash => \/ UNCHANGED <<pc, current>>
                         \/ pc' \in {"down", "open", "reconcile"}
  BY DEF Start, Crash, Gone
<1>4. GraphReturn \/ Validate \/ TaskAdmitted \/ Freeze \/ Decide \/ Record \/ Accept
        => pc' \in {"down", "reconcile", "run-start", "validate", "admit", "tasks",
                    "decide", "collect", "accept", "done"}
  BY DEF GraphReturn, Validate, TaskAdmitted, Freeze, Decide, Record, Accept, Refuse, Gone, Go
<1>5. CASE Collect
  BY <1>5 DEF Collect, Assigned
<1>6. CASE FindingAdmitted \/ TaskClosed
  BY <1>6 DEF FindingAdmitted, TaskClosed, Refuse, Gone, Go, Keep, Assigned
<1>7. GraphCall \/ AdmitTask \/ AdmitReport \/ CloseTask \/ Upset => UNCHANGED <<pc, current>>
  BY DEF GraphCall, AdmitTask, AdmitReport, CloseTask, Upset, runVars
<1>8. UNCHANGED runVars \/ UNCHANGED vars => UNCHANGED <<pc, current>>
  BY DEF vars, runVars
<1> QED
  BY <1>1, <1>2, <1>3, <1>4, <1>5, <1>6, <1>7, <1>8 DEF Next, RunStep

\* Every step of the run, of a crash and of the interferences.
LEMMA OtherStep ==
    ASSUME HistoryInv, Assigned, Start \/ Crash \/ RunStep \/ Upset \/ UNCHANGED vars
           \/ (VaultStep /\ UNCHANGED <<graphVars, runVars>>)
    PROVE  HistoryInv' /\ UNCHANGED <<Chain, snapshot.rev>>
<1>1. CASE UNCHANGED graphVars
  BY <1>1, Still DEF graphVars, callVars
<1>2. CASE Forget /\ UNCHANGED durableGraph
  BY <1>2, Still DEF Forget, Idle
<1>3. CASE Hand
  BY <1>3, Still DEF Hand, callVars
<1>4. CASE GraphCall
  <2>1. PICK op \in GraphCalls : Call(op)
    BY <1>4 DEF GraphCall, GraphCalls, Assigned
  <2> QED
    BY <2>1, Still DEF Call
<1>5. Start => UNCHANGED graphVars
  BY DEF Start
<1>6. Crash \/ GraphReturn \/ Validate \/ TaskAdmitted \/ Freeze \/ Decide \/ Collect
      \/ FindingAdmitted \/ TaskClosed \/ Record \/ Accept => Forget /\ UNCHANGED durableGraph
  BY DEF Crash, GraphReturn, Validate, TaskAdmitted, Freeze, Decide, Collect,
         FindingAdmitted, TaskClosed, Record, Accept, Refuse, Gone, Go
<1>7. AdmitTask \/ AdmitReport \/ CloseTask => UNCHANGED graphVars
  BY DEF AdmitTask, AdmitReport, CloseTask
<1>8. Upset => Hand \/ UNCHANGED graphVars
  BY DEF Upset
<1>9. UNCHANGED vars => UNCHANGED graphVars
  BY DEF vars
<1> QED
  BY <1>1, <1>2, <1>3, <1>4, <1>5, <1>6, <1>7, <1>8, <1>9 DEF RunStep

\* The graph of a run has one history, whatever crashes, replays and human edits
\* happen: every operation is a revision at most once, and revisions are published
\* in order, none skipped.
THEOREM GraphHistory == Spec => ImplementsRevisions
<1>1. Init => HistoryInv /\ Assigned /\ Revisions!RevisionsInit
  <2> SUFFICES ASSUME Init PROVE HistoryInv /\ Assigned /\ Revisions!RevisionsInit
    OBVIOUS
  <2>1. /\ state.chain = <<>> /\ pending.after.chain = <<>> /\ snapshot.rev = -1
        /\ ~HasPending /\ ~HasState /\ gpc = "idle" /\ pc = "down"
    BY DEF Init, GraphInit, EmptyState, NoTransaction, HasPending, HasState
  <2>2. Chain = <<>>
    BY <2>1 DEF Chain
  <2> QED
    BY <2>1, <2>2 DEF HistoryInv, Typed, HumanPlaced, AtRest, InTransaction, Unborn, Lost,
                      Standing, Assigned, Revisions!RevisionsInit
<1>2. HistoryInv /\ Assigned /\ [Next]_vars
        => HistoryInv' /\ Assigned' /\ [Revisions!Apply \/ Revisions!Publish]_Revisions!revisionVars
  <2>1. ASSUME HistoryInv, Assigned, [Next]_vars
        PROVE  HistoryInv' /\ Assigned' /\ (Revisions!Apply \/ Revisions!Publish \/ UNCHANGED <<Chain, snapshot.rev>>)
    BY <2>1, StoreStep, OtherStep, AssignedStep DEF Next
  <2> QED
    BY <2>1 DEF Revisions!revisionVars
<1> QED
  BY <1>1, <1>2, PTL DEF Spec, ImplementsRevisions, Revisions!RevisionsSpec

(* The notes of the graph. ----------------------------------------------------*)

NoteAt(n) == [path : Place, text : Text(n)]

LEMMA NotANote == \A n \in Note : None \notin Text(n) /\ None \notin NoteAt(n)
BY NothingIsNoValue DEF NoteAt

\* What is read from the disk are notes.
LEMMA LoadedNotes ==
    ASSUME GraphTypeOK
    PROVE  IsNotes(Loaded)
<1>1. Loaded = [n \in Note |-> Loaded[n]]
  BY DEF Loaded
<1> SUFFICES ASSUME NEW n \in Note, Loaded[n] # None
             PROVE  Loaded[n] \in NoteAt(n)
  BY <1>1 DEF IsNotes, NoteAt
<1>2. Found(n) # {}
  BY DEF Loaded
<1>3. PICK p \in Found(n) : Loaded[n] = [path |-> p, text |-> disk[n][p]]
  <2> DEFINE q == CHOOSE r \in Found(n) : TRUE
  <2>1. q \in Found(n)
    BY <1>2
  <2>2. Loaded[n] = [path |-> q, text |-> disk[n][q]]
    BY <1>2 DEF Loaded
  <2> QED
    BY <2>1, <2>2
<1>4. p \in Place /\ disk[n][p] # None
  BY <1>3 DEF Found
<1>5. disk[n][p] \in Text(n)
  BY <1>4 DEF GraphTypeOK
<1> QED
  BY <1>3, <1>4, <1>5 DEF NoteAt

\* A note is planned at a place of its directory.
LEMMA PlannedPlace ==
    ASSUME NEW have, IsNotes(have), IsNotes(state.notes), NEW n \in Note
    PROVE  /\ Current(have, n) \in Place \cup {"nowhere"}
           /\ Planned(have, n) \in Place
<1>1. /\ have[n] # None => have[n] \in NoteAt(n)
      /\ state.notes[n] # None => state.notes[n] \in NoteAt(n)
  BY DEF IsNotes, NoteAt
<1>2. Current(have, n) \in Place \cup {"nowhere"}
  BY <1>1 DEF Current, NoteAt
<1> QED
  BY <1>2 DEF Planned, Place

\* What the links of a note show once a transaction is over.
Moved(have, touch, t) == IF t \in touch THEN Planned(have, t) ELSE have[t].path
Shown(have, touch, n) ==
    [t \in Links[n] |-> IF t \in touch \/ have[t] # None THEN Moved(have, touch, t) ELSE "id"]

LEMMA ShownPlaces ==
    ASSUME NEW have, IsNotes(have), IsNotes(state.notes), NEW touch \in SUBSET Note,
           NEW n \in Note
    PROVE  Shown(have, touch, n) \in [Links[n] -> Place \cup {"id"}]
<1> SUFFICES ASSUME NEW t \in Links[n], t \in touch \/ have[t] # None
             PROVE  Moved(have, touch, t) \in Place
  BY DEF Shown
<1>1. t \in Note
  BY LinksInOrder
<1>2. CASE t \in touch
  BY <1>1, <1>2, PlannedPlace DEF Moved
<1>3. CASE t \notin touch
  <2>1. have[t] \in NoteAt(t)
    BY <1>1, <1>3 DEF IsNotes, NoteAt
  <2> QED
    BY <1>3, <2>1 DEF Moved, NoteAt
<1> QED
  BY <1>2, <1>3

\* The three ways a note comes out of a transaction.
LEMMA RenderedAs ==
    ASSUME NEW have, NEW touch \in SUBSET Note, NEW n \in Note
    PROVE  /\ n \in touch =>
                Rendered(have, touch)[n] =
                    [path |-> Planned(have, n),
                     text |-> [gen   |-> Len(state.chain) + 1,
                               prose |-> have[n] # None /\ have[n].text.prose,
                               field |-> have[n] # None /\ have[n].text.field,
                               shows |-> Shown(have, touch, n)]]
           /\ n \in Inbound(have, touch) =>
                Rendered(have, touch)[n] = [have[n] EXCEPT !.text.shows = Shown(have, touch, n)]
           /\ n \notin touch \cup Inbound(have, touch) => Rendered(have, touch)[n] = have[n]
<1>1. n \in Inbound(have, touch) => n \notin touch
  BY DEF Inbound
<1> QED
  BY <1>1 DEF Rendered, Shown, Moved

LEMMA RenderedNotes ==
    ASSUME NEW have, IsNotes(have), IsNotes(state.notes), NEW touch \in SUBSET Note,
           Len(state.chain) \in Nat
    PROVE  /\ IsNotes(Rendered(have, touch))
           /\ \A n \in touch \cup Inbound(have, touch) : Rendered(have, touch)[n] \in NoteAt(n)
<1> DEFINE new == Rendered(have, touch)
<1>1. new = [n \in Note |-> new[n]]
  BY DEF Rendered
<1>2. ASSUME NEW n \in Note
      PROVE  /\ n \in touch \cup Inbound(have, touch) => new[n] \in NoteAt(n)
             /\ new[n] # None => new[n] \in NoteAt(n)
  <2>1. Shown(have, touch, n) \in [Links[n] -> Place \cup {"id"}]
    BY ShownPlaces
  <2>2. Planned(have, n) \in Place
    BY PlannedPlace
  <2>3. have[n] # None => have[n] \in NoteAt(n)
    BY DEF IsNotes, NoteAt
  <2>0. /\ n \in touch =>
                new[n] = [path |-> Planned(have, n),
                          text |-> [gen   |-> Len(state.chain) + 1,
                                    prose |-> have[n] # None /\ have[n].text.prose,
                                    field |-> have[n] # None /\ have[n].text.field,
                                    shows |-> Shown(have, touch, n)]]
        /\ n \in Inbound(have, touch) =>
                new[n] = [have[n] EXCEPT !.text.shows = Shown(have, touch, n)]
        /\ n \notin touch \cup Inbound(have, touch) => new[n] = have[n]
    BY RenderedAs
  <2>4. CASE n \in touch
    <3>2. /\ (have[n] # None /\ have[n].text.prose) \in BOOLEAN
          /\ (have[n] # None /\ have[n].text.field) \in BOOLEAN
      OBVIOUS
    <3>3. new[n] = [path |-> Planned(have, n),
                    text |-> [gen   |-> Len(state.chain) + 1,
                              prose |-> have[n] # None /\ have[n].text.prose,
                              field |-> have[n] # None /\ have[n].text.field,
                              shows |-> Shown(have, touch, n)]]
      BY <2>0, <2>4
    <3>4. Len(state.chain) + 1 \in Nat
      OBVIOUS
    <3> QED
      BY <2>1, <2>2, <3>2, <3>3, <3>4 DEF NoteAt, Text
  <2>5. CASE n \in Inbound(have, touch)
    <3>1. have[n] # None
      BY <2>5 DEF Inbound
    <3>2. new[n] = [have[n] EXCEPT !.text.shows = Shown(have, touch, n)]
      BY <2>0, <2>5
    <3>3. have[n] \in NoteAt(n)
      BY <2>3, <3>1
    <3> HIDE DEF new
    <3> QED
      BY <2>1, <3>2, <3>3 DEF NoteAt, Text
  <2>6. CASE n \notin touch \cup Inbound(have, touch)
    BY <2>0, <2>3, <2>6
  <2> QED
    BY <2>4, <2>5, <2>6
<1>3. touch \cup Inbound(have, touch) \subseteq Note
  BY DEF Inbound
<1> QED
  BY <1>1, <1>2, <1>3 DEF IsNotes, NoteAt

LEMMA RecordedNotes ==
    ASSUME NEW have, IsNotes(have), IsNotes(state.notes), NEW touch \in SUBSET Note,
           NEW id, Len(state.chain) \in Nat
    PROVE  IsNotes(Recorded(have, touch, id).notes)
<1> DEFINE new == Recorded(have, touch, id).notes
           written == touch \cup Inbound(have, touch)
<1>1. new = [n \in Note |->
            CASE n \in written -> Rendered(have, touch)[n]
              [] n \notin written /\ have[n] = None -> state.notes[n]
              [] OTHER -> [path |-> have[n].path,
                           text |-> IF state.notes[n] = None THEN have[n].text
                                    ELSE state.notes[n].text]]
  BY DEF Recorded
<1> HIDE DEF new, written
<1>2. ASSUME NEW n \in Note, new[n] # None
      PROVE  new[n] \in NoteAt(n)
  <2>1. /\ have[n] # None => have[n] \in NoteAt(n)
        /\ state.notes[n] # None => state.notes[n] \in NoteAt(n)
    BY DEF IsNotes, NoteAt
  <2>2. CASE n \in written
    BY <1>1, <2>2, RenderedNotes DEF written
  <2>3. CASE n \notin written /\ have[n] = None
    <3>1. new[n] = state.notes[n]
      BY <1>1, <2>3
    <3> QED
      BY <1>2, <2>1, <3>1
  <2>4. CASE n \notin written /\ have[n] # None
    <3>1. new[n] = [path |-> have[n].path,
                    text |-> IF state.notes[n] = None THEN have[n].text
                             ELSE state.notes[n].text]
      BY <1>1, <2>4
    <3> QED
      BY <2>1, <2>4, <3>1 DEF NoteAt
  <2> QED
    BY <2>2, <2>3, <2>4
<1>3. new = [n \in Note |-> new[n]]
  BY <1>1
<1> QED
  BY <1>2, <1>3 DEF IsNotes, NoteAt, new

(* The operation that holds the lock. -----------------------------------------*)

InChain(s, id) == \E i \in 1..Len(s.chain) : s.chain[i] = id

\* What an operation holds in memory where it stands, and what it has written.
Holding ==
    /\ gpc \in {"idle", "enter"} => nodes = NoNotes /\ ~recovering
    /\ ret # NoReturn => gpc = "idle"
    /\ gpc = "notes" => todo \subseteq DOMAIN pending.writes
    /\ gpc \in {"snapshot", "unlink"} /\ call.kind # "open" => HasPending
    /\ recovering => HasPending
    /\ gpc \in {"notes", "snapshot", "unlink"} /\ ~recovering /\ call.kind = "write"
          => InChain(pending.after, call.id)

StoreInv == HistoryInv /\ GraphTypeOK /\ Holding

LEMMA NoNotesTyped == IsNotes(NoNotes) /\ \A n \in Note : NoNotes[n] = None
<1>1. NoNotes = [n \in Note |-> NoNotes[n]] /\ \A n \in Note : NoNotes[n] = None
  BY DEF NoNotes
<1> QED
  BY <1>1 DEF IsNotes

\* An operation that returns leaves the files as they are.
LEMMA ReturnStores ==
    ASSUME StoreInv, NEW value \in Outcome, Return(value)
    PROVE  GraphTypeOK' /\ Holding'
<1>1. /\ disk' = disk /\ files' = files /\ state' = state /\ pending' = pending
      /\ snapshot' = snapshot /\ hands' = hands
      /\ gpc' = "idle" /\ recovering' = FALSE /\ nodes' = NoNotes /\ todo' = {}
      /\ ret' = value
  BY DEF Return, Idle, durableGraph
<1>2. GraphTypeOK'
  BY <1>1, NoNotesTyped DEF StoreInv, GraphTypeOK, HasState, HasPending, IsNotes, Text
<1> QED
  BY <1>1, <1>2 DEF Holding

\* The intent of a transaction is typed, and names its operation.
LEMMA BeginStores ==
    ASSUME StoreInv, gpc = "enter", HasState, NEW touch \in SUBSET Note, NEW id \in OpId,
           call.kind = "write" => id = call.id,
           Begin(Loaded, touch, id)
    PROVE  GraphTypeOK' /\ Holding'
<1> DEFINE W   == touch \cup Inbound(Loaded, touch)
           new == Rendered(Loaded, touch)
           rec == Recorded(Loaded, touch, id)
<1>1. /\ nodes' = new /\ todo' = W /\ files' = files \cup {"pending"}
      /\ pending' = [writes |-> [n \in W |-> new[n]], removals |-> Removals(Loaded, touch),
                     after |-> rec]
      /\ gpc' = "notes" /\ recovering' = recovering /\ call' = call /\ ret' = ret
      /\ disk' = disk /\ state' = state /\ snapshot' = snapshot /\ hands' = hands
  BY DEF Begin
<1>2. IsNotes(Loaded) /\ IsNotes(state.notes) /\ Len(state.chain) \in Nat
  BY LoadedNotes DEF StoreInv, GraphTypeOK, HistoryInv, Typed
<1>3. IsNotes(new) /\ (\A n \in W : new[n] \in NoteAt(n)) /\ IsNotes(rec.notes)
  BY <1>2, RenderedNotes, RecordedNotes
<1>4. W \subseteq Note
  BY DEF Inbound
<1>5. Removals(Loaded, touch) \subseteq Note \X Place
  <2> SUFFICES ASSUME NEW n \in touch,
                      Current(Loaded, n) \notin {"nowhere", Planned(Loaded, n)}
               PROVE  <<n, Current(Loaded, n)>> \in Note \X Place
    BY DEF Removals
  <2>1. Current(Loaded, n) \in Place \cup {"nowhere"}
    BY <1>2, PlannedPlace
  <2> QED
    BY <2>1
<1>6. rec.chain = Append(state.chain, id)
  BY DEF Recorded
<1> HIDE DEF W, new, rec
<1>7. /\ pending'.writes = [n \in W |-> new[n]] /\ DOMAIN pending'.writes = W
      /\ pending'.removals = Removals(Loaded, touch) /\ pending'.after = rec
  BY <1>1
<1>8. GraphTypeOK'
  <2>1. /\ HasState' /\ files' \subseteq {"state", "pending"}
    BY <1>1 DEF StoreInv, GraphTypeOK, HasState
  <2>2. \A n \in DOMAIN pending'.writes : pending'.writes[n] \in [path : Place, text : Text(n)]
    BY <1>3, <1>7 DEF NoteAt
  <2>3. /\ IsNotes(pending'.after.notes) /\ IsNotes(nodes') /\ pending'.removals \subseteq Note \X Place
        /\ DOMAIN pending'.writes \subseteq Note /\ todo' \subseteq Note
    BY <1>1, <1>3, <1>4, <1>5, <1>7
  <2>4. /\ disk' = [n \in Note |-> disk'[n]]
        /\ \A n \in Note : disk'[n] \in [Place -> Text(n) \cup {None}]
        /\ IsNotes(state'.notes)
        /\ snapshot'.rev \in Nat \cup {-1} /\ IsNotes(snapshot'.notes)
        /\ hands' \in Nat
        /\ gpc' \in {"idle", "enter", "notes", "snapshot", "unlink"}
        /\ recovering' \in BOOLEAN
        /\ ret' \in Outcome
    BY <1>1 DEF StoreInv, GraphTypeOK
  <2> QED
    BY <2>1, <2>2, <2>3, <2>4 DEF GraphTypeOK, IsNotes, Text, HasState, HasPending
<1>9. Holding'
  <2>1. HasPending' /\ recovering' = FALSE /\ ret' = NoReturn
    BY <1>1 DEF StoreInv, Holding, HasPending
  <2>2. InChain(pending'.after, id)
    <3>1. state.chain \in Seq(OpId)
      BY DEF StoreInv, HistoryInv, Typed
    <3>2. Len(Append(state.chain, id)) = Len(state.chain) + 1
          /\ Append(state.chain, id)[Len(state.chain) + 1] = id
      BY <3>1
    <3> QED
      BY <1>2, <1>6, <1>7, <3>2 DEF InChain
  <2>3. todo' \subseteq DOMAIN pending'.writes
    BY <1>1, <1>7
  <2> QED
    BY <1>1, <2>1, <2>2, <2>3 DEF Holding, InChain
<1> QED
  BY <1>8, <1>9

\* Where a call can go: it returns, opens the state, replays or begins.
LEMMA EnterAs ==
    ASSUME StoreInv, Enter
    PROVE  /\ gpc = "enter" /\ call \in GraphCalls /\ nodes = NoNotes /\ ~recovering
           /\ \/ \E value \in {"raised", "already", "nothing"} : ~HasPending /\ Return(value)
              \/ HasPending /\ Recover
              \/ /\ ~HasPending /\ ~HasState /\ call = OpenOp
                 /\ files' = files \cup {"state"} /\ state' = EmptyState /\ gpc' = "snapshot"
                 /\ UNCHANGED <<disk, pending, snapshot, hands, recovering, nodes, todo, call, ret>>
              \/ \E touch \in SUBSET Note, id \in OpId :
                    /\ ~HasPending /\ HasState /\ call.kind # "open"
                    /\ call.kind = "write" => touch = call.touch /\ id = call.id
                    /\ Begin(Loaded, touch, id)
<1>1. gpc = "enter" /\ call \in GraphCalls /\ nodes = NoNotes /\ ~recovering
  BY DEF Enter, StoreInv, HistoryInv, Standing, Holding
<1>2. CASE HasPending /\ Recover
  BY <1>1, <1>2
<1>3. CASE ~HasPending /\ Open
  <2>1. call = OpenOp
    BY <1>1, <1>3 DEF Open, GraphCalls, OpenOp, ReconcileOp, RunStartOp, TasksOp, ReportOp
  <2> QED
    BY <1>1, <1>3, <2>1 DEF Open
<1>4. CASE ~HasPending /\ Reconcile
  <2>1. Edited \in SUBSET Note /\ <<"human", Rev(state)>> \in OpId
    BY DEF Edited, Managed, OpId, Rev, StoreInv, HistoryInv, Typed
  <2>2. \/ Return("raised") \/ Return("nothing")
        \/ HasState /\ Begin(Loaded, Edited, <<"human", Rev(state)>>)
    BY <1>4 DEF Reconcile
  <2>3. call.kind = "reconcile"
    BY <1>4 DEF Reconcile
  <2> QED
    BY <1>1, <1>4, <2>1, <2>2, <2>3
<1>5. CASE ~HasPending /\ Write
  <2>1. call.kind = "write"
    BY <1>5 DEF Write
  <2>2. call.touch \in SUBSET Note /\ call.id \in OpId
    <3>1. call.id \in OpId
      BY <1>1, <2>1, WriteIds
    <3> QED
      BY <1>1, <2>1, <3>1, AdmissionConstants
         DEF GraphCalls, OpenOp, ReconcileOp, RunStartOp, TasksOp, ReportOp
  <2>3. \/ Return("raised") \/ Return("already")
        \/ HasState /\ Begin(Loaded, call.touch, call.id)
    BY <1>5 DEF Write
  <2> QED
    BY <1>1, <1>5, <2>1, <2>2, <2>3
<1> QED
  BY <1>2, <1>3, <1>4, <1>5 DEF Enter

LEMMA EnterStores ==
    ASSUME StoreInv, Enter
    PROVE  GraphTypeOK' /\ Holding'
<1>1. gpc = "enter" /\ nodes = NoNotes /\ ~recovering
  BY EnterAs
<1>2. ASSUME NEW value \in {"raised", "already", "nothing"}, Return(value)
      PROVE  GraphTypeOK' /\ Holding'
  BY <1>2, ReturnStores DEF Outcome
<1>3. CASE HasPending /\ Recover
  <2>1. /\ UNCHANGED <<disk, files, state, pending, snapshot, hands, nodes, call, ret>>
        /\ gpc' = "notes" /\ recovering' = TRUE /\ todo' = DOMAIN pending.writes
    BY <1>3 DEF Recover, durableGraph
  <2>2. GraphTypeOK'
    BY <2>1 DEF StoreInv, GraphTypeOK, HasState, HasPending, IsNotes, Text
  <2>3. ret = NoReturn
    BY <1>1 DEF StoreInv, Holding
  <2> QED
    BY <1>3, <2>1, <2>2, <2>3 DEF Holding, HasPending
<1>4. CASE /\ ~HasPending /\ ~HasState /\ call = OpenOp
           /\ files' = files \cup {"state"} /\ state' = EmptyState /\ gpc' = "snapshot"
           /\ UNCHANGED <<disk, pending, snapshot, hands, recovering, nodes, todo, call, ret>>
  <2>1. IsNotes(state'.notes)
    BY <1>4, NoNotesTyped DEF EmptyState
  <2>2. GraphTypeOK'
    BY <1>4, <2>1 DEF StoreInv, GraphTypeOK, HasState, HasPending, IsNotes, Text
  <2>3. call'.kind = "open" /\ ret' = NoReturn
    BY <1>1, <1>4 DEF OpenOp, StoreInv, Holding
  <2> QED
    BY <1>1, <1>4, <2>2, <2>3 DEF Holding
<1>5. ASSUME NEW touch \in SUBSET Note, NEW id \in OpId, HasState,
             call.kind = "write" => id = call.id,
             Begin(Loaded, touch, id)
      PROVE  GraphTypeOK' /\ Holding'
  BY <1>1, <1>5, BeginStores
<1>6. \/ \E value \in {"raised", "already", "nothing"} : Return(value)
      \/ HasPending /\ Recover
      \/ /\ ~HasPending /\ ~HasState /\ call = OpenOp
         /\ files' = files \cup {"state"} /\ state' = EmptyState /\ gpc' = "snapshot"
         /\ UNCHANGED <<disk, pending, snapshot, hands, recovering, nodes, todo, call, ret>>
      \/ \E touch \in SUBSET Note, id \in OpId :
            /\ HasState
            /\ call.kind = "write" => id = call.id
            /\ Begin(Loaded, touch, id)
  BY EnterAs
<1> QED
  BY <1>2, <1>3, <1>4, <1>5, <1>6

\* A file of the transaction is written or removed.
LEMMA NoteStores ==
    ASSUME StoreInv, WriteNote \/ RemoveNote
    PROVE  GraphTypeOK' /\ Holding'
<1>1. /\ UNCHANGED <<files, state, pending, snapshot, hands, gpc, recovering, nodes, call, ret>>
      /\ gpc = "notes" /\ todo' \subseteq todo
  BY DEF WriteNote, RemoveNote, durableGraph, callVars
<1>2. /\ disk' = [n \in Note |-> disk'[n]]
      /\ \A n \in Note : disk'[n] \in [Place -> Text(n) \cup {None}]
  <2>1. ASSUME NEW m \in Note, NEW p \in Place, NEW t \in Text(m) \cup {None},
               disk' = [disk EXCEPT ![m][p] = t]
        PROVE  /\ disk' = [n \in Note |-> disk'[n]]
               /\ \A n \in Note : disk'[n] \in [Place -> Text(n) \cup {None}]
    <3>1. disk = [n \in Note |-> disk[n]]
      BY DEF StoreInv, GraphTypeOK
    <3>2. disk' = [n \in Note |-> disk'[n]]
      BY <2>1, <3>1
    <3>3. ASSUME NEW n \in Note
          PROVE  disk'[n] = IF n = m THEN [disk[m] EXCEPT ![p] = t] ELSE disk[n]
      BY <2>1, <3>1
    <3>4. \A n \in Note : disk[n] \in [Place -> Text(n) \cup {None}]
      BY DEF StoreInv, GraphTypeOK
    <3>5. [disk[m] EXCEPT ![p] = t] \in [Place -> Text(m) \cup {None}]
      BY <2>1, <3>4
    <3> QED
      BY <3>2, <3>3, <3>4, <3>5
  <2>2. CASE WriteNote
    <3>1. PICK m \in todo :
             disk' = [disk EXCEPT ![m][pending.writes[m].path] = pending.writes[m].text]
      BY <2>2 DEF WriteNote
    <3>2. m \in DOMAIN pending.writes
      BY <1>1, <3>1 DEF StoreInv, Holding
    <3>3. m \in Note /\ pending.writes[m] \in NoteAt(m)
      BY <3>2 DEF StoreInv, GraphTypeOK, NoteAt
    <3> QED
      BY <2>1, <3>1, <3>3 DEF NoteAt
  <2>3. CASE RemoveNote
    <3>1. PICK r \in Unlinked : disk' = [disk EXCEPT ![r[1]][r[2]] = None]
      BY <2>3 DEF RemoveNote
    <3>2. r[1] \in Note /\ r[2] \in Place
      BY <3>1 DEF Unlinked, StoreInv, GraphTypeOK
    <3> QED
      BY <2>1, <3>1, <3>2
  <2> QED
    BY <2>2, <2>3
<1>3. GraphTypeOK'
  BY <1>1, <1>2 DEF StoreInv, GraphTypeOK, HasState, HasPending, IsNotes, Text
<1>4. Holding'
  BY <1>1 DEF StoreInv, Holding, HasPending, InChain
<1> QED
  BY <1>3, <1>4

LEMMA CommitStores ==
    ASSUME StoreInv, WriteState \/ WriteSnapshot \/ Settle
    PROVE  GraphTypeOK' /\ Holding'
<1>1. CASE Return("raised")
  BY <1>1, ReturnStores DEF Outcome
<1>2. CASE WriteState
  <2>1. /\ UNCHANGED <<disk, files, pending, snapshot, hands>> /\ state' = pending.after
        /\ gpc = "notes" /\ HasPending /\ HasPending'
    BY <1>2 DEF WriteState, StoreInv, HistoryInv, Standing, HasPending
  <2>2. \/ gpc' = "idle" /\ recovering' = FALSE /\ nodes' = NoNotes /\ todo' = {} /\ ret' = "raised"
        \/ /\ nodes' = (IF recovering THEN Loaded ELSE nodes) /\ gpc' = "snapshot"
           /\ UNCHANGED <<recovering, todo, call, ret>>
    BY <1>2 DEF WriteState, Idle
  <2>3. IsNotes(nodes') /\ recovering' \in BOOLEAN /\ todo' \subseteq Note /\ ret' \in Outcome
    <3>1. IsNotes(Loaded) /\ IsNotes(nodes) /\ IsNotes(NoNotes)
      BY LoadedNotes, NoNotesTyped DEF StoreInv, GraphTypeOK
    <3>2. recovering \in BOOLEAN /\ todo \subseteq Note /\ ret \in Outcome
      BY DEF StoreInv, GraphTypeOK
    <3>3. nodes' = Loaded \/ nodes' = nodes \/ nodes' = NoNotes
      BY <2>2
    <3>4. IsNotes(nodes')
      BY <3>1, <3>3
    <3>5. recovering' \in BOOLEAN /\ todo' \subseteq Note
      BY <2>2, <3>2
    <3>6. ret' = "raised" \/ ret' = ret
      BY <2>2
    <3>7. ret' \in Outcome
      BY <3>2, <3>6 DEF Outcome
    <3> QED
      BY <3>4, <3>5, <3>7
  <2>4. IsNotes(state'.notes)
    BY <2>1 DEF StoreInv, GraphTypeOK
  <2>5. GraphTypeOK'
    <3>1. gpc' \in {"idle", "enter", "notes", "snapshot", "unlink"}
      BY <2>2
    <3> QED
      BY <2>1, <2>3, <2>4, <3>1 DEF StoreInv, GraphTypeOK, HasState, HasPending, IsNotes, Text
  <2>6. ret = NoReturn
    BY <2>1 DEF StoreInv, Holding
  <2>7. Holding'
    BY <2>1, <2>2, <2>6 DEF StoreInv, Holding, InChain
  <2> QED
    BY <2>5, <2>7
<1>3. CASE /\ gpc = "snapshot"
           /\ snapshot' = [rev |-> Rev(state), notes |-> nodes]
           /\ gpc' = "unlink"
           /\ UNCHANGED <<disk, files, state, pending, hands, recovering, nodes, todo, call, ret>>
  <2>1. snapshot'.rev \in Nat /\ IsNotes(snapshot'.notes)
    BY <1>3 DEF Rev, StoreInv, HistoryInv, Typed, GraphTypeOK
  <2>2. GraphTypeOK'
    BY <1>3, <2>1 DEF StoreInv, GraphTypeOK, HasState, HasPending, IsNotes, Text
  <2> QED
    BY <1>3, <2>2 DEF StoreInv, Holding, HasPending, InChain
<1>4. CASE Settle
  <2>1. /\ UNCHANGED <<disk, state, snapshot, hands>> /\ pending' = NoTransaction
        /\ files' = files \ {"pending"} /\ gpc = "unlink" /\ HasState
    BY <1>4 DEF Settle, StoreInv, HistoryInv, Standing
  <2>2. \/ /\ gpc' = "enter" /\ recovering' = FALSE /\ nodes' = NoNotes
           /\ UNCHANGED <<todo, call, ret>>
        \/ /\ gpc' = "idle" /\ recovering' = FALSE /\ nodes' = NoNotes /\ todo' = {}
           /\ ret' \in {"merged", "opened"}
    BY <1>4 DEF Settle, Idle
  <2>3. /\ IsNotes(pending'.after.notes) /\ DOMAIN pending'.writes = {}
        /\ pending'.removals = {}
    BY <2>1, NoNotesTyped DEF NoTransaction, EmptyState
  <2>4. /\ IsNotes(nodes') /\ recovering' \in BOOLEAN /\ todo' \subseteq Note /\ ret' \in Outcome
        /\ gpc' \in {"idle", "enter"}
    BY <2>2, NoNotesTyped DEF StoreInv, GraphTypeOK, Outcome
  <2>5. HasState' /\ ~HasPending' /\ files' \subseteq {"state", "pending"}
    BY <2>1 DEF HasState, HasPending, StoreInv, GraphTypeOK
  <2>6. GraphTypeOK'
    BY <2>1, <2>3, <2>4, <2>5 DEF StoreInv, GraphTypeOK, HasState, HasPending, IsNotes, Text
  <2>7. ret = NoReturn
    BY <2>1 DEF StoreInv, Holding
  <2>8. Holding'
    BY <2>2, <2>7 DEF Holding
  <2> QED
    BY <2>6, <2>8
<1> QED
  BY <1>1, <1>2, <1>3, <1>4 DEF WriteSnapshot

\* A step that only moves the operation to a call or to rest.
LEMMA StillStores ==
    ASSUME StoreInv, UNCHANGED durableGraph, UNCHANGED hands, UNCHANGED disk,
           \/ Forget
           \/ gpc = "idle" /\ gpc' = "enter" /\ ret' = NoReturn
              /\ UNCHANGED <<recovering, nodes, todo>>
           \/ UNCHANGED callVars
    PROVE  GraphTypeOK' /\ Holding'
<1>1. /\ files' = files /\ state' = state /\ pending' = pending /\ snapshot' = snapshot
      /\ hands' = hands /\ disk' = disk
  BY DEF durableGraph
<1>2. /\ IsNotes(nodes') /\ recovering' \in BOOLEAN /\ todo' \subseteq Note /\ ret' \in Outcome
      /\ gpc' \in {"idle", "enter", "notes", "snapshot", "unlink"}
  <2>1. /\ IsNotes(nodes) /\ IsNotes(NoNotes) /\ recovering \in BOOLEAN /\ todo \subseteq Note
        /\ ret \in Outcome /\ NoReturn \in Outcome
        /\ gpc \in {"idle", "enter", "notes", "snapshot", "unlink"}
    BY NoNotesTyped DEF StoreInv, GraphTypeOK, Outcome
  <2>2. /\ nodes' = NoNotes \/ nodes' = nodes
        /\ recovering' = FALSE \/ recovering' = recovering
        /\ todo' = {} \/ todo' = todo
        /\ ret' = NoReturn \/ ret' = ret
        /\ gpc' \in {"idle", "enter"} \/ gpc' = gpc
    BY DEF Forget, Idle, callVars
  <2>3. IsNotes(nodes')
    BY <2>1, <2>2
  <2> QED
    BY <2>1, <2>2, <2>3
<1>3. GraphTypeOK'
  BY <1>1, <1>2 DEF StoreInv, GraphTypeOK, HasState, HasPending, IsNotes, Text
<1>4. Holding'
  BY <1>1 DEF StoreInv, Holding, HasPending, InChain, Forget, Idle, callVars
<1> QED
  BY <1>3, <1>4

\* Human hands leave notes, in the directory of their node.
LEMMA HandStores ==
    ASSUME StoreInv, Hand
    PROVE  GraphTypeOK' /\ Holding'
<1>1. PICK m \in Note : \E p \in Found(m) :
          \/ Prose(m, p) \/ Field(m, p) \/ Delete(m, p) \/ \E q \in Place : Rename(m, p, q)
  BY DEF Hand
<1>2. PICK p \in Found(m) :
          \/ Prose(m, p) \/ Field(m, p) \/ Delete(m, p) \/ \E q \in Place : Rename(m, p, q)
  BY <1>1
<1>3. /\ disk = [n \in Note |-> disk[n]]
      /\ \A n \in Note : disk[n] \in [Place -> Text(n) \cup {None}]
  BY DEF StoreInv, GraphTypeOK
<1>4. p \in Place /\ disk[m][p] \in Text(m)
  BY <1>2, <1>3 DEF Found
<1>5. PICK d \in [Place -> Text(m) \cup {None}] : disk' = [disk EXCEPT ![m] = d]
  <2>1. ASSUME NEW t \in Text(m) \cup {None}, disk' = [disk EXCEPT ![m][p] = t]
        PROVE  \E d \in [Place -> Text(m) \cup {None}] : disk' = [disk EXCEPT ![m] = d]
    <3>1. [disk[m] EXCEPT ![p] = t] \in [Place -> Text(m) \cup {None}]
      BY <1>3
    <3>2. disk' = [disk EXCEPT ![m] = [disk[m] EXCEPT ![p] = t]]
      BY <1>3, <2>1
    <3> QED
      BY <3>1, <3>2
  <2>2. CASE Prose(m, p)
    <3> DEFINE t == [disk[m][p] EXCEPT !.prose = ~disk[m][p].prose]
    <3>1. t \in Text(m)
      BY <1>4 DEF Text
    <3>2. disk' = [disk EXCEPT ![m][p] = t]
      BY <1>3, <1>4, <2>2 DEF Prose
    <3> HIDE DEF t
    <3> QED
      BY <2>1, <3>1, <3>2
  <2>3. CASE Field(m, p)
    <3> DEFINE t == [disk[m][p] EXCEPT !.field = ~disk[m][p].field]
    <3>1. t \in Text(m)
      BY <1>4 DEF Text
    <3>2. disk' = [disk EXCEPT ![m][p] = t]
      BY <1>3, <1>4, <2>3 DEF Field
    <3> HIDE DEF t
    <3> QED
      BY <2>1, <3>1, <3>2
  <2>4. CASE Delete(m, p)
    BY <2>1, <2>4 DEF Delete
  <2>5. CASE \E q \in Place : Rename(m, p, q)
    <3>1. PICK q \in Place : Rename(m, p, q)
      BY <2>5
    <3> DEFINE d == [[disk[m] EXCEPT ![p] = None] EXCEPT ![q] = disk[m][p]]
    <3>2. d \in [Place -> Text(m) \cup {None}]
      BY <1>3, <1>4
    <3>3. disk' = [disk EXCEPT ![m] = d]
      BY <1>3, <3>1 DEF Rename
    <3> HIDE DEF d
    <3> QED
      BY <3>2, <3>3
  <2> QED
    BY <1>2, <2>2, <2>3, <2>4, <2>5
<1>6. /\ disk' = [n \in Note |-> disk'[n]]
      /\ \A n \in Note : disk'[n] \in [Place -> Text(n) \cup {None}]
  BY <1>3, <1>5
<1>7. /\ files' = files /\ state' = state /\ pending' = pending /\ snapshot' = snapshot
      /\ hands' = hands + 1 /\ UNCHANGED callVars
  BY DEF Hand, durableGraph
<1>8. GraphTypeOK'
  BY <1>6, <1>7 DEF StoreInv, GraphTypeOK, HasState, HasPending, IsNotes, Text, callVars
<1>9. Holding'
  BY <1>7 DEF StoreInv, Holding, HasPending, InChain, callVars
<1> QED
  BY <1>8, <1>9

(* The vault. -----------------------------------------------------------------*)

VNotes  == VaultNotes(Bases)
VTitles == Titles(Bases)

\* The smallest of a set of numbers is one of them.
LEMMA LeastNumber ==
    ASSUME NEW S \in SUBSET Nat, S # {}
    PROVE  \E k \in S : \A j \in S : k <= j
<1> DEFINE R == {ss \in Nat \X Nat : ss[1] < ss[2]}
<1>1. IsWellFoundedOn(R, Nat)
  BY NatLessThanWellFounded DEF OpToRel
<1> HIDE DEF R
<1>2. PICK k \in S : \A j \in S : <<j, k>> \notin R
  BY <1>1, WFMin
<1>3. \A j \in S : ~(j < k)
  BY <1>2 DEF R
<1> QED
  BY <1>3

\* Among finitely many notes a free title is found: with the lowest qualifier.
LEMMA FreeTitleFacts ==
    ASSUME NEW notes, IsFiniteSet(notes), NEW base
    PROVE  /\ FreeTitle(notes, base) = [base |-> base, number |-> FreeTitle(notes, base).number]
           /\ FreeTitle(notes, base).number \in Nat
           /\ ~TakenIn(notes, FreeTitle(notes, base))
           /\ ~TakenIn(notes, Title(base)) => FreeTitle(notes, base) = Title(base)
<1> DEFINE N    == Cardinality(notes)
           at(k) == [base |-> base, number |-> k]
           free == {k \in 0..N : ~TakenIn(notes, at(k))}
           k0   == CHOOSE k \in free : \A j \in free : k <= j
<1>1. N \in Nat
  BY FS_CardinalityType
<1>2. \A k, j : at(k) = at(j) => k = j
  <2> SUFFICES ASSUME NEW k, NEW j, at(k) = at(j) PROVE k = j
    OBVIOUS
  <2>1. at(k).number = k /\ at(j).number = j
    OBVIOUS
  <2> QED
    BY <2>1
<1> HIDE DEF at
<1>3. free # {}
  <2> SUFFICES ASSUME \A k \in 0..N : TakenIn(notes, at(k))
               PROVE  FALSE
    OBVIOUS
  <2> DEFINE f == [k \in 0..N |-> CHOOSE note \in notes : note.title = at(k)]
  <2>1. \A k \in 0..N : f[k] \in notes /\ f[k].title = at(k)
    BY DEF TakenIn
  <2> HIDE DEF f
  <2>2. f \in [0..N -> notes]
    BY <2>1 DEF f
  <2>3. IsFiniteSet(0..N) /\ Cardinality(0..N) = N + 1
    BY <1>1, FS_Interval
  <2>4. \E x, y \in 0..N : x # y /\ f[x] = f[y]
    BY <1>1, <2>2, <2>3, FS_PigeonHole
  <2> QED
    BY <1>2, <2>1, <2>4
<1>4. k0 \in free /\ \A j \in free : k0 <= j
  <2>1. free \in SUBSET Nat
    BY <1>1
  <2>2. \E k \in free : \A j \in free : k <= j
    BY <1>3, <2>1, LeastNumber
  <2> QED
    BY <2>2
<1>5. FreeTitle(notes, base) = at(k0)
  BY DEF FreeTitle, at
<1> HIDE DEF k0
<1>6. at(k0) = [base |-> base, number |-> k0] /\ at(k0).number = k0
  BY DEF at
<1>7. k0 \in Nat /\ ~TakenIn(notes, at(k0))
  BY <1>1, <1>4
<1>8. ~TakenIn(notes, Title(base)) => at(k0) = Title(base)
  <2>1. Title(base) = at(0)
    BY DEF Title, at
  <2>2. ~TakenIn(notes, at(0)) => 0 \in free
    BY <1>1
  <2>3. 0 \in free => k0 = 0
    BY <1>4, <1>7
  <2> QED
    BY <2>1, <2>2, <2>3
<1> QED
  BY <1>5, <1>6, <1>7, <1>8

\* No title is taken twice, and what is recorded under a title stays, with its marks.
Distinct(notes) == \A a, b \in notes : a.title = b.title => a = b
Fits(note, notes) ==
    \A old \in notes : old.title = note.title => old.what = note.what /\ old.marks \subseteq note.marks
Covers(new, old) ==
    \A o \in old : \E n \in new : n.title = o.title /\ n.what = o.what /\ o.marks \subseteq n.marks

IsVault(notes) == notes \subseteq VNotes /\ Distinct(notes) /\ IsFiniteSet(notes)

LEMMA CoversSelf == \A notes : Covers(notes, notes)
BY DEF Covers

LEMMA CoversAll ==
    ASSUME NEW a, NEW b, NEW c, Covers(b, a), Covers(c, b)
    PROVE  Covers(c, a)
<1> SUFFICES ASSUME NEW o \in a
             PROVE  \E n \in c : n.title = o.title /\ n.what = o.what /\ o.marks \subseteq n.marks
  BY DEF Covers
<1>1. PICK m \in b : m.title = o.title /\ m.what = o.what /\ o.marks \subseteq m.marks
  BY DEF Covers
<1>2. PICK n \in c : n.title = m.title /\ n.what = m.what /\ m.marks \subseteq n.marks
  BY DEF Covers
<1> QED
  BY <1>1, <1>2

LEMMA PutFacts ==
    ASSUME NEW notes, IsVault(notes), NEW note \in VNotes
    PROVE  /\ IsVault(Put(notes, note)) /\ note \in Put(notes, note)
           /\ Fits(note, notes) => Covers(Put(notes, note), notes)
<1>1. note \in Put(notes, note) /\ Put(notes, note) \subseteq VNotes /\ Distinct(Put(notes, note))
  BY DEF Put, IsVault, Distinct
<1>2. IsFiniteSet(Put(notes, note))
  <2>1. IsFiniteSet({other \in notes : other.title # note.title})
    BY FS_Subset DEF IsVault
  <2> QED
    BY <2>1, FS_AddElement DEF Put
<1>3. Fits(note, notes) => Covers(Put(notes, note), notes)
  <2> SUFFICES ASSUME Fits(note, notes), NEW o \in notes
               PROVE  \E n \in Put(notes, note) :
                         n.title = o.title /\ n.what = o.what /\ o.marks \subseteq n.marks
    BY DEF Covers
  <2>1. CASE o.title = note.title
    BY <1>1, <2>1 DEF Fits
  <2>2. CASE o.title # note.title
    BY <2>2 DEF Put
  <2> QED
    BY <2>1, <2>2
<1> QED
  BY <1>1, <1>2, <1>3 DEF IsVault

\* A note with a mark of a finding has the mark of a run.
Marked(marks) ==
    (\E t \in VTitles : marks \cap FindingMarks(t) # {}) => RunMark \in marks \/ OtherMark \in marks
Ours(note) == Marked(note.marks)

LEMMA FindingMarksAre ==
    ASSUME NEW title \in VTitles
    PROVE  FindingMarks(title) \subseteq Marks(Bases)
<1>1. ReportMark(title) \in {"worker report", "assignment"} \X Titles(Bases)
  BY DEF ReportMark, VTitles
<1>2. AssignmentMark(title) \in {"worker report", "assignment"} \X Titles(Bases)
  BY DEF AssignmentMark, VTitles
<1> QED
  BY <1>1, <1>2 DEF FindingMarks, Marks

VaultInv ==
    /\ IsVault(vault)
    /\ txn \in Staged(Bases) \cup {Absent}
    /\ vret \in VTitles \cup {Absent, Raised}
    /\ vpc \in {"idle", "replace", "clean"}
    /\ edits \in Nat /\ foreign \in Nat
    /\ vpc # "idle" => vret = Absent /\ txn # Absent /\ txn.staged = (vpc = "replace")
    /\ txn # Absent /\ txn.staged => Fits(txn.note, vault)
    /\ edits = 0 /\ txn # Absent /\ ~txn.staged => txn.note \in vault
    /\ \A note \in vault : Ours(note)
    /\ txn # Absent => Ours(txn.note)

LEMMA TxnFacts ==
    ASSUME VaultInv, txn # Absent
    PROVE  /\ txn \in Staged(Bases) /\ txn.note \in VNotes /\ txn.staged \in BOOLEAN
           /\ txn.note.title \in VTitles
BY DEF VaultInv, Staged, VNotes, VaultNotes, VTitles

\* What the next holder of the lock finds.
LEMMA RecoveredFacts ==
    ASSUME VaultInv
    PROVE  /\ IsVault(Recovered) /\ Covers(Recovered, vault)
           /\ \A note \in Recovered : Ours(note) /\ (note \in vault \/ (note = txn.note /\ txn # Absent))
<1>1. CASE txn # Absent /\ txn.staged
  <2>1. Recovered = Put(vault, txn.note) /\ txn.note \in VNotes
    BY <1>1, TxnFacts DEF Recovered
  <2>2. Fits(txn.note, vault) /\ IsVault(vault) /\ Ours(txn.note)
    BY <1>1 DEF VaultInv
  <2>3. IsVault(Recovered) /\ Covers(Recovered, vault)
    BY <2>1, <2>2, PutFacts
  <2>4. \A note \in Recovered : note \in vault \/ note = txn.note
    BY <2>1 DEF Put
  <2> QED
    BY <1>1, <2>2, <2>3, <2>4 DEF VaultInv
<1>2. CASE ~(txn # Absent /\ txn.staged)
  <2>1. Recovered = vault
    BY <1>2 DEF Recovered
  <2>2. IsVault(vault) /\ \A note \in vault : Ours(note)
    BY DEF VaultInv
  <2>3. Covers(vault, vault)
    BY CoversSelf
  <2>4. IsVault(Recovered) /\ Covers(Recovered, vault)
    BY <2>1, <2>2, <2>3
  <2>5. ASSUME NEW note \in Recovered
        PROVE  Ours(note) /\ (note \in vault \/ (note = txn.note /\ txn # Absent))
    <3>1. note \in vault
      BY <2>1
    <3> QED
      BY <2>2, <3>1
  <2> QED
    BY <2>4, <2>5
<1> QED
  BY <1>1, <1>2

LEMMA LostByHand ==
    ASSUME VaultInv, Unrecoverable
    PROVE  edits > 0
BY DEF VaultInv, Unrecoverable

\* A staged note fits the vault it is staged over.
LEMMA StageVault ==
    ASSUME VaultInv, vpc = "idle", vret = Absent, NEW note \in VNotes, Ours(note),
           vault' = Recovered, Fits(note, Recovered), Stage(note)
    PROVE  /\ VaultInv' /\ Covers(vault', vault)
           /\ vpc' = "replace" /\ vret' = Absent /\ txn' # Absent /\ txn'.note = note
           /\ edits' = edits /\ foreign' = foreign
<1>1. /\ txn' = [note |-> note, staged |-> TRUE] /\ vpc' = "replace" /\ vret' = Absent
      /\ edits' = edits /\ foreign' = foreign
  BY DEF Stage
<1>2. txn' \in Staged(Bases) /\ txn'.note = note /\ txn'.staged = TRUE
  BY <1>1 DEF Staged, VNotes
<1>3. txn' # Absent
  BY <1>2, NothingIsNoValue
<1>4. IsVault(Recovered) /\ Covers(Recovered, vault) /\ \A other \in Recovered : Ours(other)
  BY RecoveredFacts
<1>5. VaultInv'
  BY <1>1, <1>2, <1>3, <1>4 DEF VaultInv, Ours
<1> QED
  BY <1>1, <1>2, <1>3, <1>4, <1>5

\* A call that returns at once leaves the recovered vault.
LEMMA ReturnVault ==
    ASSUME VaultInv, vpc = "idle", NEW value \in VTitles \cup {Raised}, VaultReturn(value),
           \/ UNCHANGED <<vault, txn>>
           \/ vault' = Recovered /\ txn' = Absent
    PROVE  VaultInv' /\ Covers(vault', vault)
<1>1. vret' = value /\ vpc' = "idle" /\ edits' = edits /\ foreign' = foreign
  BY DEF VaultReturn
<1>2. CASE UNCHANGED <<vault, txn>>
  BY <1>1, <1>2, CoversSelf DEF VaultInv, Ours
<1>3. CASE vault' = Recovered /\ txn' = Absent
  <2>1. IsVault(Recovered) /\ Covers(Recovered, vault) /\ \A other \in Recovered : Ours(other)
    BY RecoveredFacts
  <2> QED
    BY <1>1, <1>3, <2>1 DEF VaultInv, Ours
<1> QED
  BY <1>2, <1>3

LEMMA FreeNote ==
    ASSUME VaultInv, NEW base \in Bases, NEW what \in {"task", "finding", "other"} \X Nat \X Nat,
           NEW marks \in SUBSET Marks(Bases)
    PROVE  LET note == [title |-> FreeTitle(Recovered, base), what |-> what,
                        marks |-> marks, hand |-> FALSE]
           IN  note \in VNotes /\ Fits(note, Recovered)
<1> DEFINE note == [title |-> FreeTitle(Recovered, base), what |-> what,
                    marks |-> marks, hand |-> FALSE]
<1>1. IsFiniteSet(Recovered)
  BY RecoveredFacts DEF IsVault
<1>2. /\ FreeTitle(Recovered, base) = [base |-> base, number |-> FreeTitle(Recovered, base).number]
      /\ FreeTitle(Recovered, base).number \in Nat
      /\ ~TakenIn(Recovered, FreeTitle(Recovered, base))
  BY <1>1, FreeTitleFacts
<1>3. FreeTitle(Recovered, base) \in VTitles
  BY <1>2 DEF VTitles, Titles
<1>4. note \in VNotes
  BY <1>3 DEF VNotes, VaultNotes, VTitles
<1>5. Fits(note, Recovered)
  BY <1>2 DEF Fits, TakenIn
<1> QED
  BY <1>4, <1>5

\* admit_finding: refused after a human edit, or the note is there, or it is staged.
LEMMA AdmitVault ==
    ASSUME VaultInv, NEW base \in Bases, NEW what \in {"task", "finding", "other"} \X Nat \X Nat,
           NEW marks \in SUBSET Marks(Bases),
           Marked(marks),
           Admit(what, base, marks)
    PROVE  /\ VaultInv' /\ Covers(vault', vault)
           /\ edits' = edits /\ foreign' = foreign
           /\ \/ vpc' = "idle" /\ vret' = Raised /\ edits > 0 /\ UNCHANGED <<vault, txn>>
              \/ /\ vpc' = "idle" /\ vret' = Title(base) /\ vault' = Recovered /\ txn' = Absent
                 /\ \E note \in vault' : note.title = Title(base) /\ note.marks \cap marks # {}
              \/ /\ vpc' = "replace" /\ vret' = Absent /\ vault' = Recovered /\ txn' # Absent
                 /\ txn'.note = [title |-> FreeTitle(Recovered, base), what |-> what,
                                 marks |-> marks, hand |-> FALSE]
                 /\ Prior(Recovered, base, marks) = {}
<1>1. vpc = "idle" /\ vret = Absent
  BY DEF Admit
<1>2. CASE Unrecoverable
  <2>1. VaultReturn(Raised) /\ UNCHANGED <<vault, txn>>
    BY <1>2 DEF Admit
  <2>2. VaultInv' /\ Covers(vault', vault)
    BY <1>1, <2>1, ReturnVault
  <2> QED
    BY <1>1, <1>2, <2>1, <2>2, LostByHand DEF VaultReturn
<1>3. CASE ~Unrecoverable /\ Prior(Recovered, base, marks) # {}
  <2>1. VaultReturn(Title(base)) /\ txn' = Absent /\ vault' = Recovered
    BY <1>3 DEF Admit
  <2>2. Title(base) \in VTitles
    BY DEF Title, VTitles, Titles
  <2>3. VaultInv' /\ Covers(vault', vault)
    BY <1>1, <2>1, <2>2, ReturnVault
  <2>4. \E note \in Recovered : note.title = Title(base) /\ note.marks \cap marks # {}
    BY <1>3 DEF Prior
  <2> QED
    BY <1>1, <2>1, <2>3, <2>4 DEF VaultReturn
<1>4. CASE ~Unrecoverable /\ Prior(Recovered, base, marks) = {}
  <2> DEFINE note == [title |-> FreeTitle(Recovered, base), what |-> what,
                      marks |-> marks, hand |-> FALSE]
  <2>1. vault' = Recovered /\ Stage(note)
    BY <1>4 DEF Admit
  <2>2. note \in VNotes /\ Fits(note, Recovered)
    BY FreeNote
  <2>3. Ours(note)
    BY DEF Ours
  <2> HIDE DEF note
  <2>4. /\ VaultInv' /\ Covers(vault', vault)
        /\ vpc' = "replace" /\ vret' = Absent /\ txn' # Absent /\ txn'.note = note
        /\ edits' = edits /\ foreign' = foreign
    BY <1>1, <2>1, <2>2, <2>3, StageVault
  <2> QED
    BY <1>4, <2>1, <2>4 DEF note
<1> QED
  BY <1>2, <1>3, <1>4

\* update_status: a title that resolves is staged again with the marks.
LEMMA StatusVault ==
    ASSUME VaultInv, NEW title \in VTitles, NEW marks \in SUBSET Marks(Bases),
           RunMark \in marks,
           UpdateStatus(title, marks)
    PROVE  /\ VaultInv' /\ Covers(vault', vault)
           /\ edits' = edits /\ foreign' = foreign
           /\ \/ vpc' = "idle" /\ vret' = Raised /\ (edits > 0 \/ ~TakenIn(Recovered, title))
              \/ vpc' = "replace" /\ vret' = Absent
<1>1. vpc = "idle" /\ vret = Absent
  BY DEF UpdateStatus
<1>2. CASE Unrecoverable
  <2>1. VaultReturn(Raised) /\ UNCHANGED <<vault, txn>>
    BY <1>2 DEF UpdateStatus
  <2>2. VaultInv' /\ Covers(vault', vault)
    BY <1>1, <2>1, ReturnVault
  <2> QED
    BY <1>1, <1>2, <2>1, <2>2, LostByHand DEF VaultReturn
<1>3. CASE ~Unrecoverable /\ ~TakenIn(Recovered, title)
  <2>1. VaultReturn(Raised) /\ txn' = Absent /\ vault' = Recovered
    BY <1>3 DEF UpdateStatus
  <2>2. VaultInv' /\ Covers(vault', vault)
    BY <1>1, <2>1, ReturnVault
  <2> QED
    BY <1>1, <1>3, <2>1, <2>2 DEF VaultReturn
<1>4. CASE ~Unrecoverable /\ TakenIn(Recovered, title)
  <2> DEFINE old  == CHOOSE other \in Recovered : other.title = title
             note == [old EXCEPT !.marks = @ \cup marks]
  <2>1. vault' = Recovered /\ Stage(note)
    BY <1>4 DEF UpdateStatus
  <2>2. old \in Recovered /\ old.title = title
    BY <1>4 DEF TakenIn
  <2>3. IsVault(Recovered) /\ old \in VNotes
    BY <2>2, RecoveredFacts DEF IsVault
  <2> HIDE DEF old
  <2>4. /\ note \in VNotes /\ note.title = old.title /\ note.what = old.what
        /\ note.marks = old.marks \cup marks
    BY <2>3 DEF VNotes, VaultNotes
  <2> HIDE DEF note
  <2>5. Fits(note, Recovered)
    BY <2>2, <2>3, <2>4 DEF Fits, IsVault, Distinct
  <2>6. Ours(note)
    BY <2>4 DEF Ours, Marked
  <2>7. /\ VaultInv' /\ Covers(vault', vault)
        /\ vpc' = "replace" /\ vret' = Absent
        /\ edits' = edits /\ foreign' = foreign
    BY <1>1, <2>1, <2>4, <2>5, <2>6, StageVault
  <2> QED
    BY <2>7
<1> QED
  BY <1>2, <1>3, <1>4

\* The two writes of an admission.
LEMMA StepVault ==
    ASSUME VaultInv, VaultStep
    PROVE  /\ VaultInv' /\ Covers(vault', vault)
           /\ edits' = edits /\ foreign' = foreign
           /\ \/ vpc = "replace" /\ vpc' = "clean" /\ vret' = Absent
              \/ /\ vpc = "clean" /\ vpc' = "idle" /\ vret' = txn.note.title
                 /\ vault' = vault /\ txn' = Absent /\ (edits = 0 => txn.note \in vault)
           /\ vpc' = "clean" => txn' # Absent /\ txn'.note = txn.note
<1>1. CASE Replace
  <2>1. /\ vpc = "replace" /\ vpc' = "clean" /\ vault' = Put(vault, txn.note)
        /\ txn' = [txn EXCEPT !.staged = FALSE]
        /\ vret' = vret /\ edits' = edits /\ foreign' = foreign
    BY <1>1 DEF Replace
  <2>2. vret = Absent /\ txn # Absent /\ txn.staged = TRUE
    BY <2>1 DEF VaultInv
  <2>3. txn \in Staged(Bases) /\ txn.note \in VNotes
    BY <2>2, TxnFacts
  <2>4. txn' \in Staged(Bases) /\ txn'.note = txn.note /\ txn'.staged = FALSE
    BY <2>1, <2>3 DEF Staged
  <2>5. txn' # Absent
    BY <2>4, NothingIsNoValue
  <2>6. Fits(txn.note, vault) /\ IsVault(vault) /\ Ours(txn.note)
    BY <2>2 DEF VaultInv
  <2>7. IsVault(vault') /\ txn.note \in vault' /\ Covers(vault', vault)
    BY <2>1, <2>3, <2>6, PutFacts
  <2>8. \A note \in vault' : Ours(note)
    BY <2>1, <2>6 DEF Put, VaultInv
  <2>9. VaultInv'
    BY <2>1, <2>2, <2>4, <2>5, <2>6, <2>7, <2>8 DEF VaultInv, Ours
  <2> QED
    BY <2>1, <2>2, <2>4, <2>5, <2>7, <2>9
<1>2. CASE Clean
  <2>1. /\ vpc = "clean" /\ vpc' = "idle" /\ vret' = txn.note.title /\ txn' = Absent
        /\ vault' = vault /\ edits' = edits /\ foreign' = foreign
    BY <1>2 DEF Clean
  <2>2. txn # Absent /\ txn.staged = FALSE
    BY <2>1 DEF VaultInv
  <2>3. txn.note.title \in VTitles
    BY <2>2, TxnFacts
  <2>4. VaultInv'
    BY <2>1, <2>3 DEF VaultInv, Ours
  <2>5. edits = 0 => txn.note \in vault
    BY <2>2 DEF VaultInv
  <2> QED
    BY <2>1, <2>4, <2>5, CoversSelf
<1> QED
  BY <1>1, <1>2 DEF VaultStep

\* Another run adds a note under a free title.
LEMMA ForeignVault ==
    ASSUME VaultInv, ForeignAdmit
    PROVE  /\ VaultInv' /\ Covers(vault', vault)
           /\ vpc' = vpc /\ vret' = vret /\ vpc = "idle" /\ edits' = edits /\ foreign' = foreign + 1
<1>1. PICK base \in OtherTitles,
          marks \in {{OtherMark}, {OtherMark, CoordinatorMark}}
                        \cup {{OtherMark} \cup FindingMarks(task) : task \in OtherTasks} :
         vault' = Put(Recovered, [title |-> FreeTitle(Recovered, base), what |-> <<"other", foreign, 0>>,
                                  marks |-> marks, hand |-> FALSE])
  BY DEF ForeignAdmit
<1>2. /\ vpc = "idle" /\ vpc' = vpc /\ vret' = vret /\ txn' = Absent /\ edits' = edits
      /\ foreign' = foreign + 1 /\ foreign \in Nat
  BY DEF ForeignAdmit, VaultInv
<1> DEFINE note == [title |-> FreeTitle(Recovered, base), what |-> <<"other", foreign, 0>>,
                    marks |-> marks, hand |-> FALSE]
<1>3. note \in VNotes /\ Fits(note, Recovered)
  <2>1. base \in Bases /\ <<"other", foreign, 0>> \in {"task", "finding", "other"} \X Nat \X Nat
    BY <1>1, <1>2 DEF Bases
  <2>2. marks \in SUBSET Marks(Bases)
    <3>1. CASE marks \in {{OtherMark}, {OtherMark, CoordinatorMark}}
      BY <3>1 DEF Marks
    <3>2. ASSUME NEW task \in OtherTasks, marks = {OtherMark} \cup FindingMarks(task)
          PROVE  marks \in SUBSET Marks(Bases)
      <4>1. task \in VTitles
        BY AdmissionConstants DEF Bases, VTitles, Titles
      <4> QED
        BY <3>2, <4>1, FindingMarksAre DEF Marks
    <3> QED
      BY <1>1, <3>1, <3>2
  <2> QED
    BY <2>1, <2>2, FreeNote
<1>4. Ours(note)
  <2>1. OtherMark \in marks
    BY <1>1
  <2> QED
    BY <2>1 DEF Ours, Marked
<1> HIDE DEF note
<1>5. vault' = Put(Recovered, note)
  BY <1>1 DEF note
<1>6. /\ IsVault(Recovered) /\ Covers(Recovered, vault) /\ \A other \in Recovered : Ours(other)
  BY RecoveredFacts
<1>7. IsVault(vault') /\ Covers(vault', Recovered)
  BY <1>3, <1>5, <1>6, PutFacts
<1>8. Covers(vault', vault)
  BY <1>6, <1>7, CoversAll
<1>9. \A other \in vault' : Ours(other)
  BY <1>4, <1>5, <1>6 DEF Put
<1>10. VaultInv'
  BY <1>2, <1>7, <1>9 DEF VaultInv, Ours
<1> QED
  BY <1>2, <1>8, <1>10

\* A human leaves notes, each with the title, the content and the marks of one there was.
LEMMA HandVault ==
    ASSUME VaultInv, VaultHand
    PROVE  /\ VaultInv' /\ edits' = edits + 1 /\ edits' > 0
           /\ vpc' = vpc /\ vret' = vret /\ txn' = txn /\ foreign' = foreign
           /\ \A other \in vault' : \E old \in vault : old.title = other.title /\ other.marks = old.marks
<1>1. /\ vpc' = vpc /\ vret' = vret /\ txn' = txn /\ foreign' = foreign /\ edits' = edits + 1
      /\ edits' > 0 /\ edits' \in Nat
  BY DEF VaultHand, VaultInv
<1>2. PICK note \in vault : \/ vault' = Put(vault, [note EXCEPT !.hand = ~@])
                            \/ vault' = vault \ {note}
  BY DEF VaultHand
<1> DEFINE new == [note EXCEPT !.hand = ~note.hand]
<1>3. /\ new \in VNotes /\ new.title = note.title /\ new.what = note.what
      /\ new.marks = note.marks
  BY <1>2 DEF VaultInv, IsVault, VNotes, VaultNotes
<1>4. vault' = Put(vault, new) \/ vault' = vault \ {note}
  BY <1>2
<1> HIDE DEF new
<1>5. IsVault(vault')
  <2>1. IsVault(vault)
    BY DEF VaultInv
  <2>2. CASE vault' = Put(vault, new)
    BY <1>3, <2>1, <2>2, PutFacts
  <2>3. CASE vault' = vault \ {note}
    <3>1. IsFiniteSet(vault')
      BY <2>1, <2>3, FS_Subset DEF IsVault
    <3> QED
      BY <2>1, <2>3, <3>1 DEF IsVault, Distinct
  <2> QED
    BY <1>4, <2>2, <2>3
<1>6. \A other \in vault' : \E old \in vault :
         old.title = other.title /\ old.what = other.what /\ other.marks = old.marks
  BY <1>2, <1>3, <1>4 DEF Put
<1>7. \A other \in vault' : Ours(other)
  BY <1>6 DEF VaultInv, Ours
<1>8. txn # Absent /\ txn.staged => Fits(txn.note, vault')
  <2> SUFFICES ASSUME txn # Absent, txn.staged, NEW other \in vault', other.title = txn.note.title
               PROVE  other.what = txn.note.what /\ other.marks \subseteq txn.note.marks
    BY DEF Fits
  <2>1. Fits(txn.note, vault)
    BY DEF VaultInv
  <2> QED
    BY <1>6, <2>1 DEF Fits
<1>9. VaultInv'
  BY <1>1, <1>5, <1>7, <1>8 DEF VaultInv, Ours, Fits
<1>10. \A other \in vault' : \E old \in vault : old.title = other.title /\ other.marks = old.marks
  BY <1>6
<1> QED
  BY <1>1, <1>9, <1>10

\* The process dies or takes a return, or it starts and recovers.
LEMMA ForgetVault ==
    ASSUME VaultInv, vpc' = "idle", UNCHANGED <<edits, foreign>>,
           vret' \in {vret, Absent},
           \/ UNCHANGED <<vault, txn>>
           \/ vault' = Recovered /\ txn' = Absent
    PROVE  VaultInv' /\ Covers(vault', vault)
<1>1. edits' = edits /\ foreign' = foreign /\ vret' \in VTitles \cup {Absent, Raised}
  BY DEF VaultInv
<1>2. CASE UNCHANGED <<vault, txn>>
  BY <1>1, <1>2, CoversSelf DEF VaultInv, Ours, Fits
<1>3. CASE vault' = Recovered /\ txn' = Absent
  <2>1. IsVault(Recovered) /\ Covers(Recovered, vault) /\ \A other \in Recovered : Ours(other)
    BY RecoveredFacts
  <2> QED
    BY <1>1, <1>3, <2>1 DEF VaultInv, Ours
<1> QED
  BY <1>2, <1>3

LEMMA SameVault ==
    ASSUME VaultInv, UNCHANGED vaultVars
    PROVE  VaultInv' /\ Covers(vault', vault)
BY CoversSelf DEF VaultInv, vaultVars, Ours, Fits

(* The run. -------------------------------------------------------------------*)

Accepting == {"finding", "status", "integrate", "accept"}

RunTyped ==
    /\ pc \in {"down", "open", "reconcile", "run-start", "validate", "admit", "tasks",
               "decide", "collect", "finding", "status", "integrate", "accept", "done"}
    /\ asked \in [Assignment -> Reports]
    /\ meta \in BOOLEAN
    /\ DOMAIN admitted \subseteq Assignment /\ admitted \in [DOMAIN admitted -> RunTitles]
    /\ frozen \in [Assignment -> RunTitles] \cup {None}
    /\ decided \in [Assignment -> RunTitles] \cup {None}
    /\ current \in Assignment \cup {None}
    /\ told \in Nat
    /\ patch \in [Assignment -> Outcome \cup {None}]
    /\ accepted \subseteq Assignment
    /\ starts \in 0..MaxStarts
    /\ refused \in {"nothing", "graph", "vault", "decision", "patch"}

\* The call of the graph that each place of the run makes.
Calling ==
    \/ pc = "open"      /\ call = OpenOp
    \/ pc = "reconcile" /\ call = ReconcileOp
    \/ pc = "run-start" /\ call = RunStartOp
    \/ pc = "tasks"     /\ call = TasksOp
    \/ pc = "integrate" /\ call = ReportOp(current)

\* What is so at each place of the run.
RunPlaces ==
    /\ pc = "down" => gpc = "idle" /\ ret = NoReturn /\ vpc = "idle" /\ vret = Absent
    /\ refused # "nothing" => pc = "down"
    /\ gpc # "idle" => Calling
    /\ ret # NoReturn => pc \in {"open", "reconcile", "run-start", "tasks", "integrate"}
    /\ vpc # "idle" \/ vret # Absent => pc \in {"admit", "finding", "status"}
    /\ pc \in Accepting => current \in Assignment \ accepted
    /\ pc \in {"admit", "tasks", "decide"} => decided = None
    /\ pc \in {"collect", "done"} \cup Accepting => decided # None
    /\ accepted # {} => decided # None
    /\ pc = "finding" => told < Len(asked[current])
    /\ pc \in {"tasks", "decide"} => DOMAIN admitted = Assignment
    /\ pc = "admit" /\ (vpc # "idle" \/ vret # Absent) => Unadmitted # {}
    /\ pc = "admit" => vret \in RunTitles \cup {Absent, Raised}
    /\ pc = "admit" /\ vpc # "idle" => txn.note.title \in RunTitles

RunInv == RunTyped /\ RunPlaces

LEMMA NextTaskFacts ==
    ASSUME RunTyped, Unadmitted # {}
    PROVE  NextTask \in Assignment \ DOMAIN admitted /\ NextTask \in Nat
<1>1. Unadmitted \in SUBSET Nat /\ Unadmitted \subseteq Assignment
  BY AdmissionConstants DEF Unadmitted
<1>2. \E k \in Unadmitted : \A j \in Unadmitted : k <= j
  BY <1>1, LeastNumber
<1>3. NextTask \in Unadmitted
  BY <1>2 DEF NextTask
<1> QED
  BY <1>1, <1>3 DEF Unadmitted

\* The bases the run asks for are bases of the vault.
LEMMA RunTitlesAre ==
    /\ RunTitles \subseteq VTitles
    /\ \A a \in Assignment : TaskTitle[a] \in Bases /\ Title(TaskTitle[a]) \in RunTitles
    /\ \A b \in FindingTitles : b \in Bases
BY DEF RunTitles, RunBases, Bases, VTitles, Titles, Title

LEMMA TaskMarked == Marked({RunMark, CoordinatorMark})
BY DEF Marked

\* A report has a finding.
LEMMA AskedFacts ==
    ASSUME RunTyped, NEW a \in Assignment
    PROVE  asked[a] \in Seq(FindingTitles) /\ Len(asked[a]) \in Nat \ {0}
<1>1. asked[a] \in Seq(FindingTitles) /\ asked[a] # <<>>
  BY AdmissionConstants DEF RunTyped
<1> QED
  BY <1>1

\* The finding that is admitted next.
LEMMA FindingFacts ==
    ASSUME RunTyped, RunPlaces, pc = "finding"
    PROVE  /\ current \in Assignment /\ decided \in [Assignment -> RunTitles]
           /\ decided[current] \in VTitles
           /\ told + 1 \in 1..Len(asked[current])
           /\ asked[current][told + 1] \in Bases
           /\ <<"finding", current, told + 1>> \in {"task", "finding", "other"} \X Nat \X Nat
           /\ {RunMark} \cup FindingMarks(decided[current]) \in SUBSET Marks(Bases)
           /\ Marked({RunMark} \cup FindingMarks(decided[current]))
<1>1. current \in Assignment /\ decided # None /\ told < Len(asked[current])
  BY DEF RunPlaces, Accepting
<1>2. decided \in [Assignment -> RunTitles] /\ asked[current] \in Reports /\ told \in Nat
  BY <1>1 DEF RunTyped
<1>3. decided[current] \in VTitles /\ current \in Nat
  BY <1>1, <1>2, RunTitlesAre, AdmissionConstants
<1>4. asked[current] \in Seq(FindingTitles)
  BY <1>2, AdmissionConstants
<1>5. Len(asked[current]) \in Nat /\ told + 1 \in 1..Len(asked[current])
  BY <1>1, <1>2, <1>4
<1>6. asked[current][told + 1] \in Bases
  <2>1. asked[current][told + 1] \in FindingTitles
    BY <1>4, <1>5
  <2> QED
    BY <2>1, RunTitlesAre
<1>7. {RunMark} \cup FindingMarks(decided[current]) \in SUBSET Marks(Bases)
  <2>1. FindingMarks(decided[current]) \subseteq Marks(Bases)
    BY <1>3, FindingMarksAre
  <2> QED
    BY <2>1 DEF Marks
<1>8. Marked({RunMark} \cup FindingMarks(decided[current]))
  BY DEF Marked
<1> QED
  BY <1>1, <1>2, <1>3, <1>5, <1>6, <1>7, <1>8

LEMMA InitInvs == Init => StoreInv /\ VaultInv /\ RunInv /\ Assigned
<1> SUFFICES ASSUME Init PROVE StoreInv /\ VaultInv /\ RunInv /\ Assigned
  OBVIOUS
<1>1. /\ state.chain = <<>> /\ pending.after.chain = <<>> /\ snapshot.rev = -1
      /\ ~HasPending /\ ~HasState /\ gpc = "idle" /\ pc = "down"
  BY DEF Init, GraphInit, EmptyState, NoTransaction, HasPending, HasState
<1>2. Chain = <<>>
  BY <1>1 DEF Chain
<1>3. HistoryInv
  BY <1>1, <1>2 DEF HistoryInv, Typed, HumanPlaced, AtRest, InTransaction, Unborn, Lost, Standing
<1>4. GraphTypeOK
  <2>1. IsNotes(NoNotes)
    BY NoNotesTyped
  <2>2. disk = [n \in Note |-> disk[n]] /\ \A n \in Note : disk[n] \in [Place -> Text(n) \cup {None}]
    BY DEF Init, GraphInit, NoFile
  <2>3. /\ state.notes = NoNotes /\ pending.after.notes = NoNotes /\ snapshot.notes = NoNotes
        /\ nodes = NoNotes /\ pending.removals = {} /\ DOMAIN pending.writes = {}
    BY DEF Init, GraphInit, EmptyState, NoTransaction
  <2> QED
    BY <1>1, <2>1, <2>2, <2>3 DEF Init, GraphInit, GraphTypeOK, Outcome, NoReturn, HasPending, HasState
<1>5. Holding
  BY <1>1 DEF Init, GraphInit, Holding
<1>6. VaultInv
  <2>1. IsFiniteSet({})
    BY FS_EmptySet
  <2> QED
    BY <2>1 DEF Init, VaultInit, VaultInv, IsVault, Distinct
<1>7. RunInv
  <2>1. admitted = NoTitles /\ DOMAIN NoTitles = {}
    BY DEF Init, NoTitles
  <2>2. NoTitles \in [{} -> RunTitles]
    BY DEF NoTitles
  <2>3. DOMAIN admitted \subseteq Assignment /\ admitted \in [DOMAIN admitted -> RunTitles]
    BY <2>1, <2>2
  <2>4. patch \in [Assignment -> Outcome \cup {None}] /\ 0 \in 0..MaxStarts
    BY AdmissionConstants DEF Init
  <2>5. RunTyped
    BY <2>3, <2>4 DEF Init, RunTyped
  <2>6. RunPlaces
    BY <1>1 DEF Init, GraphInit, VaultInit, RunPlaces, Accepting
  <2> QED
    BY <2>5, <2>6 DEF RunInv
<1>8. Assigned
  BY <1>1 DEF Assigned
<1> QED
  BY <1>3, <1>4, <1>5, <1>6, <1>7, <1>8 DEF StoreInv

\* A step of an operation on the graph holds the lock, or gives it up and returns.
LEMMA StepFrame ==
    ASSUME GraphStep
    PROVE  /\ gpc # "idle" /\ hands' = hands
           /\ gpc' = "idle" \/ (gpc' # "idle" /\ call' = call /\ ret' = ret)
<1>1. ASSUME NEW value, Return(value) PROVE hands' = hands /\ gpc' = "idle"
  BY <1>1 DEF Return, Idle
<1>2. ASSUME NEW have, NEW touch, NEW id, Begin(have, touch, id)
      PROVE  hands' = hands /\ gpc' = "notes" /\ call' = call /\ ret' = ret
  BY <1>2 DEF Begin
<1>3. CASE Enter
  BY <1>1, <1>2, <1>3 DEF Enter, Recover, Open, Reconcile, Write
<1>4. CASE WriteNote \/ RemoveNote
  BY <1>4 DEF WriteNote, RemoveNote, callVars
<1>5. CASE WriteState
  BY <1>5 DEF WriteState, Idle
<1>6. CASE WriteSnapshot
  BY <1>1, <1>6 DEF WriteSnapshot
<1>7. CASE Settle
  BY <1>7 DEF Settle, Idle
<1> QED
  BY <1>3, <1>4, <1>5, <1>6, <1>7 DEF GraphStep

LEMMA StoreKept ==
    ASSUME StoreInv, Assigned, [Next]_vars
    PROVE  StoreInv'
<1>1. HistoryInv'
  BY StoreStep, OtherStep DEF StoreInv, Next
<1>2. CASE GraphStep
  <2>1. GraphTypeOK' /\ Holding'
    BY <1>2, EnterStores, NoteStores, CommitStores DEF GraphStep
  <2> QED
    BY <1>1, <2>1 DEF StoreInv
<1>3. CASE Hand
  BY <1>1, <1>3, HandStores DEF StoreInv
<1>4. CASE UNCHANGED graphVars
  <2>1. UNCHANGED durableGraph /\ UNCHANGED hands /\ UNCHANGED disk /\ UNCHANGED callVars
    BY <1>4 DEF graphVars
  <2> QED
    BY <1>1, <2>1, StillStores DEF StoreInv
<1>5. CASE Forget /\ UNCHANGED <<disk, durableGraph, hands>>
  <2>1. UNCHANGED durableGraph /\ UNCHANGED hands /\ UNCHANGED disk
    BY <1>5
  <2> QED
    BY <1>1, <1>5, <2>1, StillStores DEF StoreInv
<1>6. CASE GraphCall
  <2>1. PICK op : Call(op)
    BY <1>6 DEF GraphCall
  <2>2. gpc = "idle" /\ gpc' = "enter" /\ ret' = NoReturn /\ UNCHANGED <<recovering, nodes, todo>>
    BY <2>1 DEF Call
  <2>3. UNCHANGED durableGraph /\ UNCHANGED hands /\ UNCHANGED disk
    BY <2>1 DEF Call
  <2> QED
    BY <1>1, <2>2, <2>3, StillStores DEF StoreInv
<1>7. Crash \/ GraphReturn \/ Validate \/ TaskAdmitted \/ Freeze \/ Decide \/ Collect
      \/ FindingAdmitted \/ TaskClosed \/ Record \/ Accept => Forget /\ UNCHANGED <<disk, durableGraph, hands>>
  BY DEF Crash, GraphReturn, Validate, TaskAdmitted, Freeze, Decide, Collect,
         FindingAdmitted, TaskClosed, Record, Accept, Refuse, Gone, Go
<1>8. Start \/ AdmitTask \/ AdmitReport \/ CloseTask \/ (VaultStep /\ UNCHANGED <<graphVars, runVars>>)
         \/ UNCHANGED vars => UNCHANGED graphVars
  BY DEF Start, AdmitTask, AdmitReport, CloseTask, vars
<1>9. Upset => Hand \/ UNCHANGED graphVars
  BY DEF Upset
<1> QED
  BY <1>2, <1>3, <1>4, <1>5, <1>6, <1>7, <1>8, <1>9 DEF Next, RunStep

\* What is recorded in the vault stays there unless a human takes it out.
LEMMA VaultKept ==
    ASSUME VaultInv, RunInv, [Next]_vars
    PROVE  /\ VaultInv' /\ (Covers(vault', vault) \/ edits' > 0)
           /\ edits > 0 => edits' > 0
           /\ foreign > 0 => foreign' > 0
<1>1. CASE UNCHANGED vaultVars
  BY <1>1, SameVault DEF vaultVars
<1>2. CASE VaultForget /\ UNCHANGED <<vault, txn, edits, foreign>>
  <2>1. vpc' = "idle" /\ vret' \in {vret, Absent}
    BY <1>2 DEF VaultForget
  <2> QED
    BY <1>2, <2>1, ForgetVault
<1>3. CASE VaultStep
  BY <1>3, StepVault
<1>4. CASE ForeignAdmit
  <2>1. VaultInv' /\ Covers(vault', vault) /\ edits' = edits /\ foreign' = foreign + 1
    BY <1>4, ForeignVault
  <2>2. foreign' > 0
    BY <2>1 DEF VaultInv
  <2> QED
    BY <2>1, <2>2
<1>5. CASE VaultHand
  BY <1>5, HandVault
<1>6. CASE Start
  <2>1. /\ vpc' = "idle" /\ vret' \in {vret, Absent} /\ UNCHANGED <<edits, foreign>>
        /\ UNCHANGED <<vault, txn>> \/ (vault' = Recovered /\ txn' = Absent)
    BY <1>6 DEF Start, RunInv, RunPlaces
  <2> QED
    BY <2>1, ForgetVault
<1>7. CASE AdmitTask
  <2>1. NextTask \in Assignment /\ NextTask \in Nat
    BY <1>7, NextTaskFacts DEF AdmitTask, RunInv
  <2>2. TaskTitle[NextTask] \in Bases /\ <<"task", NextTask, 0>> \in {"task", "finding", "other"} \X Nat \X Nat
    BY <2>1, RunTitlesAre
  <2>3. {RunMark, CoordinatorMark} \in SUBSET Marks(Bases)
    BY DEF Marks
  <2>4. Admit(<<"task", NextTask, 0>>, TaskTitle[NextTask], {RunMark, CoordinatorMark})
    BY <1>7 DEF AdmitTask
  <2> QED
    BY <2>2, <2>3, <2>4, TaskMarked, AdmitVault
<1>8. CASE AdmitReport
  <2>2. pc = "finding"
    BY <1>8 DEF AdmitReport, RunInv, RunPlaces, Accepting
  <2>3. /\ asked[current][told + 1] \in Bases
        /\ <<"finding", current, told + 1>> \in {"task", "finding", "other"} \X Nat \X Nat
        /\ {RunMark} \cup FindingMarks(decided[current]) \in SUBSET Marks(Bases)
        /\ Marked({RunMark} \cup FindingMarks(decided[current]))
    BY <2>2, FindingFacts DEF RunInv
  <2>4. Admit(<<"finding", current, told + 1>>, asked[current][told + 1],
              {RunMark} \cup FindingMarks(decided[current]))
    BY <1>8 DEF AdmitReport
  <2> QED
    BY <2>3, <2>4, AdmitVault
<1>9. CASE CloseTask
  <2>1. current \in Assignment /\ decided \in [Assignment -> RunTitles]
    BY <1>9 DEF CloseTask, RunInv, RunPlaces, RunTyped, Accepting
  <2>2. decided[current] \in VTitles
    BY <2>1, RunTitlesAre
  <2>3. {RunMark, CompletedMark} \in SUBSET Marks(Bases) /\ RunMark \in {RunMark, CompletedMark}
    BY DEF Marks
  <2>4. UpdateStatus(decided[current], {RunMark, CompletedMark})
    BY <1>9 DEF CloseTask
  <2> QED
    BY <2>2, <2>3, <2>4, StatusVault
<1>10. Crash \/ GraphReturn \/ Validate \/ TaskAdmitted \/ Freeze \/ Decide \/ Collect
       \/ FindingAdmitted \/ TaskClosed \/ Record \/ Accept => VaultForget /\ UNCHANGED <<vault, txn, edits, foreign>>
  BY DEF Crash, GraphReturn, Validate, TaskAdmitted, Freeze, Decide, Collect,
         FindingAdmitted, TaskClosed, Record, Accept, Refuse, Gone, Go
<1>11. GraphCall \/ (GraphStep /\ UNCHANGED <<vaultVars, runVars>>) \/ UNCHANGED vars
          => UNCHANGED vaultVars
  BY DEF GraphCall, vars
<1>12. Upset => ForeignAdmit \/ VaultHand \/ UNCHANGED vaultVars
  BY DEF Upset
<1> QED
  BY <1>1, <1>2, <1>3, <1>4, <1>5, <1>6, <1>7, <1>8, <1>9, <1>10, <1>11, <1>12 DEF Next, RunStep

\* A return of the graph or of the vault finds the run where it made the call.
LEMMA RunKept ==
    ASSUME StoreInv, VaultInv, VaultInv', RunInv, [Next]_vars
    PROVE  RunInv'
<1> USE DEF RunInv
<1>0. RunTyped /\ RunPlaces /\ ret \in Outcome
  BY DEF StoreInv, GraphTypeOK
<1>1. CASE UNCHANGED <<runVars, gpc, call, ret, vpc, vret>> /\ (vpc # "idle" => txn' = txn)
  <2>1. RunTyped'
    BY <1>1 DEF RunTyped, runVars
  <2>2. gpc # "idle" => Calling'
    BY <1>1 DEF RunPlaces, Calling, runVars, ReportOp
  <2> QED
    BY <1>1, <2>1, <2>2 DEF RunPlaces, runVars, Unadmitted
<1>2. CASE Start
  <2>1. /\ pc = "down" /\ starts < MaxStarts /\ starts' = starts + 1
        /\ UNCHANGED <<gpc, ret, vpc, vret, asked, meta, admitted, frozen, decided, current,
                       told, patch, accepted>>
    BY <1>2 DEF Start, graphVars, callVars
  <2>2. \/ pc' = "down" /\ refused' = "vault"
        \/ pc' \in {"open", "reconcile"} /\ refused' = "nothing"
    BY <1>2, <2>1 DEF Start
  <2>3. starts' \in 0..MaxStarts
    BY <2>1, AdmissionConstants DEF RunTyped
  <2>4. RunTyped'
    BY <2>1, <2>2, <2>3 DEF RunTyped
  <2> QED
    BY <2>1, <2>2, <2>4 DEF RunPlaces, Accepting
<1>3. ASSUME NEW what \in {"nothing", "graph", "vault", "decision", "patch"}, Gone, refused' = what PROVE RunInv'
  <2>1. DOMAIN admitted' \subseteq Assignment /\ admitted' \in [DOMAIN admitted' -> RunTitles]
    BY <1>3 DEF Gone, NoTitles
  <2>2. RunTyped'
    BY <1>3, <2>1 DEF Gone, RunTyped
  <2> QED
    BY <1>3, <2>2 DEF Gone, Forget, Idle, VaultForget, RunPlaces, Accepting
<1>4. Crash => Gone /\ refused' = refused
  BY DEF Crash
<1>5. CASE GraphCall
  <2>1. UNCHANGED <<vaultVars, runVars>> /\ gpc' = "enter" /\ ret' = NoReturn /\ Calling'
    BY <1>5 DEF GraphCall, Call, Calling, runVars, OpenOp, ReconcileOp, RunStartOp, TasksOp, ReportOp
  <2>2. pc \in {"open", "reconcile", "run-start", "tasks", "integrate"}
    BY <1>5 DEF GraphCall
  <2> QED
    BY <2>1, <2>2 DEF RunTyped, RunPlaces, runVars, vaultVars, Unadmitted
<1>6. ASSUME NEW stage, Go(stage), RunTyped',
             stage \in Accepting => current' \in Assignment \ accepted',
             stage \in {"admit", "tasks", "decide"} => decided' = None,
             stage \in {"collect", "done"} \cup Accepting => decided' # None,
             stage \in {"tasks", "decide"} => DOMAIN admitted' = Assignment,
             UNCHANGED <<accepted, decided>> \/ decided' # None,
             stage = "finding" => told' < Len(asked'[current']),
             refused = "nothing"
      PROVE  RunInv'
  BY <1>6 DEF Go, Forget, Idle, VaultForget, RunPlaces
<1>7. ASSUME NEW stage, Go(stage), Keep,
             stage \in {"open", "reconcile", "run-start", "validate", "admit", "tasks",
                        "decide", "collect", "finding", "status", "integrate", "accept", "done"}
      PROVE  RunTyped'
  BY <1>7 DEF Go, Keep, RunTyped
<1>8. CASE GraphReturn
  <2>1. CASE Refuse("graph")
    BY <1>3, <2>1 DEF Refuse
  <2>2. CASE ret # "raised"
    <3>1. /\ Keep /\ pc \in {"open", "reconcile", "run-start", "tasks"} /\ refused = "nothing"
          /\ \/ pc # "tasks" /\ \E stage \in {"reconcile", "validate", "run-start"} : Go(stage)
             \/ pc = "tasks" /\ Go("decide")
      BY <1>8, <2>2 DEF GraphReturn, RunPlaces
    <3>2. ASSUME NEW stage \in {"reconcile", "validate", "run-start"}, Go(stage) PROVE RunInv'
      <4>1. RunTyped'
        BY <1>7, <3>1, <3>2
      <4> QED
        BY <1>6, <3>1, <3>2, <4>1 DEF Accepting, Keep
    <3>3. CASE pc = "tasks" /\ Go("decide")
      <4>1. RunTyped'
        BY <1>7, <3>1, <3>3
      <4>2. decided' = None /\ DOMAIN admitted' = Assignment
        BY <3>1, <3>3 DEF Keep, RunPlaces
      <4> QED
        BY <1>6, <3>1, <3>3, <4>1, <4>2 DEF Accepting, Keep
    <3> QED
      BY <3>1, <3>2, <3>3
  <2> QED
    BY <1>8, <2>1, <2>2 DEF GraphReturn
<1>9. CASE Validate
  <2>1. CASE Refuse("graph")
    BY <1>3, <2>1 DEF Refuse
  <2>2. CASE ~Refuse("graph")
    <3>1. /\ pc = "validate" /\ refused = "nothing" /\ meta' = TRUE
          /\ UNCHANGED <<admitted, frozen, decided, current, told, patch, accepted>>
          /\ Go(IF decided = None THEN "admit"
                ELSE IF accepted = Assignment THEN "done" ELSE "collect")
      BY <1>9, <2>2 DEF Validate, RunPlaces
    <3>2. RunTyped'
      BY <3>1 DEF Go, RunTyped
    <3>3. CASE Go("admit") /\ decided = None
      BY <1>6, <3>1, <3>2, <3>3 DEF Accepting
    <3>4. ASSUME NEW stage \in {"done", "collect"}, Go(stage), decided # None PROVE RunInv'
      BY <1>6, <3>1, <3>2, <3>4 DEF Accepting
    <3>5. \/ Go("admit") /\ decided = None
          \/ decided # None /\ \E stage \in {"done", "collect"} : Go(stage)
      <4>1. CASE decided = None
        BY <3>1, <4>1 DEF Go
      <4>2. CASE decided # None
        BY <3>1, <4>2 DEF Go
      <4> QED
        BY <4>1, <4>2
    <3> QED
      BY <3>3, <3>4, <3>5
  <2> QED
    BY <2>1, <2>2
<1>10. CASE AdmitTask \/ AdmitReport \/ CloseTask
  <2>1. UNCHANGED runVars /\ UNCHANGED <<gpc, call, ret>> /\ gpc = "idle" /\ ret = NoReturn
        /\ pc \in {"admit", "finding", "status"} /\ (pc = "admit" => Unadmitted # {})
    BY <1>10 DEF AdmitTask, AdmitReport, CloseTask, Free, graphVars, callVars
  <2>2. RunTyped'
    BY <2>1 DEF RunTyped, runVars
  <2>3. pc = "admit" => /\ vret' \in RunTitles \cup {Absent, Raised}
                        /\ vpc' # "idle" => txn'.note.title \in RunTitles
    <3> SUFFICES ASSUME pc = "admit"
                 PROVE  /\ vret' \in RunTitles \cup {Absent, Raised}
                        /\ vpc' # "idle" => txn'.note.title \in RunTitles
      OBVIOUS
    <3>1. AdmitTask
      BY <1>10 DEF AdmitReport, CloseTask
    <3>2. NextTask \in Assignment /\ NextTask \in Nat
      BY <2>1, NextTaskFacts
    <3> DEFINE base == TaskTitle[NextTask]
    <3>3. base \in RunBases /\ base \in Bases /\ Title(base) \in RunTitles
      BY <3>2, RunTitlesAre DEF RunBases
    <3>4. <<"task", NextTask, 0>> \in {"task", "finding", "other"} \X Nat \X Nat
      BY <3>2
    <3>5. {RunMark, CoordinatorMark} \in SUBSET Marks(Bases) /\ RunMark \in {RunMark, CoordinatorMark}
      BY DEF Marks
    <3>6. Admit(<<"task", NextTask, 0>>, base, {RunMark, CoordinatorMark})
      BY <3>1 DEF AdmitTask
    <3>7. FreeTitle(Recovered, base) \in RunTitles
      <4>1. IsFiniteSet(Recovered)
        BY RecoveredFacts DEF IsVault
      <4>2. /\ FreeTitle(Recovered, base) = [base |-> base, number |-> FreeTitle(Recovered, base).number]
            /\ FreeTitle(Recovered, base).number \in Nat
        BY <4>1, FreeTitleFacts
      <4>3. \A k \in Nat : [base |-> base, number |-> k] \in RunTitles
        BY <3>3 DEF RunTitles, Titles
      <4> QED
        BY <4>2, <4>3
    <3> HIDE DEF base
    <3>8. \/ vpc' = "idle" /\ vret' = Raised
          \/ vpc' = "idle" /\ vret' = Title(base)
          \/ /\ vret' = Absent
             /\ txn'.note = [title |-> FreeTitle(Recovered, base), what |-> <<"task", NextTask, 0>>,
                             marks |-> {RunMark, CoordinatorMark}, hand |-> FALSE]
      BY <3>3, <3>4, <3>5, <3>6, TaskMarked, AdmitVault
    <3> QED
      BY <3>3, <3>7, <3>8
  <2> QED
    BY <2>1, <2>2, <2>3 DEF RunPlaces, runVars, Unadmitted
<1>11. CASE TaskAdmitted
  <2>1. CASE Refuse("vault")
    BY <1>3, <2>1 DEF Refuse
  <2>2. CASE vret # Raised
    <3>1. /\ pc = "admit" /\ refused = "nothing" /\ Go("admit") /\ Unadmitted # {} /\ decided = None
          /\ admitted' = [a \in DOMAIN admitted \cup {NextTask} |->
                                IF a = NextTask THEN vret ELSE admitted[a]]
          /\ UNCHANGED <<meta, frozen, decided, current, told, patch, accepted>>
      BY <1>11, <2>2 DEF TaskAdmitted, RunPlaces
    <3>2. NextTask \in Assignment
      BY <3>1, NextTaskFacts
    <3>3. vret \in RunTitles
      BY <1>11, <2>2, <3>1 DEF TaskAdmitted, RunPlaces
    <3>4. DOMAIN admitted' \subseteq Assignment /\ admitted' \in [DOMAIN admitted' -> RunTitles]
      BY <3>1, <3>2, <3>3 DEF RunTyped
    <3>5. RunTyped'
      BY <3>1, <3>4 DEF Go, RunTyped
    <3> QED
      BY <1>6, <3>1, <3>5 DEF Accepting
  <2> QED
    BY <1>11, <2>1, <2>2 DEF TaskAdmitted
<1>12. CASE Freeze
  <2>1. CASE Refuse("decision")
    BY <1>3, <2>1 DEF Refuse
  <2>2. CASE ~Refuse("decision")
    <3>1. /\ pc = "admit" /\ refused = "nothing" /\ Go("tasks") /\ frozen' = admitted /\ decided = None
          /\ UNCHANGED <<meta, admitted, decided, current, told, patch, accepted>>
          /\ DOMAIN admitted = Assignment
      BY <1>12, <2>2 DEF Freeze, RunPlaces, Unadmitted, RunTyped
    <3>2. frozen' \in [Assignment -> RunTitles]
      BY <3>1 DEF RunTyped
    <3>3. RunTyped'
      BY <3>1, <3>2 DEF Go, RunTyped
    <3> QED
      BY <1>6, <3>1, <3>3 DEF Accepting
  <2> QED
    BY <2>1, <2>2
<1>13. CASE Decide
  <2>1. /\ refused = "nothing" /\ Go("collect") /\ decided' = admitted /\ DOMAIN admitted = Assignment
        /\ UNCHANGED <<meta, admitted, frozen, current, told, patch, accepted>>
    BY <1>13 DEF Decide, RunPlaces
  <2>2. decided' \in [Assignment -> RunTitles]
    BY <2>1 DEF RunTyped
  <2>3. RunTyped' /\ decided' # None
    BY <2>1, <2>2, NothingIsNoValue DEF Go, RunTyped
  <2> QED
    BY <1>6, <2>1, <2>3 DEF Accepting
<1>14. CASE Collect
  <2>1. /\ refused = "nothing" /\ Go("finding") /\ decided # None
        /\ current' \in Assignment \ accepted /\ told' = 0 /\ asked' = asked
        /\ UNCHANGED <<meta, admitted, frozen, decided, patch, accepted>>
    BY <1>14 DEF Collect, Go, RunPlaces
  <2>2. RunTyped'
    BY <2>1 DEF Go, RunTyped
  <2>3. told' < Len(asked'[current'])
    BY <2>1, AskedFacts
  <2> QED
    BY <1>6, <2>1, <2>2, <2>3 DEF Accepting
<1>15. CASE FindingAdmitted \/ TaskClosed
  <2>1. CASE Refuse("vault")
    BY <1>3, <2>1 DEF Refuse
  <2>2. CASE ~Refuse("vault")
    <3>1. /\ pc \in Accepting /\ refused = "nothing" /\ asked' = asked
          /\ UNCHANGED <<meta, admitted, frozen, decided, current, patch, accepted>>
          /\ told' \in {told, told + 1}
          /\ \/ Go("status") \/ Go("integrate")
             \/ Go("finding") /\ told' < Len(asked[current])
      <4>1. CASE FindingAdmitted
        <5>1. Go(IF told + 1 < Len(asked[current]) THEN "finding" ELSE "status") /\ told' = told + 1
          BY <2>2, <4>1 DEF FindingAdmitted
        <5>2. Go("status") \/ (Go("finding") /\ told' < Len(asked[current]))
          BY <5>1
        <5> QED
          BY <2>2, <4>1, <5>1, <5>2 DEF FindingAdmitted, Go, RunPlaces, Accepting
      <4>2. CASE TaskClosed
        BY <2>2, <4>2 DEF TaskClosed, Go, Keep, RunPlaces, Accepting
      <4> QED
        BY <1>15, <4>1, <4>2
    <3>2. PICK stage \in {"finding", "status", "integrate"} :
             Go(stage) /\ (stage = "finding" => told' < Len(asked[current]))
      BY <3>1
    <3>3. RunTyped'
      BY <3>1, <3>2 DEF Go, RunTyped
    <3>4. current' \in Assignment \ accepted' /\ decided' # None
      BY <3>1 DEF RunPlaces
    <3> QED
      BY <1>6, <3>1, <3>2, <3>3, <3>4 DEF Accepting
  <2> QED
    BY <2>1, <2>2
<1>16. CASE Record
  <2>1. CASE Refuse("patch")
    BY <1>3, <2>1 DEF Refuse
  <2>2. CASE ~Refuse("patch")
    <3>1. /\ pc = "integrate" /\ refused = "nothing" /\ Go("accept")
          /\ patch' = [patch EXCEPT ![current] = ret]
          /\ UNCHANGED <<meta, admitted, frozen, decided, current, told, accepted>>
      BY <1>16, <2>2 DEF Record, RunPlaces
    <3>2. current \in Assignment \ accepted /\ decided # None
      BY <3>1 DEF RunPlaces, Accepting
    <3>3. patch' \in [Assignment -> Outcome \cup {None}]
      BY <1>0, <3>1, <3>2 DEF RunTyped
    <3>4. RunTyped'
      BY <3>1, <3>3 DEF Go, RunTyped
    <3> QED
      BY <1>6, <3>1, <3>2, <3>4 DEF Accepting
  <2> QED
    BY <2>1, <2>2
<1>17. CASE Accept
  <2>1. /\ pc = "accept" /\ refused = "nothing" /\ accepted' = accepted \cup {current} /\ current' = None
        /\ UNCHANGED <<meta, admitted, frozen, decided, told, patch>>
        /\ \E stage \in {"done", "collect"} : Go(stage)
    BY <1>17 DEF Accept, RunPlaces
  <2>2. current \in Assignment /\ decided # None
    BY <2>1 DEF RunPlaces, Accepting
  <2>3. PICK stage \in {"done", "collect"} : Go(stage)
    BY <2>1
  <2>4. RunTyped'
    BY <2>1, <2>2, <2>3 DEF Go, RunTyped
  <2> QED
    BY <1>6, <2>1, <2>2, <2>3, <2>4 DEF Accepting
<1>18. CASE GraphStep /\ UNCHANGED <<vaultVars, runVars>>
  <2>1. /\ gpc # "idle" /\ UNCHANGED <<vaultVars, runVars>> /\ Calling
        /\ gpc' = "idle" \/ (gpc' # "idle" /\ call' = call /\ ret' = ret)
    BY <1>18, StepFrame DEF RunPlaces
  <2>2. pc \in {"open", "reconcile", "run-start", "tasks", "integrate"}
    BY <2>1 DEF Calling
  <2>3. gpc' # "idle" => Calling'
    BY <2>1 DEF Calling, runVars, ReportOp
  <2>4. RunTyped'
    BY <2>1 DEF RunTyped, runVars
  <2> QED
    BY <2>1, <2>2, <2>3, <2>4 DEF RunPlaces, runVars, vaultVars, Unadmitted
<1>19. CASE VaultStep /\ UNCHANGED <<graphVars, runVars>>
  <2>1. /\ UNCHANGED runVars /\ UNCHANGED <<gpc, call, ret>> /\ vpc # "idle"
        /\ pc \in {"admit", "finding", "status"} /\ (pc = "admit" => Unadmitted # {})
    BY <1>19 DEF VaultStep, Replace, Clean, RunPlaces, graphVars, callVars
  <2>2. \/ vret' = Absent /\ txn'.note = txn.note
        \/ vpc' = "idle" /\ vret' = txn.note.title
    BY <1>19, StepVault
  <2>3. RunTyped'
    BY <2>1 DEF RunTyped, runVars
  <2>4. gpc = "idle"
    BY <2>1 DEF RunPlaces, Calling
  <2> QED
    BY <2>1, <2>2, <2>3, <2>4 DEF RunPlaces, runVars, Unadmitted
<1>20. CASE Upset
  <2>1. UNCHANGED runVars /\ UNCHANGED <<gpc, call, ret, vpc, vret>> /\ (vpc # "idle" => txn' = txn)
    BY <1>20 DEF Upset, Hand, callVars, ForeignAdmit, VaultHand, graphVars, vaultVars
  <2> QED
    BY <1>1, <2>1
<1>21. UNCHANGED vars => UNCHANGED <<runVars, gpc, call, ret, vpc, vret>> /\ (vpc # "idle" => txn' = txn)
  BY DEF vars, graphVars, callVars, vaultVars
<1>22. Crash => RunInv'
  BY <1>0, <1>3, <1>4 DEF RunTyped
<1> QED
  BY <1>1, <1>2, <1>5, <1>8, <1>9, <1>10, <1>11, <1>12, <1>13, <1>14, <1>15, <1>16, <1>17, <1>18,
     <1>19, <1>20, <1>21, <1>22 DEF Next, RunStep

BaseInv == StoreInv /\ VaultInv /\ RunInv /\ Assigned

LEMMA BaseStep == BaseInv /\ [Next]_vars => BaseInv'
<1> SUFFICES ASSUME BaseInv, [Next]_vars PROVE BaseInv'
  OBVIOUS
<1>1. StoreInv'
  BY StoreKept DEF BaseInv
<1>2. VaultInv'
  BY VaultKept DEF BaseInv
<1>3. RunInv'
  BY <1>2, RunKept DEF BaseInv
<1>4. Assigned'
  BY AssignedStep DEF BaseInv
<1> QED
  BY <1>1, <1>2, <1>3, <1>4 DEF BaseInv

\* Every variable keeps its type, and a transaction of the vault is staged or replaced
\* exactly as far as the operation that owns it has come.
THEOREM AdmissionTypes == Spec => []TypeOK
<1>1. Init => BaseInv
  BY InitInvs DEF BaseInv
<1>2. BaseInv /\ [Next]_vars => BaseInv'
  BY BaseStep
<1>3. BaseInv => TypeOK
  <2> SUFFICES ASSUME BaseInv PROVE TypeOK
    OBVIOUS
  <2>1. VaultTypeOK(Bases)
    BY DEF BaseInv, VaultInv, IsVault, Distinct, VNotes, VTitles, VaultTypeOK
  <2>2. GraphTypeOK /\ (gpc # "idle" => call \in GraphCalls)
    BY DEF BaseInv, StoreInv, HistoryInv, Standing
  <2>3. pc = "finding" => told < Len(asked[current])
    BY DEF BaseInv, RunInv, RunPlaces
  <2> QED
    BY <2>1, <2>2, <2>3 DEF BaseInv, RunInv, RunTyped, TypeOK
<1> QED
  BY <1>1, <1>2, <1>3, PTL DEF Spec

(* What is published. -----------------------------------------------------------*)

LEMMA Stays ==
    ASSUME StoreInv, Assigned, [Next]_vars, NEW id, Published(id)
    PROVE  Published(id)'
<1>1. PICK i \in 1..snapshot.rev : Chain[i] = id
  BY DEF Published
<1>2. /\ Chain \in Seq(OpId) /\ snapshot.rev \in Int /\ snapshot.rev <= Len(Chain)
      /\ Len(Chain) \in Nat
  <2>1. CASE HasPending
    <3>1. Chain = pending.after.chain
      BY <2>1 DEF Chain
    <3> QED
      BY <2>1, <3>1 DEF StoreInv, HistoryInv, Typed, InTransaction
  <2>2. CASE ~HasPending
    <3>1. Chain = state.chain
      BY <2>2 DEF Chain
    <3> QED
      BY <2>2, <3>1 DEF StoreInv, HistoryInv, Typed, AtRest, Lost
  <2> QED
    BY <2>1, <2>2
<1>3. i \in 1..Len(Chain)
  BY <1>1, <1>2
<1>4. Revisions!Apply \/ Revisions!Publish \/ UNCHANGED <<Chain, snapshot.rev>>
  BY StoreStep, OtherStep DEF StoreInv, Next
<1>5. CASE Revisions!Apply
  <2>1. Chain'[i] = Chain[i] /\ snapshot'.rev = snapshot.rev
    BY <1>3, <1>5 DEF Revisions!Apply
  <2> QED
    BY <1>1, <2>1 DEF Published
<1>6. CASE Revisions!Publish
  <2>1. Chain' = Chain /\ i \in 1..snapshot'.rev
    BY <1>2, <1>3, <1>6 DEF Revisions!Publish
  <2> QED
    BY <1>1, <2>1 DEF Published
<1>7. CASE UNCHANGED <<Chain, snapshot.rev>>
  BY <1>1, <1>7 DEF Published
<1> QED
  BY <1>4, <1>5, <1>6, <1>7

\* What an operation that did not raise leaves behind.
LEMMA ReturnFacts ==
    ASSUME StoreInv, GraphStep, gpc' = "idle", ret' # "raised"
    PROVE  /\ ~HasPending' /\ HasState'
           /\ \A id : call.kind = "write" /\ call.id = id => Published(id)'
<1>1. CASE Enter
  <2>1. PICK value \in {"already", "nothing"} : ~HasPending /\ Return(value)
    BY <1>1, EnterAs DEF Return, Idle, Recover, Begin
  <2>2. gpc = "enter" /\ call \in GraphCalls
    BY <1>1, EnterAs
  <2>3. files' = files /\ state' = state /\ snapshot' = snapshot /\ pending' = pending
    BY <2>1 DEF Return, durableGraph
  <2>4. HasState /\ (call.kind = "write" => Applied(call.id))
    <3>1. CASE Open
      BY <2>1, <3>1 DEF Open, Return, Idle
    <3>2. CASE Reconcile
      BY <2>1, <3>2 DEF Reconcile, Return, Begin
    <3>3. CASE Write
      BY <2>1, <3>3, ret' # "raised" DEF Write, Return, Begin
    <3> QED
      BY <1>1, <2>1, <3>1, <3>2, <3>3 DEF Enter
  <2>5. call.kind = "write" => Published(call.id)
    <3> SUFFICES ASSUME call.kind = "write" PROVE Published(call.id)
      OBVIOUS
    <3>1. PICK i \in DOMAIN state.chain : state.chain[i] = call.id
      BY <2>4 DEF Applied
    <3>2. state.chain \in Seq(OpId) /\ state.chain # <<>> /\ i \in 1..Len(state.chain)
      BY <3>1 DEF StoreInv, HistoryInv, Typed
    <3>3. snapshot.rev = Len(state.chain) /\ Chain = state.chain
      BY <2>1, <3>2 DEF StoreInv, HistoryInv, AtRest, Lost, Chain
    <3> QED
      BY <3>1, <3>2, <3>3 DEF Published
  <2>6. Chain' = Chain /\ HasPending' = HasPending /\ HasState' = HasState
    BY <2>3 DEF Chain, HasPending, HasState
  <2> QED
    BY <2>1, <2>3, <2>4, <2>5, <2>6 DEF Published
<1>2. CASE WriteNote \/ RemoveNote
  BY <1>2 DEF WriteNote, RemoveNote, callVars
<1>3. CASE WriteState
  BY <1>3 DEF WriteState
<1>4. CASE WriteSnapshot
  BY <1>4 DEF WriteSnapshot, Return
<1>5. CASE Settle
  <2>1. /\ gpc = "unlink" /\ ~recovering /\ state' = state /\ snapshot' = snapshot
        /\ ~HasPending' /\ HasState' = HasState
    BY <1>5 DEF Settle, HasPending, HasState
  <2>2. /\ HasState /\ (HasPending => state = pending.after) /\ snapshot.rev = Len(state.chain)
        /\ call \in GraphCalls
    BY <2>1 DEF StoreInv, HistoryInv, Standing
  <2>3. call.kind = "write" => HasPending /\ InChain(pending.after, call.id)
    BY <2>1 DEF StoreInv, Holding
  <2>4. Chain' = state.chain
    BY <2>1 DEF Chain
  <2> QED
    BY <2>1, <2>2, <2>3, <2>4 DEF Published, InChain
<1> QED
  BY <1>1, <1>2, <1>3, <1>4, <1>5 DEF GraphStep

LEMMA StateFileStays ==
    ASSUME GraphStep, HasState
    PROVE  HasState'
<1>1. ASSUME NEW value, Return(value) PROVE HasState'
  BY <1>1 DEF Return, durableGraph, HasState
<1>2. ASSUME NEW have, NEW touch, NEW id, Begin(have, touch, id) PROVE HasState'
  BY <1>2 DEF Begin, HasState
<1>3. CASE Enter
  BY <1>1, <1>2, <1>3 DEF Enter, Recover, Open, Reconcile, Write, durableGraph, HasState
<1>4. CASE WriteNote \/ RemoveNote \/ WriteState
  BY <1>4 DEF WriteNote, RemoveNote, WriteState, durableGraph, HasState
<1>5. CASE WriteSnapshot
  BY <1>1, <1>5 DEF WriteSnapshot, HasState
<1>6. CASE Settle
  BY <1>6 DEF Settle, HasState
<1> QED
  BY <1>3, <1>4, <1>5, <1>6 DEF GraphStep

Settled == {"validate", "admit", "tasks", "decide", "collect", "done"} \cup Accepting

\* What the run relies on having been published.
Progress ==
    /\ meta \/ pc \in Settled => Published(RunStartOp.id)
    /\ decided # None \/ pc = "decide" => Published(TasksOp.id)
    /\ \A a \in Assignment : patch[a] \notin {None, "raised"} => Published(ReportOp(a).id)
    /\ \A a \in accepted : patch[a] # None
    /\ pc = "accept" => patch[current] # None
    /\ meta \/ pc \notin {"down", "open"} => HasState
    /\ ret \notin {NoReturn, "raised"} =>
         /\ ~HasPending /\ HasState
         /\ pc = "run-start" => Published(RunStartOp.id)
         /\ pc = "tasks"     => Published(TasksOp.id)
         /\ pc = "integrate" => Published(ReportOp(current).id)

LEMMA ProgressKept ==
    ASSUME BaseInv, BaseInv', Progress, [Next]_vars
    PROVE  Progress'
<1>0. StoreInv /\ RunTyped /\ RunPlaces /\ Assigned /\ RunTyped' /\ RunPlaces'
  BY DEF BaseInv, RunInv
<1>1. \A id : Published(id) => Published(id)'
  BY <1>0, Stays
<1>2. HasState => HasState'
  <2>1. CASE GraphStep
    BY <2>1, StateFileStays
  <2>2. Hand => HasState' = HasState
    BY DEF Hand, durableGraph, HasState
  <2>3. GraphCall => HasState' = HasState
    BY DEF GraphCall, Call, durableGraph, HasState
  <2>4. UNCHANGED <<disk, durableGraph, hands>> => HasState' = HasState
    BY DEF durableGraph, HasState
  <2>5. UNCHANGED graphVars => HasState' = HasState
    BY DEF graphVars, durableGraph, HasState
  <2>6. Start \/ AdmitTask \/ AdmitReport \/ CloseTask \/ (VaultStep /\ UNCHANGED <<graphVars, runVars>>)
         \/ UNCHANGED vars => UNCHANGED graphVars
    BY DEF Start, AdmitTask, AdmitReport, CloseTask, vars
  <2>7. Crash \/ GraphReturn \/ Validate \/ TaskAdmitted \/ Freeze \/ Decide \/ Collect
        \/ FindingAdmitted \/ TaskClosed \/ Record \/ Accept => UNCHANGED <<disk, durableGraph, hands>>
    BY DEF Crash, GraphReturn, Validate, TaskAdmitted, Freeze, Decide, Collect,
           FindingAdmitted, TaskClosed, Record, Accept, Refuse, Gone, Go
  <2>8. Upset => Hand \/ UNCHANGED graphVars
    BY DEF Upset
  <2> QED
    BY <2>1, <2>2, <2>3, <2>4, <2>5, <2>6, <2>7, <2>8 DEF Next, RunStep
<1>3. CASE UNCHANGED runVars /\ (ret' \in {NoReturn, "raised"} \/ UNCHANGED <<ret, files>>)
  <2>1. /\ meta' = meta /\ pc' = pc /\ decided' = decided /\ patch' = patch /\ accepted' = accepted
        /\ current' = current
    BY <1>3 DEF runVars
  <2>2. HasPending' = HasPending \/ ret' \in {NoReturn, "raised"}
    BY <1>3 DEF HasPending
  <2> QED
    BY <1>1, <1>2, <1>3, <2>1, <2>2 DEF Progress, RunStartOp, TasksOp, ReportOp
<1>4. CASE GraphStep /\ UNCHANGED <<vaultVars, runVars>>
  <2>1. /\ meta' = meta /\ pc' = pc /\ decided' = decided /\ patch' = patch /\ accepted' = accepted
        /\ current' = current
    BY <1>4 DEF runVars
  <2>2. gpc # "idle" /\ (gpc' # "idle" => ret' = ret)
    BY <1>4, StepFrame
  <2>3. CASE gpc' # "idle"
    <3>1. ret' = NoReturn
      BY <1>0, <2>2, <2>3 DEF StoreInv, Holding
    <3> QED
      BY <1>3, <1>4, <3>1 DEF runVars
  <2>4. CASE gpc' = "idle" /\ ret' = "raised"
    BY <1>3, <1>4, <2>4
  <2>5. CASE gpc' = "idle" /\ ret' # "raised"
    <3>1. /\ ~HasPending' /\ HasState'
          /\ \A id : call.kind = "write" /\ call.id = id => Published(id)'
      BY <1>0, <1>4, <2>5, ReturnFacts
    <3>2. Calling
      BY <1>0, <2>2 DEF RunPlaces
    <3>3. /\ pc = "run-start" => call = RunStartOp /\ call.kind = "write"
          /\ pc = "tasks"     => call = TasksOp /\ call.kind = "write"
          /\ pc = "integrate" => call = ReportOp(current) /\ call.kind = "write"
      BY <3>2 DEF Calling, RunStartOp, TasksOp, ReportOp
    <3>4. /\ pc = "run-start" => Published(RunStartOp.id)'
          /\ pc = "tasks" => Published(TasksOp.id)'
      BY <3>1, <3>3 DEF RunStartOp, TasksOp
    <3>5. pc = "integrate" => Published(ReportOp(current).id)'
      <4>1. \A id : pc = "integrate" /\ id = ReportOp(current).id => Published(id)'
        BY <3>1, <3>3
      <4> QED
        BY <2>1, <4>1 DEF ReportOp, Published
    <3> QED
      BY <1>1, <1>2, <2>1, <3>1, <3>4, <3>5 DEF Progress, RunStartOp, TasksOp, ReportOp
  <2> QED
    BY <2>3, <2>4, <2>5
<1>5. ASSUME ret' = NoReturn,
             meta' \/ pc' \in Settled => meta \/ pc \in Settled \/ Published(RunStartOp.id),
             decided' # None \/ pc' = "decide" => decided # None \/ Published(TasksOp.id),
             patch' = patch, accepted' = accepted, pc' = "accept" => pc = "accept" /\ current' = current,
             meta' \/ pc' \notin {"down", "open"} => HasState
      PROVE  Progress'
  BY <1>1, <1>2, <1>5 DEF Progress, RunStartOp, TasksOp, ReportOp
<1>6. CASE Start
  <2>1. /\ pc' \in {"down", "open", "reconcile"} /\ (pc' = "reconcile" => meta)
        /\ UNCHANGED <<ret, meta, decided, patch, accepted>> /\ pc = "down"
    BY <1>6 DEF Start, graphVars, callVars
  <2>2. ret' = NoReturn
    BY <1>0, <2>1 DEF RunPlaces
  <2> QED
    BY <1>5, <2>1, <2>2 DEF Progress, Settled, Accepting
<1>7. CASE Gone
  BY <1>5, <1>7 DEF Gone, Forget, Progress, Settled, Accepting
<1>8. ASSUME NEW stage, Go(stage) PROVE pc' = stage /\ ret' = NoReturn
  BY <1>8 DEF Go, Forget
<1>9. CASE GraphReturn
  <2>1. CASE Refuse("graph")
    BY <1>7, <2>1 DEF Refuse
  <2>2. CASE ~Refuse("graph")
    <3>1. /\ ret \notin {NoReturn, "raised"} /\ pc \in {"open", "reconcile", "run-start", "tasks"}
          /\ Keep
      BY <1>9, <2>2 DEF GraphReturn
    <3>2. /\ ret' = NoReturn
          /\ \/ pc = "open" /\ pc' = "reconcile"
             \/ pc = "reconcile" /\ pc' = (IF meta THEN "validate" ELSE "run-start")
             \/ pc = "run-start" /\ pc' = "validate"
             \/ pc = "tasks" /\ pc' = "decide"
      BY <1>9, <2>2 DEF GraphReturn, Go, Forget
    <3>3. HasState
      BY <3>1 DEF Progress
    <3>4. /\ pc' \in Settled => meta \/ pc \in Settled \/ Published(RunStartOp.id)
          /\ pc' = "decide" => Published(TasksOp.id)
      BY <3>1, <3>2 DEF Progress, Settled, Accepting
    <3> QED
      BY <1>5, <3>1, <3>2, <3>3, <3>4 DEF Keep
  <2> QED
    BY <2>1, <2>2
<1>10. CASE Validate \/ TaskAdmitted \/ Freeze \/ Collect \/ FindingAdmitted \/ TaskClosed
  <2>1. CASE Gone
    BY <1>7, <2>1
  <2>2. CASE ~Gone
    <3>1. /\ ret' = NoReturn /\ pc \in Settled /\ pc' \notin {"decide", "accept"} /\ HasState
          /\ UNCHANGED <<decided, patch, accepted>>
      BY <1>10, <2>2 DEF Validate, TaskAdmitted, Freeze, Collect, FindingAdmitted, TaskClosed, Go, Forget, Refuse,
                         Keep, Settled, Accepting, Progress
    <3> QED
      BY <1>5, <3>1
  <2> QED
    BY <2>1, <2>2
<1>11. CASE Decide
  <2>1. /\ pc = "decide" /\ pc' = "collect" /\ ret' = NoReturn
        /\ UNCHANGED <<meta, patch, accepted>>
    BY <1>11 DEF Decide, Go, Forget
  <2>2. Published(TasksOp.id) /\ HasState /\ pc \in Settled
    BY <2>1 DEF Progress, Settled
  <2> QED
    BY <1>5, <2>1, <2>2
<1>12. CASE Record
  <2>1. CASE Gone
    BY <1>7, <2>1
  <2>2. CASE ~Gone
    <3>1. /\ pc = "integrate" /\ pc' = "accept" /\ ret # NoReturn /\ ret' = NoReturn
          /\ patch' = [patch EXCEPT ![current] = ret]
          /\ UNCHANGED <<meta, decided, current, accepted>>
      BY <1>12, <2>2 DEF Record, Go, Forget, Refuse
    <3>2. current \in Assignment \ accepted /\ ret \in Outcome /\ patch \in [Assignment -> Outcome \cup {None}]
      BY <1>0, <3>1 DEF RunPlaces, RunTyped, Accepting, StoreInv, GraphTypeOK
    <3>3. ret # None
      BY <3>2, NothingIsNoValue
    <3>4. HasState /\ Published(RunStartOp.id) /\ (decided # None => Published(TasksOp.id))
      BY <3>1 DEF Progress, Settled, Accepting
    <3>5. \A a \in Assignment : patch'[a] \notin {None, "raised"} => Published(ReportOp(a).id)
      <4>1. patch'[current] = ret /\ \A a \in Assignment \ {current} : patch'[a] = patch[a]
        BY <3>1, <3>2
      <4>2. ret # "raised" => Published(ReportOp(current).id)
        BY <3>1 DEF Progress
      <4> QED
        BY <4>1, <4>2 DEF Progress
    <3>6. (\A a \in accepted : patch'[a] # None) /\ patch'[current] # None
      BY <3>1, <3>2, <3>3, <1>0 DEF Progress, RunTyped
    <3> QED
      BY <1>1, <1>2, <3>1, <3>4, <3>5, <3>6 DEF Progress, Settled, Accepting, RunStartOp, TasksOp, ReportOp
  <2> QED
    BY <2>1, <2>2
<1>13. CASE Accept
  <2>1. /\ pc = "accept" /\ pc' \in {"done", "collect"} /\ ret' = NoReturn
        /\ accepted' = accepted \cup {current}
        /\ UNCHANGED <<meta, decided, patch>>
    BY <1>13 DEF Accept, Go, Forget
  <2>2. HasState /\ Published(RunStartOp.id) /\ (decided # None => Published(TasksOp.id))
    BY <2>1 DEF Progress, Settled, Accepting
  <2>3. \A a \in accepted' : patch'[a] # None
    BY <2>1 DEF Progress
  <2> QED
    BY <1>1, <1>2, <2>1, <2>2, <2>3 DEF Progress, Settled, Accepting, RunStartOp, TasksOp, ReportOp
<1>14. CASE GraphCall \/ AdmitTask \/ AdmitReport \/ CloseTask
        \/ (VaultStep /\ UNCHANGED <<graphVars, runVars>>) \/ Upset \/ UNCHANGED vars
  <2>1. UNCHANGED runVars /\ (ret' = NoReturn \/ UNCHANGED <<ret, files>>)
    BY <1>14 DEF GraphCall, Call, AdmitTask, AdmitReport, CloseTask, Upset, Hand, vars, graphVars,
                 callVars, durableGraph
  <2> QED
    BY <1>3, <2>1
<1>15. Crash => Gone
  BY DEF Crash
<1> QED
  BY <1>4, <1>6, <1>7, <1>9, <1>10, <1>11, <1>12, <1>13, <1>14, <1>15 DEF Next, RunStep

(* A graph that no human has touched. ---------------------------------------------*)

WriteOps == {RunStartOp, TasksOp} \cup {ReportOp(a) : a \in Assignment}

\* Every note is where its title puts it, as MATEK wrote it, and so are its links.
Plain(notes) ==
    \A n \in Note : notes[n] # None =>
        /\ notes[n].path = "title" /\ notes[n].text.prose = FALSE /\ notes[n].text.field = FALSE
        /\ \A t \in Links[n] : notes[t] # None /\ notes[n].text.shows[t] = "title"

OnDisk(notes, n) ==
    disk[n] = [p \in Place |-> IF p = "title" /\ notes[n] # None THEN notes[n].text ELSE None]

\* The notes of every operation in the history are there, and no others.
Holds(s) ==
    /\ \A op \in WriteOps : InChain(s, op.id) => \A n \in op.touch : s.notes[n] # None
    /\ \A n \in Note : s.notes[n] # None => \E op \in WriteOps : InChain(s, op.id) /\ n \in op.touch

LEMMA PlainDisk ==
    ASSUME NEW notes, IsNotes(notes), Plain(notes), \A n \in Note : OnDisk(notes, n)
    PROVE  Loaded = notes /\ ~Duplicate
<1>1. ASSUME NEW n \in Note
      PROVE  /\ notes[n] = None => Found(n) = {}
             /\ notes[n] # None => Found(n) = {"title"} /\ disk[n]["title"] = notes[n].text
  <2>1. /\ disk[n]["hand"] = None
        /\ disk[n]["title"] = IF notes[n] # None THEN notes[n].text ELSE None
    BY DEF OnDisk, Place
  <2>2. notes[n] # None => notes[n].text # None
    BY NotANote DEF IsNotes, NoteAt
  <2> QED
    BY <2>1, <2>2 DEF Found, Place
<1>2. ASSUME NEW n \in Note PROVE Loaded[n] = notes[n]
  <2>1. CASE notes[n] = None
    BY <1>1, <2>1 DEF Loaded
  <2>2. CASE notes[n] # None
    <3>1. Found(n) = {"title"} /\ disk[n]["title"] = notes[n].text
      BY <1>1, <2>2
    <3>2. (CHOOSE q \in Found(n) : TRUE) = "title" /\ Found(n) # {}
      BY <3>1
    <3>3. Loaded[n] = [path |-> "title", text |-> disk[n]["title"]]
      BY <3>2 DEF Loaded
    <3>4. notes[n] \in [path : Place, text : Text(n)] /\ notes[n].path = "title"
      BY <2>2 DEF IsNotes, Plain
    <3> QED
      BY <3>1, <3>3, <3>4
  <2> QED
    BY <2>1, <2>2
<1>3. Loaded = notes
  <2>1. Loaded = [n \in Note |-> Loaded[n]] /\ notes = [n \in Note |-> notes[n]]
    BY DEF Loaded, IsNotes
  <2>2. [n \in Note |-> Loaded[n]] = [n \in Note |-> notes[n]]
    BY <1>2
  <2> QED
    BY <2>1, <2>2
<1>4. ~Duplicate
  <2>1. ASSUME NEW n \in Note PROVE Cardinality(Found(n)) \in {0, 1}
    <3>1. Cardinality({}) = 0
      BY FS_EmptySet
    <3>2. Cardinality({"title"}) = 1
      BY FS_Singleton
    <3> QED
      BY <1>1, <3>1, <3>2
  <2> QED
    BY <2>1 DEF Duplicate
<1> QED
  BY <1>3, <1>4

\* A transaction over such a graph moves nothing and leaves such a graph.
LEMMA PlainRendered ==
    ASSUME IsNotes(state.notes), Plain(state.notes), Loaded = state.notes,
           Len(state.chain) \in Nat,
           NEW touch \in SUBSET Note, NEW id,
           \A n \in touch : \A t \in Links[n] : t \in touch \/ state.notes[t] # None
    PROVE  /\ Inbound(Loaded, touch) = {} /\ Removals(Loaded, touch) = {}
           /\ \A n \in touch : Planned(Loaded, n) = "title" /\ Current(Loaded, n) \in {"title", "nowhere"}
           /\ \A n \in touch : Current(Loaded, n) = "nowhere" <=> state.notes[n] = None
           /\ Rendered(Loaded, touch) = Recorded(Loaded, touch, id).notes
           /\ Plain(Rendered(Loaded, touch))
           /\ \A n \in touch : Rendered(Loaded, touch)[n] # None
           /\ \A n \in Note \ touch : Rendered(Loaded, touch)[n] = state.notes[n]
<1>0. PICK have : have = state.notes /\ Loaded = have
  OBVIOUS
<1> DEFINE new == Rendered(have, touch)
<1>r. ASSUME NEW n \in Note
      PROVE  /\ n \in touch =>
                new[n] =
                    [path |-> Planned(have, n),
                     text |-> [gen   |-> Len(state.chain) + 1,
                               prose |-> have[n] # None /\ have[n].text.prose,
                               field |-> have[n] # None /\ have[n].text.field,
                               shows |-> Shown(have, touch, n)]]
             /\ n \in Inbound(have, touch) =>
                new[n] = [have[n] EXCEPT !.text.shows = Shown(have, touch, n)]
             /\ n \notin touch \cup Inbound(have, touch) => new[n] = have[n]
  BY RenderedAs
<1> USE <1>0
<1>1. ASSUME NEW n \in Note
      PROVE  /\ have[n] # None => have[n] \in NoteAt(n) /\ have[n].path = "title"
             /\ Current(have, n) = IF have[n] # None THEN "title" ELSE "nowhere"
             /\ Planned(have, n) = "title"
  <2>1. have[n] # None => have[n] \in NoteAt(n) /\ have[n].path = "title"
    BY DEF IsNotes, NoteAt, Plain
  <2>2. Current(have, n) = IF have[n] # None THEN "title" ELSE "nowhere"
    BY <2>1 DEF Current
  <2>3. Planned(have, n) = "title"
    BY <2>1, <2>2 DEF Planned
  <2> QED
    BY <2>1, <2>2, <2>3
<1>2. Inbound(have, touch) = {}
  <2> SUFFICES ASSUME NEW n \in Inbound(have, touch) PROVE FALSE
    OBVIOUS
  <2>1. /\ n \in Note /\ have[n] # None
        /\ \E t \in Links[n] \cap touch : Planned(have, t) # Current(have, t)
    BY DEF Inbound
  <2>2. PICK t \in Links[n] \cap touch : Planned(have, t) # Current(have, t)
    BY <2>1
  <2>3. have[t] # None
    BY <2>1 DEF Plain
  <2> QED
    BY <1>1, <2>2, <2>3
<1>3. Removals(have, touch) = {}
  BY <1>1 DEF Removals
<1>4. \A n \in Note \ touch : new[n] = have[n]
  <2> SUFFICES ASSUME NEW n \in Note, n \notin touch PROVE new[n] = have[n]
    OBVIOUS
  <2>1. n \notin touch \cup Inbound(have, touch) => new[n] = have[n]
    BY <1>r
  <2> QED
    BY <1>2, <2>1
<1>5. ASSUME NEW n \in touch
      PROVE  /\ new[n] = [path |-> "title",
                          text |-> [gen   |-> Len(state.chain) + 1,
                                    prose |-> FALSE,
                                    field |-> FALSE,
                                    shows |-> Shown(have, touch, n)]]
             /\ \A t \in Links[n] : Shown(have, touch, n)[t] = "title"
  <2>1. new[n] = [path |-> Planned(have, n),
                  text |-> [gen   |-> Len(state.chain) + 1,
                            prose |-> have[n] # None /\ have[n].text.prose,
                            field |-> have[n] # None /\ have[n].text.field,
                            shows |-> Shown(have, touch, n)]]
    <3>1. n \in Note
      OBVIOUS
    <3> QED
      BY <1>r, <3>1
  <2>2. /\ (have[n] # None /\ have[n].text.prose) = FALSE
        /\ (have[n] # None /\ have[n].text.field) = FALSE
    BY DEF Plain
  <2>3. Planned(have, n) = "title"
    BY <1>1
  <2>4. ASSUME NEW t \in Links[n] PROVE Shown(have, touch, n)[t] = "title"
    <3>1. t \in Note /\ (t \in touch \/ have[t] # None)
      BY LinksInOrder
    <3>2. Moved(have, touch, t) = "title"
      BY <1>1, <3>1 DEF Moved
    <3> QED
      BY <3>1, <3>2 DEF Shown
  <2> QED
    BY <2>1, <2>2, <2>3, <2>4
<1>6. \A n \in touch : new[n] # None
  <2>1. \A n \in touch : new[n] \in NoteAt(n)
    BY RenderedNotes
  <2> QED
    BY <2>1, NotANote
<1>7. Plain(new)
  <2> SUFFICES ASSUME NEW n \in Note, new[n] # None
               PROVE  /\ new[n].path = "title" /\ new[n].text.prose = FALSE /\ new[n].text.field = FALSE
                      /\ \A t \in Links[n] : new[t] # None /\ new[n].text.shows[t] = "title"
    BY DEF Plain
  <2>1. \A t \in Note : have[t] # None => new[t] # None
    BY <1>4, <1>6
  <2>2. CASE n \in touch
    <3>1. \A t \in Links[n] : new[t] # None
      BY <1>6, <2>1, <2>2, LinksInOrder
    <3>2. /\ new[n] = [path |-> "title",
                       text |-> [gen   |-> Len(state.chain) + 1,
                                 prose |-> FALSE,
                                 field |-> FALSE,
                                 shows |-> Shown(have, touch, n)]]
          /\ \A t \in Links[n] : Shown(have, touch, n)[t] = "title"
      BY <1>5, <2>2
    <3> HIDE DEF new
    <3>3. /\ new[n].path = "title" /\ new[n].text.prose = FALSE /\ new[n].text.field = FALSE
          /\ new[n].text.shows = Shown(have, touch, n)
      BY <3>2
    <3> QED
      BY <3>1, <3>2, <3>3
  <2>3. CASE n \notin touch
    <3>1. new[n] = have[n]
      BY <1>4, <2>3
    <3>2. \A t \in Links[n] : t \in Note /\ have[t] # None
      BY <3>1, LinksInOrder DEF Plain
    <3> QED
      BY <2>1, <3>1, <3>2 DEF Plain
  <2> QED
    BY <2>2, <2>3
<1>8. new = Recorded(have, touch, id).notes
  <2> DEFINE rec == Recorded(have, touch, id).notes
  <2>1. rec = [n \in Note |->
            CASE n \in touch -> new[n]
              [] n \notin touch /\ have[n] = None -> state.notes[n]
              [] OTHER -> [path |-> have[n].path,
                           text |-> IF state.notes[n] = None THEN have[n].text
                                    ELSE state.notes[n].text]]
    BY <1>2 DEF Recorded
  <2>2. ASSUME NEW n \in Note PROVE rec[n] = new[n]
    <3>1. CASE n \in touch
      BY <2>1, <3>1
    <3>2. CASE n \notin touch /\ have[n] = None
      BY <1>4, <2>1, <3>2
    <3>3. CASE n \notin touch /\ have[n] # None
      <4>1. rec[n] = [path |-> have[n].path, text |-> have[n].text]
        BY <2>1, <3>3
      <4>2. have[n] \in [path : Place, text : Text(n)]
        BY <1>1, <3>3 DEF NoteAt
      <4>3. have[n] = [path |-> have[n].path, text |-> have[n].text]
        BY <4>2
      <4> QED
        BY <1>4, <3>3, <4>1, <4>3
    <3> QED
      BY <3>1, <3>2, <3>3
  <2>3. rec = [n \in Note |-> rec[n]] /\ new = [n \in Note |-> new[n]]
    BY <2>1 DEF Rendered
  <2>4. [n \in Note |-> rec[n]] = [n \in Note |-> new[n]]
    BY <2>2
  <2> QED
    BY <2>3, <2>4
<1> QED
  BY <1>0, <1>1, <1>2, <1>3, <1>4, <1>6, <1>7, <1>8

\* What holds of the store as long as no human has edited a note of the graph.
Untouched ==
    /\ Plain(state.notes) /\ Holds(state)
    /\ ~HasState => state.notes = NoNotes
    /\ ~HasPending => \A n \in Note : OnDisk(state.notes, n)
    /\ HasPending =>
         /\ Plain(pending.after.notes) /\ Holds(pending.after) /\ pending.removals = {}
         /\ \A n \in DOMAIN pending.writes :
               pending.writes[n] = pending.after.notes[n] /\ pending.after.notes[n] # None
         /\ \A n \in Note : disk[n]["hand"] = None
         /\ \A n \in Note \ DOMAIN pending.writes : OnDisk(pending.after.notes, n)
         /\ snapshot.rev = Len(pending.after.chain) => snapshot.notes = pending.after.notes
    /\ gpc = "notes" =>
         /\ \A n \in Note \ todo : OnDisk(pending.after.notes, n)
         /\ ~recovering => nodes = pending.after.notes
    /\ gpc \in {"snapshot", "unlink"} =>
         /\ nodes = state.notes
         /\ \A n \in Note : OnDisk(state.notes, n)
    /\ gpc = "snapshot" /\ ~HasPending => Lost

\* How an operation that returned left the store.
Returned ==
    gpc = "idle" =>
        /\ ret = "raised" =>
              \/ snapshot.rev = -1
              \/ pc = "integrate" /\ ~HasPending /\ Clashes(current)
        /\ HasPending => ret = "raised" \/ pc \in {"down", "open", "reconcile"}

LEMMA PublishedHeld ==
    ASSUME StoreInv, ~HasPending, NEW id, Published(id)
    PROVE  InChain(state, id)
<1>1. PICK i \in 1..snapshot.rev : Chain[i] = id
  BY DEF Published
<1>2. Chain = state.chain
  BY DEF Chain
<1>3. snapshot.rev \in Int /\ Len(state.chain) \in Nat /\ snapshot.rev <= Len(state.chain)
  BY DEF StoreInv, HistoryInv, Typed, AtRest, Lost
<1>4. i \in 1..Len(state.chain)
  BY <1>1, <1>3
<1> QED
  BY <1>1, <1>2, <1>4 DEF InChain

\* The notes that an operation of the run links to are there when it is called.
LEMMA LinksPresent ==
    ASSUME StoreInv, RunInv, Progress, Untouched, gpc = "enter", ~HasPending, call.kind = "write"
    PROVE  /\ call \in WriteOps /\ call.touch \in SUBSET Note /\ call.id \in OpId /\ HasState
           /\ ~Unfit =>
                 \A n \in call.touch : \A t \in Links[n] : t \in call.touch \/ state.notes[t] # None
           /\ Unfit => pc = "integrate" /\ call = ReportOp(current)
           /\ \A n \in call.needs : state.notes[n] # None
           /\ Applied(call.id) => \A n \in call.again : state.notes[n] # None
<1>1. /\ \/ pc = "run-start" /\ call = RunStartOp
         \/ pc = "tasks"     /\ call = TasksOp
         \/ pc = "integrate" /\ call = ReportOp(current)
      /\ pc = "integrate" => current \in Assignment /\ decided # None
  BY DEF RunInv, RunPlaces, Calling, OpenOp, ReconcileOp, Accepting
<1>2. call \in WriteOps /\ call \in GraphCalls
  BY <1>1 DEF WriteOps, GraphCalls
<1>3. call.touch \in SUBSET Note
  <2>1. RunStartOp.touch \in SUBSET Note /\ TasksOp.touch \in SUBSET Note
    BY AdmissionConstants DEF RunStartOp, TasksOp
  <2>2. pc = "integrate" => ReportOp(current).touch \in SUBSET Note
    <3>1. pc = "integrate" => Task[current] \in Note /\ Result[current] \in SUBSET Note
      BY <1>1, AdmissionConstants
    <3> QED
      BY <3>1 DEF ReportOp
  <2> QED
    BY <1>1, <2>1, <2>2
<1>4. call.id \in OpId
  BY <1>2, WriteIds
<1>5. HasState
  BY <1>1 DEF Progress
<1>6. pc \in {"tasks", "integrate"} => state.notes[Problem] # None
  <2> SUFFICES ASSUME pc \in {"tasks", "integrate"} PROVE state.notes[Problem] # None
    OBVIOUS
  <2>1. Published(RunStartOp.id)
    BY DEF Progress, Settled, Accepting
  <2>2. InChain(state, RunStartOp.id)
    BY <2>1, PublishedHeld
  <2>3. RunStartOp \in WriteOps /\ Problem \in RunStartOp.touch
    BY DEF WriteOps, RunStartOp
  <2> QED
    BY <2>2, <2>3 DEF Untouched, Holds
<1>7. pc = "integrate" => \A b \in Assignment : state.notes[Task[b]] # None
  <2> SUFFICES ASSUME pc = "integrate", NEW b \in Assignment PROVE state.notes[Task[b]] # None
    OBVIOUS
  <2>1. Published(TasksOp.id)
    BY <1>1 DEF Progress
  <2>2. InChain(state, TasksOp.id)
    BY <2>1, PublishedHeld
  <2>3. TasksOp \in WriteOps /\ Task[b] \in TasksOp.touch
    BY DEF WriteOps, TasksOp
  <2> QED
    BY <2>2, <2>3 DEF Untouched, Holds
<1>8. Unfit <=> {n \in Note : state.notes[n] # None} \notin call.fits
  <2>1. PICK notes : notes = state.notes
    OBVIOUS
  <2>2. IsNotes(notes) /\ Plain(notes) /\ \A n \in Note : OnDisk(notes, n)
    BY <2>1 DEF StoreInv, GraphTypeOK, Untouched
  <2>3. Loaded = notes
    BY <2>2, PlainDisk
  <2> QED
    BY <2>1, <2>3 DEF Unfit
<1>9. CASE pc = "run-start" /\ call = RunStartOp
  <2>1. /\ call.touch = {Problem} /\ call.needs = {} /\ call.again = {Problem}
        /\ call.id = RunStartOp.id /\ call.fits = SUBSET Note
    BY <1>9 DEF RunStartOp
  <2>2. ~Unfit
    BY <1>8, <2>1
  <2>3. Applied(call.id) => state.notes[Problem] # None
    <3>1. Applied(call.id) => InChain(state, RunStartOp.id)
      BY <2>1 DEF Applied, InChain, StoreInv, HistoryInv, Typed
    <3>2. RunStartOp \in WriteOps /\ Problem \in RunStartOp.touch
      BY DEF WriteOps, RunStartOp
    <3> QED
      BY <3>1, <3>2 DEF Untouched, Holds
  <2>4. \A t \in Links[Problem] : t \in {Problem}
    BY LinksInOrder
  <2> QED
    BY <1>2, <1>3, <1>4, <1>5, <2>1, <2>3, <2>4, <2>2
<1>10. CASE pc = "tasks" /\ call = TasksOp
  <2>1. /\ call.touch = {Task[a] : a \in Assignment} /\ call.needs = {Problem}
        /\ call.again = {Problem} /\ call.fits = SUBSET Note
    BY <1>10 DEF TasksOp
  <2>2. ~Unfit
    BY <1>8, <2>1
  <2>3. \A n \in call.touch : \A t \in Links[n] : t \in call.touch \/ t = Problem
    BY <2>1, LinksInOrder
  <2> QED
    BY <1>2, <1>3, <1>4, <1>5, <1>6, <1>10, <2>1, <2>3, <2>2
<1>11. CASE pc = "integrate" /\ call = ReportOp(current)
  <2>1. /\ call.touch = {Task[current]} \cup Result[current] /\ call.needs = {Problem, Task[current]}
        /\ call.again = {} /\ call.fits = Admissible[current]
    BY <1>11 DEF ReportOp
  <2>2. ~Unfit =>
           \A n \in call.touch : \A t \in Links[n] : t \in call.touch \/ state.notes[t] # None
    <3> DEFINE have == {n \in Note : state.notes[n] # None}
    <3> SUFFICES ASSUME have \in Admissible[current], NEW n \in call.touch, NEW t \in Links[n]
                 PROVE  t \in call.touch \/ state.notes[t] # None
      BY <1>8, <2>1
    <3>1. CASE n = Task[current]
      <4>1. t = Problem \/ \E b \in Assignment : t = Task[b]
        BY <1>1, <1>11, <3>1, LinksInOrder
      <4> QED
        BY <1>6, <1>7, <1>11, <4>1
    <3>2. CASE n \in Result[current]
      <4>1. t \in have \cup {Task[current]} \cup Result[current]
        BY <1>1, <1>11, <3>2, LinksInOrder
      <4> QED
        BY <2>1, <4>1
    <3> QED
      BY <2>1, <3>1, <3>2
  <2> QED
    BY <1>1, <1>2, <1>3, <1>4, <1>5, <1>6, <1>7, <1>11, <2>1, <2>2
<1> QED
  BY <1>1, <1>9, <1>10, <1>11

\* A report that is found not to go with an untouched graph clashes with the reports
\* the graph holds.
LEMMA ClashFound ==
    ASSUME StoreInv, RunInv, Progress, Untouched, ~HasPending,
           pc = "integrate", ~Applied(ReportOp(current).id),
           {n \in Note : state.notes[n] # None} \notin Admissible[current]
    PROVE  Clashes(current)
<1> DEFINE others == {b \in Assignment : InChain(state, ReportOp(b).id)}
           have   == {n \in Note : state.notes[n] # None}
<1>1. current \in Assignment /\ decided # None
  BY DEF RunInv, RunPlaces, Accepting
<1>2. Published(RunStartOp.id) /\ Published(TasksOp.id)
  BY <1>1 DEF Progress, Settled, Accepting
<1>3. InChain(state, RunStartOp.id) /\ InChain(state, TasksOp.id)
  BY <1>2, PublishedHeld
<1>4. /\ state.chain \in Seq(OpId) /\ Len(state.chain) \in Nat /\ DOMAIN state.chain = 1..Len(state.chain)
      /\ snapshot.rev = Len(state.chain) /\ Chain = state.chain
  <2>1. snapshot.rev # -1
    BY <1>2 DEF Published
  <2> QED
    BY <2>1 DEF StoreInv, HistoryInv, Typed, AtRest, Lost, Chain
<1>5. \A b \in others : Published(ReportOp(b).id)
  BY <1>4 DEF Published, InChain
<1>6. current \notin others
  BY <1>4 DEF Applied, InChain
<1>7. /\ RunStartOp \in WriteOps /\ RunStartOp.touch = {Problem}
      /\ TasksOp \in WriteOps /\ TasksOp.touch = {Task[a] : a \in Assignment}
      /\ \A b \in Assignment : ReportOp(b) \in WriteOps /\ ReportOp(b).touch = {Task[b]} \cup Result[b]
      /\ \A op \in WriteOps : op = RunStartOp \/ op = TasksOp \/ \E b \in Assignment : op = ReportOp(b)
  BY DEF WriteOps, RunStartOp, TasksOp, ReportOp
<1>8. /\ Problem \in Note /\ \A b \in Assignment : Task[b] \in Note /\ Result[b] \in SUBSET Note
  BY AdmissionConstants
<1>9. Given \cup UNION {Result[b] : b \in others} \subseteq have
  <2>1. Given \subseteq have
    BY <1>3, <1>7, <1>8 DEF Given, Untouched, Holds
  <2>2. ASSUME NEW b \in others, NEW n \in Result[b] PROVE n \in have
    BY <1>7, <1>8 DEF Untouched, Holds
  <2> QED
    BY <2>1, <2>2
<1>10. have \subseteq Given \cup UNION {Result[b] : b \in others}
  <2> SUFFICES ASSUME NEW n \in have PROVE n \in Given \cup UNION {Result[b] : b \in others}
    OBVIOUS
  <2>1. PICK op \in WriteOps : InChain(state, op.id) /\ n \in op.touch
    BY DEF Untouched, Holds
  <2>2. CASE op = RunStartOp \/ op = TasksOp
    BY <1>7, <2>1, <2>2 DEF Given
  <2>3. ASSUME NEW b \in Assignment, op = ReportOp(b)
        PROVE  n \in Given \cup UNION {Result[c] : c \in others}
    <3>1. b \in others /\ n \in {Task[b]} \cup Result[b]
      BY <1>7, <2>1, <2>3
    <3> QED
      BY <3>1 DEF Given
  <2> QED
    BY <1>7, <2>2, <2>3
<1>11. Given \cup UNION {Result[b] : b \in others} = have
  BY <1>9, <1>10
<1>12. others \in SUBSET (Assignment \ {current})
  BY <1>6
<1> HIDE DEF others
<1> QED
  BY <1>5, <1>11, <1>12 DEF Clashes

\* An operation on an untouched graph raises where it reads the notes only for a
\* report that clashes with them.
LEMMA EnterUntouched ==
    ASSUME StoreInv, RunInv, Progress, Untouched, Enter
    PROVE  \/ HasPending /\ Recover
           \/ ~HasPending /\ \E value \in {"already", "nothing"} : Return(value)
           \/ ~HasPending /\ Return("raised") /\ pc = "integrate" /\ Clashes(current)
           \/ /\ ~HasPending /\ ~HasState
              /\ files' = files \cup {"state"} /\ state' = EmptyState /\ gpc' = "snapshot"
              /\ UNCHANGED <<disk, pending, snapshot, hands, recovering, nodes, todo, call, ret>>
           \/ ~HasPending /\ call.kind = "write" /\ ~Unfit /\ Begin(Loaded, call.touch, call.id)
<1>1. gpc = "enter" /\ call \in GraphCalls
  BY EnterAs
<1>2. CASE HasPending
  BY <1>2 DEF Enter
<1>3. CASE ~HasPending
  <2>1. Loaded = state.notes /\ ~Duplicate
    BY <1>3, PlainDisk DEF Untouched, StoreInv, GraphTypeOK
  <2>2. CASE Open
    BY <1>3, <2>1, <2>2 DEF Open
  <2>3. CASE Reconcile
    <3>1. HasState
      BY <1>1, <2>3 DEF RunInv, RunPlaces, Calling, OpenOp, ReconcileOp, RunStartOp, TasksOp, ReportOp,
                        Progress, Reconcile
    <3>2. ~Conflicts
      BY <2>1 DEF Conflicts, Managed
    <3>3. Edited = {}
      BY <2>1 DEF Edited
    <3>4. Return("nothing")
      BY <2>1, <2>3, <3>1, <3>2, <3>3 DEF Reconcile
    <3> QED
      BY <1>3, <3>4
  <2>4. CASE Write
    <3>1. call.kind = "write"
      BY <2>4 DEF Write
    <3>2. /\ call.touch \in SUBSET Note /\ HasState
          /\ ~Unfit =>
                \A n \in call.touch : \A t \in Links[n] : t \in call.touch \/ state.notes[t] # None
          /\ Unfit => pc = "integrate" /\ call = ReportOp(current)
          /\ \A n \in call.needs : state.notes[n] # None
          /\ Applied(call.id) => \A n \in call.again : state.notes[n] # None
      BY <1>1, <1>3, <3>1, LinksPresent
    <3>3. ~Missing
      BY <2>1, <3>2 DEF Missing
    <3>4. ~Unfit => ~Occupied(Loaded, call.touch)
      <4> SUFFICES ASSUME ~Unfit PROVE ~Occupied(Loaded, call.touch)
        OBVIOUS
      <4>1. /\ \A n \in call.touch : Planned(Loaded, n) = "title" /\ Current(Loaded, n) \in {"title", "nowhere"}
            /\ \A n \in call.touch : Current(Loaded, n) = "nowhere" <=> state.notes[n] = None
        <5>1. IsNotes(state.notes) /\ Plain(state.notes) /\ Len(state.chain) \in Nat
          BY DEF StoreInv, GraphTypeOK, HistoryInv, Typed, Untouched
        <5> QED
          BY <2>1, <3>2, <5>1, PlainRendered
      <4>2. \A n \in Note : state.notes[n] = None => disk[n]["title"] = None
        BY <1>3 DEF Untouched, OnDisk, Place
      <4> QED
        BY <3>2, <4>1, <4>2 DEF Occupied
    <3>5. CASE ~Unfit
      <4>1. Return("already") \/ Begin(Loaded, call.touch, call.id)
        BY <2>1, <2>4, <3>2, <3>3, <3>4, <3>5 DEF Write
      <4> QED
        BY <1>3, <3>1, <3>5, <4>1
    <3>6. CASE Unfit
      <4>1. pc = "integrate" /\ call = ReportOp(current) /\ call.early /\ call.fits = Admissible[current]
        BY <3>2, <3>6 DEF ReportOp
      <4>2. CASE Applied(call.id)
        BY <1>3, <2>4, <3>2, <4>1, <4>2 DEF Write
      <4>3. CASE ~Applied(call.id)
        <5>1. Return("raised")
          BY <2>4, <3>6, <4>3 DEF Write
        <5>2. {n \in Note : state.notes[n] # None} \notin Admissible[current]
          BY <2>1, <3>6, <4>1 DEF Unfit
        <5>3. Clashes(current)
          BY <1>3, <4>1, <4>3, <5>2, ClashFound
        <5> QED
          BY <1>3, <4>1, <5>1, <5>3
      <4> QED
        BY <4>2, <4>3
    <3> QED
      BY <3>5, <3>6
  <2> QED
    BY <1>3, <2>2, <2>3, <2>4 DEF Enter
<1> QED
  BY <1>2, <1>3

LEMMA WriteOpFacts ==
    /\ \A op \in WriteOps : op.touch \in SUBSET Note
    /\ \A one, other \in WriteOps : one.id = other.id => one = other
<1>1. /\ RunStartOp.touch \in SUBSET Note /\ TasksOp.touch \in SUBSET Note
      /\ RunStartOp.id[1] = "run-start" /\ TasksOp.id[1] = "coordinator-tasks"
  BY AdmissionConstants DEF RunStartOp, TasksOp
<1>2. ASSUME NEW a \in Assignment
      PROVE  /\ ReportOp(a).touch \in SUBSET Note
             /\ ReportOp(a).id[1] = "worker-report" /\ ReportOp(a).id[2] = a
  <2>1. Task[a] \in Note /\ Result[a] \in SUBSET Note
    BY AdmissionConstants
  <2> QED
    BY <2>1 DEF ReportOp
<1>3. \A op \in WriteOps : \/ op = RunStartOp \/ op = TasksOp
                           \/ \E a \in Assignment : op = ReportOp(a)
  BY DEF WriteOps
<1>4. ASSUME NEW one \in WriteOps, NEW other \in WriteOps, one.id = other.id
      PROVE  one = other
  <2>1. CASE one = RunStartOp \/ one = TasksOp
    BY <1>1, <1>2, <1>3, <1>4, <2>1
  <2>2. CASE \E a \in Assignment : one = ReportOp(a)
    <3>1. PICK a \in Assignment : one = ReportOp(a)
      BY <2>2
    <3>2. one.id[1] = "worker-report" /\ one.id[2] = a
      BY <1>2, <3>1
    <3>3. PICK b \in Assignment : other = ReportOp(b)
      BY <1>1, <1>3, <1>4, <3>2
    <3>4. other.id[2] = b
      BY <1>2, <3>3
    <3>5. a = b
      BY <1>4, <3>2, <3>4
    <3> QED
      BY <3>1, <3>3, <3>5
  <2> QED
    BY <1>3, <2>1, <2>2
<1> QED
  BY <1>1, <1>2, <1>3, <1>4

\* What the steps of an operation must show for the store to stay untouched.
LEMMA BeginUntouched ==
    ASSUME StoreInv, RunInv, Progress, Untouched, gpc = "enter", ~HasPending, call.kind = "write",
           ~Unfit, Begin(Loaded, call.touch, call.id)
    PROVE  Untouched' /\ gpc' = "notes"
<1> DEFINE touch == call.touch
           new   == Rendered(Loaded, touch)
           after == Recorded(Loaded, touch, call.id)
<1>1. /\ call \in WriteOps /\ touch \in SUBSET Note /\ call.id \in OpId /\ HasState
      /\ \A n \in touch : \A t \in Links[n] : t \in touch \/ state.notes[t] # None
  BY LinksPresent
<1>2. /\ IsNotes(state.notes) /\ Plain(state.notes) /\ state.chain \in Seq(OpId) /\ Len(state.chain) \in Nat
      /\ \A n \in Note : OnDisk(state.notes, n)
  BY DEF StoreInv, GraphTypeOK, HistoryInv, Typed, Untouched
<1>3. Loaded = state.notes
  BY <1>2, PlainDisk
<1>4. /\ Inbound(Loaded, touch) = {} /\ Removals(Loaded, touch) = {}
      /\ new = after.notes /\ Plain(new)
      /\ \A n \in touch : new[n] # None
      /\ \A n \in Note \ touch : new[n] = state.notes[n]
  <2>1. PICK set, id : set = touch /\ id = call.id
    OBVIOUS
  <2>2. set \in SUBSET Note /\ \A n \in set : \A t \in Links[n] : t \in set \/ state.notes[t] # None
    BY <1>1, <2>1
  <2>3. /\ Inbound(Loaded, set) = {} /\ Removals(Loaded, set) = {}
        /\ \A n \in set : Planned(Loaded, n) = "title" /\ Current(Loaded, n) \in {"title", "nowhere"}
        /\ \A n \in set : Current(Loaded, n) = "nowhere" <=> state.notes[n] = None
        /\ Rendered(Loaded, set) = Recorded(Loaded, set, id).notes
        /\ Plain(Rendered(Loaded, set))
        /\ \A n \in set : Rendered(Loaded, set)[n] # None
        /\ \A n \in Note \ set : Rendered(Loaded, set)[n] = state.notes[n]
    BY SMTT(30), <1>2, <1>3, <2>2, PlainRendered
  <2> QED
    BY <2>1, <2>3
<1>5. touch \cup Inbound(Loaded, touch) = touch
  BY <1>4
<1>6. /\ nodes' = new /\ todo' = touch /\ files' = files \cup {"pending"}
      /\ pending' = [writes |-> [n \in touch |-> new[n]], removals |-> {}, after |-> after]
      /\ gpc' = "notes"
      /\ UNCHANGED <<disk, state, snapshot, hands, recovering, call, ret>>
  BY <1>4, <1>5 DEF Begin
<1>7. after.chain = Append(state.chain, call.id)
  BY DEF Recorded
<1> HIDE DEF new, after, touch
<1>8. /\ pending'.after = after /\ pending'.removals = {} /\ DOMAIN pending'.writes = touch
      /\ \A n \in touch : pending'.writes[n] = new[n]
      /\ HasPending' /\ HasState'
  BY <1>1, <1>6 DEF HasPending, HasState
<1>9. Len(after.chain) = Len(state.chain) + 1
  BY <1>1, <1>2, <1>7
<1>10. ASSUME NEW op \in WriteOps, InChain(after, op.id), NEW n \in op.touch
       PROVE  after.notes[n] # None
  <2>1. PICK i \in 1..Len(after.chain) : after.chain[i] = op.id
    BY <1>10 DEF InChain
  <2>2. n \in Note
    BY <1>10, WriteOpFacts
  <2>3. CASE i \in 1..Len(state.chain)
    <3>1. state.chain[i] = op.id
      BY <1>1, <1>2, <1>7, <2>1, <2>3
    <3>2. state.notes[n] # None
      BY <2>3, <3>1 DEF Untouched, Holds, InChain
    <3> QED
      BY <1>4, <2>2, <3>2
  <2>4. CASE i = Len(state.chain) + 1
    <3>1. op.id = call.id
      BY <1>1, <1>2, <1>7, <2>1, <2>4
    <3>2. op = call
      BY <1>1, <3>1, WriteOpFacts
    <3> QED
      BY <1>4, <1>10, <3>2 DEF touch
  <2> QED
    BY <1>2, <1>9, <2>1, <2>3, <2>4
<1>11. ASSUME NEW n \in Note, after.notes[n] # None
       PROVE  \E op \in WriteOps : InChain(after, op.id) /\ n \in op.touch
  <2>1. CASE n \in touch
    <3>1. after.chain[Len(after.chain)] = call.id /\ Len(after.chain) \in 1..Len(after.chain)
      BY <1>1, <1>2, <1>7, <1>9
    <3>2. InChain(after, call.id)
      BY <3>1 DEF InChain
    <3> QED
      BY <1>1, <2>1, <3>2 DEF touch
  <2>2. CASE n \notin touch
    <3>1. state.notes[n] # None
      BY <1>4, <1>11, <2>2
    <3>2. PICK op \in WriteOps : InChain(state, op.id) /\ n \in op.touch
      BY <3>1 DEF Untouched, Holds
    <3>3. PICK i \in 1..Len(state.chain) : state.chain[i] = op.id
      BY <3>2 DEF InChain
    <3>4. i \in 1..Len(after.chain) /\ after.chain[i] = op.id
      BY <1>1, <1>2, <1>7, <1>9, <3>3
    <3> QED
      BY <3>2, <3>4 DEF InChain
  <2> QED
    BY <2>1, <2>2
<1>12. Holds(after)
  BY <1>10, <1>11 DEF Holds
<1>13. snapshot.rev # Len(after.chain)
  BY <1>2, <1>9 DEF StoreInv, HistoryInv, AtRest, Lost, Typed
<1>14. ASSUME NEW n \in Note \ touch PROVE OnDisk(after.notes, n)
  BY SMTT(30), <1>2, <1>4, <1>14 DEF OnDisk
<1>15. \A n \in Note : disk[n]["hand"] = None
  BY <1>2 DEF OnDisk, Place
<1>16. state'.notes = state.notes /\ Holds(state)' /\ Plain(state.notes)
  BY <1>6 DEF Untouched, Holds, InChain
<1> QED
  BY <1>4, <1>6, <1>8, <1>13, <1>14, <1>15, <1>16, <1>12 DEF Untouched, OnDisk

LEMMA StillUntouched ==
    ASSUME Untouched, UNCHANGED <<disk, durableGraph>>, gpc' \in {"idle", "enter"}
    PROVE  Untouched'
<1>1. disk' = disk /\ files' = files /\ state' = state /\ pending' = pending /\ snapshot' = snapshot
  BY DEF durableGraph
<1>2. HasState' = HasState /\ HasPending' = HasPending
  BY <1>1 DEF HasState, HasPending
<1>3. /\ gpc' # "notes" /\ gpc' \notin {"snapshot", "unlink"} /\ gpc' # "snapshot"
      /\ Holds(state)' /\ (HasPending => Holds(pending.after)')
      /\ Plain(state.notes)' /\ (HasPending => Plain(pending.after.notes)')
      /\ ~HasPending => \A n \in Note : OnDisk(state.notes, n)'
      /\ HasPending => \A n \in Note \ DOMAIN pending.writes : OnDisk(pending.after.notes, n)'
  BY <1>1 DEF Untouched, OnDisk
<1> QED
  BY <1>1, <1>2, <1>3 DEF Untouched

LEMMA WriteNoteUntouched ==
    ASSUME StoreInv, Untouched, WriteNote
    PROVE  Untouched' /\ gpc' = "notes"
<1>1. PICK n \in todo : /\ disk' = [disk EXCEPT ![n][pending.writes[n].path] = pending.writes[n].text]
                        /\ todo' = todo \ {n}
  BY DEF WriteNote
<1>2. /\ gpc = "notes" /\ gpc' = "notes"
      /\ files' = files /\ state' = state /\ pending' = pending /\ snapshot' = snapshot
      /\ nodes' = nodes /\ recovering' = recovering
  BY DEF WriteNote, durableGraph
<1>3. HasPending /\ todo \subseteq DOMAIN pending.writes /\ todo \subseteq Note
  BY <1>2 DEF StoreInv, HistoryInv, Standing, Holding, GraphTypeOK
<1> DEFINE notes == pending.after.notes
<1>4. /\ pending.writes[n] = notes[n] /\ notes[n] # None /\ notes[n].path = "title"
      /\ \A m \in Note : disk[m]["hand"] = None
      /\ Plain(notes)
  BY <1>1, <1>3 DEF Untouched, Plain
<1>5. /\ disk = [m \in Note |-> disk[m]] /\ \A m \in Note : disk[m] = [p \in Place |-> disk[m][p]]
  BY DEF StoreInv, GraphTypeOK
<1>6. /\ \A m \in Note \ {n} : disk'[m] = disk[m]
      /\ disk'[n] = [disk[n] EXCEPT !["title"] = notes[n].text]
  BY <1>1, <1>3, <1>4, <1>5
<1>7. disk'[n] = [p \in Place |-> IF p = "title" THEN notes[n].text ELSE None]
  BY <1>1, <1>3, <1>4, <1>5, <1>6 DEF Place
<1>8. \A m \in Note \ todo' : OnDisk(notes, m)'
  <2> SUFFICES ASSUME NEW m \in Note, m \notin todo' PROVE OnDisk(notes, m)'
    OBVIOUS
  <2>1. CASE m = n
    BY <1>2, <1>4, <1>7, <2>1 DEF OnDisk
  <2>2. CASE m # n
    <3>1. OnDisk(notes, m) /\ disk'[m] = disk[m]
      BY <1>1, <1>2, <1>6, <2>2 DEF Untouched
    <3> QED
      BY <1>2, <3>1 DEF OnDisk
  <2> QED
    BY <2>1, <2>2
<1>9. \A m \in Note : disk'[m]["hand"] = None
  BY <1>4, <1>6, <1>7 DEF Place
<1>10. \A m \in Note \ DOMAIN pending.writes : OnDisk(notes, m)'
  BY <1>1, <1>3, <1>8
<1>11. HasPending' /\ HasPending /\ HasState' = HasState
  BY <1>2, <1>3 DEF HasPending, HasState
<1>12. Holds(state)' /\ Holds(pending.after)' /\ Plain(state.notes)' /\ Plain(notes)'
  BY <1>2, <1>3 DEF Untouched
<1>13. /\ pending.removals = {}
       /\ \A m \in DOMAIN pending.writes : pending.writes[m] = notes[m] /\ notes[m] # None
       /\ snapshot.rev = Len(pending.after.chain) => snapshot.notes = notes
       /\ ~recovering => nodes = notes
       /\ ~HasState => state.notes = NoNotes
  BY <1>2, <1>3 DEF Untouched
<1> QED
  BY <1>2, <1>8, <1>9, <1>10, <1>11, <1>12, <1>13 DEF Untouched

LEMMA WriteStateUntouched ==
    ASSUME StoreInv, Untouched, WriteState
    PROVE  Untouched' /\ gpc' = "snapshot"
<1> DEFINE notes == pending.after.notes
<1>1. /\ gpc = "notes" /\ todo = {} /\ state' = pending.after
      /\ disk' = disk /\ files' = files /\ pending' = pending /\ snapshot' = snapshot
  BY DEF WriteState
<1>2. HasPending /\ HasPending' /\ HasState /\ HasState'
  BY <1>1 DEF StoreInv, HistoryInv, Standing, Unborn, HasPending, HasState
<1>3. Plain(notes) /\ IsNotes(notes) /\ \A n \in Note : OnDisk(notes, n)
  BY <1>1, <1>2 DEF Untouched, StoreInv, GraphTypeOK
<1>4. Loaded = notes /\ ~Duplicate
  BY <1>3, PlainDisk
<1>5. gpc' = "snapshot" /\ nodes' = notes
  BY <1>1, <1>4 DEF WriteState, Untouched
<1>6. /\ \A n \in Note : OnDisk(notes, n)'
      /\ Plain(state.notes)' /\ Plain(notes)' /\ Holds(state)' /\ Holds(pending.after)'
  <2>1. \A n \in Note : OnDisk(notes, n)'
    BY <1>1, <1>3 DEF OnDisk
  <2>2. Holds(pending.after)
    BY <1>2 DEF Untouched
  <2> QED
    BY <1>1, <1>3, <2>1, <2>2
<1>7. /\ pending.removals = {}
      /\ \A n \in DOMAIN pending.writes : pending.writes[n] = notes[n] /\ notes[n] # None
      /\ \A n \in Note : disk[n]["hand"] = None
      /\ snapshot.rev = Len(pending.after.chain) => snapshot.notes = notes
  BY <1>2 DEF Untouched
<1>8. state'.notes = notes
  BY <1>1
<1>9. \A n \in Note : OnDisk(state.notes, n)'
  BY <1>1, <1>6, <1>8 DEF OnDisk
<1> QED
  BY <1>1, <1>2, <1>5, <1>6, <1>7, <1>8, <1>9 DEF Untouched

\* A snapshot of an untouched graph is refused only when the very first was lost.
LEMMA WriteSnapshotUntouched ==
    ASSUME StoreInv, Untouched, WriteSnapshot
    PROVE  /\ Untouched'
           /\ gpc' = "unlink" \/ (gpc' = "idle" /\ ret' = "raised" /\ snapshot'.rev = -1)
<1>1. gpc = "snapshot" /\ HasState /\ (HasPending => state = pending.after)
  BY DEF WriteSnapshot, StoreInv, HistoryInv, Standing
<1>2. nodes = state.notes /\ Plain(state.notes) /\ \A n \in Note : OnDisk(state.notes, n)
  BY <1>1 DEF Untouched
<1>3. Materializes(state, nodes)
  <2>1. ASSUME NEW n \in Note, state.notes[n] # None, NEW t \in Links[n]
        PROVE  state.notes[t] # None /\ state.notes[n].text.shows[t] = state.notes[t].path
    BY <1>2, <2>1, LinksInOrder DEF Plain
  <2> QED
    BY <1>2, <2>1 DEF Materializes
<1>4. Rev(state) = Len(state.chain) /\ Len(state.chain) \in Nat
  BY DEF Rev, StoreInv, HistoryInv, Typed
<1>5. Publishable(state, nodes) \/ snapshot.rev = -1
  <2>1. CASE HasPending
    <3>1. snapshot.rev = Rev(state) => snapshot.notes = nodes
      BY <1>1, <1>2, <1>4, <2>1 DEF Untouched
    <3>2. snapshot.rev \in {Rev(state) - 1, Rev(state)} \/ snapshot.rev = -1
      BY <1>1, <1>4, <2>1 DEF StoreInv, HistoryInv, InTransaction
    <3> QED
      BY <1>3, <3>1, <3>2 DEF Publishable
  <2>2. CASE ~HasPending
    BY <1>1, <2>2 DEF Untouched, Lost
  <2> QED
    BY <2>1, <2>2
<1>6. CASE ~Publishable(state, nodes)
  <2>1. Return("raised")
    BY <1>6 DEF WriteSnapshot
  <2>2. gpc' = "idle" /\ ret' = "raised" /\ UNCHANGED <<disk, durableGraph>>
    BY <2>1 DEF Return, Idle
  <2>3. snapshot' = snapshot
    BY <2>2 DEF durableGraph
  <2> QED
    BY <1>5, <1>6, <2>2, <2>3, StillUntouched
<1>7. CASE Publishable(state, nodes)
  <2>1. /\ snapshot' = [rev |-> Rev(state), notes |-> nodes] /\ gpc' = "unlink"
        /\ UNCHANGED <<disk, files, state, pending, hands, recovering, nodes, todo, call, ret>>
    BY <1>7 DEF WriteSnapshot
  <2>2. HasState' = HasState /\ HasPending' = HasPending
    BY <2>1 DEF HasState, HasPending
  <2>3. HasPending => snapshot'.notes = pending.after.notes
    BY <1>1, <1>2, <2>1
  <2>4. /\ Holds(state)' /\ (HasPending => Holds(pending.after)')
        /\ Plain(state.notes)' /\ (HasPending => Plain(pending.after.notes)')
        /\ \A n \in Note : OnDisk(state.notes, n)'
        /\ HasPending => \A n \in Note \ DOMAIN pending.writes : OnDisk(pending.after.notes, n)'
    BY <1>2, <2>1 DEF Untouched, OnDisk
  <2> QED
    BY <1>1, <1>2, <2>1, <2>2, <2>3, <2>4 DEF Untouched
<1> QED
  BY <1>6, <1>7

LEMMA SettleUntouched ==
    ASSUME StoreInv, Untouched, Settle
    PROVE  Untouched' /\ ~HasPending' /\ (gpc' = "idle" => ret' # "raised")
<1>1. /\ gpc = "unlink" /\ gpc' \in {"idle", "enter"} /\ ~HasPending' /\ HasState' = HasState
      /\ disk' = disk /\ state' = state
  BY DEF Settle, Idle, HasPending, HasState
<1>2. Plain(state.notes) /\ Holds(state) /\ \A n \in Note : OnDisk(state.notes, n)
  BY <1>1 DEF Untouched
<1>3. /\ Plain(state.notes)' /\ Holds(state)' /\ \A n \in Note : OnDisk(state.notes, n)'
  BY <1>1, <1>2 DEF OnDisk
<1>4. ~HasState => state.notes = NoNotes
  BY DEF Untouched
<1>5. gpc' = "idle" => ret' # "raised"
  BY <1>1 DEF Settle, Idle
<1> QED
  BY <1>1, <1>3, <1>4, <1>5 DEF Untouched

LEMMA StoreUntouched ==
    ASSUME StoreInv, RunInv, Progress, Untouched, GraphStep
    PROVE  /\ Untouched'
           /\ gpc' = "idle" => \/ ret' # "raised" /\ ~HasPending'
                               \/ ret' = "raised" /\ snapshot'.rev = -1
                               \/ /\ ret' = "raised" /\ ~HasPending /\ UNCHANGED durableGraph
                                  /\ pc = "integrate" /\ Clashes(current)
<1>1. CASE Enter
  <2>1. gpc = "enter"
    BY <1>1, EnterAs
  <2>2. CASE HasPending /\ Recover
    <3>1. /\ disk' = disk /\ files' = files /\ state' = state /\ pending' = pending /\ snapshot' = snapshot
          /\ gpc' = "notes" /\ recovering' = TRUE /\ todo' = DOMAIN pending.writes /\ HasPending
          /\ HasPending' = HasPending /\ HasState' = HasState
      BY <2>2 DEF Recover, durableGraph, HasPending, HasState
    <3>2. /\ Holds(state)' /\ Holds(pending.after)' /\ Plain(state.notes)' /\ Plain(pending.after.notes)'
          /\ \A n \in Note \ DOMAIN pending.writes : OnDisk(pending.after.notes, n)'
      BY <3>1 DEF Untouched, OnDisk
    <3>3. /\ pending.removals = {}
          /\ \A n \in DOMAIN pending.writes :
               pending.writes[n] = pending.after.notes[n] /\ pending.after.notes[n] # None
          /\ \A n \in Note : disk[n]["hand"] = None
          /\ snapshot.rev = Len(pending.after.chain) => snapshot.notes = pending.after.notes
          /\ ~HasState => state.notes = NoNotes
      BY <3>1 DEF Untouched
    <3> QED
      BY <3>1, <3>2, <3>3 DEF Untouched
  <2>3. ASSUME ~HasPending, NEW value \in {"already", "nothing"}, Return(value)
        PROVE  Untouched' /\ gpc' = "idle" /\ ret' # "raised" /\ ~HasPending'
    <3>1. gpc' = "idle" /\ ret' # "raised" /\ UNCHANGED <<disk, durableGraph>>
      BY <2>3 DEF Return, Idle
    <3> QED
      BY <2>3, <3>1, StillUntouched DEF durableGraph, HasPending
  <2>4. CASE ~HasPending /\ Return("raised") /\ pc = "integrate" /\ Clashes(current)
    <3>1. gpc' = "idle" /\ ret' = "raised" /\ UNCHANGED <<disk, durableGraph>>
      BY <2>4 DEF Return, Idle
    <3>2. Untouched'
      BY <3>1, StillUntouched
    <3> QED
      BY <2>4, <3>1, <3>2
  <2>5. CASE /\ ~HasPending /\ ~HasState
             /\ files' = files \cup {"state"} /\ state' = EmptyState /\ gpc' = "snapshot"
             /\ UNCHANGED <<disk, pending, snapshot, hands, recovering, nodes, todo, call, ret>>
    <3>1. HasState' /\ ~HasPending'
      BY <2>5 DEF HasPending, HasState
    <3>2. /\ state.notes = NoNotes /\ state'.notes = NoNotes /\ state'.chain = <<>>
          /\ nodes' = NoNotes /\ Lost
      BY <1>1, <2>5, EnterAs DEF EmptyState, Untouched, StoreInv, HistoryInv, Unborn
    <3>3. /\ \A n \in Note : OnDisk(state.notes, n)'
          /\ Plain(state.notes)'
      BY <2>5, <3>2, NoNotesTyped DEF Untouched, OnDisk, Plain
    <3>4. Holds(state)'
      <4>1. Len(state'.chain) = 0
        BY <3>2
      <4> QED
        BY <3>2, <4>1, NoNotesTyped DEF Holds, InChain
    <3>5. Lost'
      BY <2>5, <3>2 DEF Lost
    <3> QED
      BY <2>5, <3>1, <3>2, <3>3, <3>4, <3>5 DEF Untouched
  <2>6. CASE ~HasPending /\ call.kind = "write" /\ ~Unfit /\ Begin(Loaded, call.touch, call.id)
    BY <2>1, <2>6, BeginUntouched
  <2> QED
    BY <1>1, <2>2, <2>3, <2>5, <2>6, <2>4, EnterUntouched DEF Recover
<1>2. CASE WriteNote
  BY <1>2, WriteNoteUntouched
<1>3. CASE RemoveNote
  <2>1. gpc = "notes" /\ \E r \in Unlinked : r \in pending.removals
    BY <1>3 DEF RemoveNote, Unlinked
  <2>2. pending.removals = {}
    BY <2>1 DEF Untouched, StoreInv, HistoryInv, Standing
  <2> QED
    BY <2>1, <2>2
<1>4. CASE WriteState
  BY <1>4, WriteStateUntouched
<1>5. CASE WriteSnapshot
  BY <1>5, WriteSnapshotUntouched
<1>6. CASE Settle
  BY <1>6, SettleUntouched
<1> QED
  BY <1>1, <1>2, <1>3, <1>4, <1>5, <1>6 DEF GraphStep

\* As long as the graph is untouched, an operation raises only when the first snapshot
\* was lost or a report clashes with the others, and leaves a transaction behind only when the process dies.
LEMMA UntouchedKept ==
    ASSUME BaseInv, Progress, hands = 0 => Untouched /\ Returned, [Next]_vars
    PROVE  hands' = 0 => Untouched' /\ Returned'
<1>0. StoreInv /\ RunInv /\ RunTyped /\ RunPlaces /\ hands \in Nat
  BY DEF BaseInv, RunInv, StoreInv, GraphTypeOK
<1>1. CASE Hand
  BY <1>0, <1>1 DEF Hand
<1> SUFFICES ASSUME hands' = 0, ~Hand PROVE Untouched' /\ Returned'
  BY <1>1
<1>2. CASE GraphStep /\ UNCHANGED <<vaultVars, runVars>>
  <2>1. hands = 0
    BY <1>2, StepFrame
  <2>2. Untouched /\ Returned
    BY <2>1
  <2>3. /\ Untouched'
        /\ gpc' = "idle" => \/ ret' # "raised" /\ ~HasPending'
                            \/ ret' = "raised" /\ snapshot'.rev = -1
                            \/ /\ ret' = "raised" /\ ~HasPending /\ UNCHANGED durableGraph
                               /\ pc = "integrate" /\ Clashes(current)
    BY <1>0, <1>2, <2>2, StoreUntouched
  <2>4. UNCHANGED durableGraph => Chain' = Chain /\ HasPending' = HasPending /\ snapshot' = snapshot
    BY DEF durableGraph, Chain, HasPending
  <2>5. pc' = pc /\ current' = current
    BY <1>2 DEF runVars
  <2>6. UNCHANGED durableGraph /\ Clashes(current) => Clashes(current)'
    BY <2>4, <2>5 DEF Clashes, Published
  <2> QED
    BY <2>3, <2>4, <2>5, <2>6 DEF Returned
<1>3. ASSUME UNCHANGED graphVars,
             hands = 0 => (gpc = "idle" /\ HasPending => pc' = pc \/ pc' \in {"down", "open", "reconcile"}),
             ret = "raised" => UNCHANGED <<pc, current>>
      PROVE  Untouched' /\ Returned'
  <2>1. /\ disk' = disk /\ files' = files /\ state' = state /\ pending' = pending /\ snapshot' = snapshot
        /\ hands' = hands /\ gpc' = gpc /\ recovering' = recovering /\ nodes' = nodes /\ todo' = todo
        /\ ret' = ret
    BY <1>3 DEF graphVars, durableGraph, callVars
  <2>2. HasPending' = HasPending /\ HasState' = HasState
    BY <2>1 DEF HasPending, HasState
  <2>3. Untouched /\ Returned /\ hands = 0
    BY <2>1
  <2>4. Untouched'
    BY <2>1, <2>2, <2>3 DEF Untouched, OnDisk, Lost
  <2>5. Chain' = Chain
    BY <2>1, <2>2 DEF Chain
  <2>6. current' = current /\ Clashes(current) => Clashes(current)'
    BY <2>1, <2>5 DEF Clashes, Published
  <2> QED
    BY <1>3, <2>1, <2>2, <2>3, <2>4, <2>6 DEF Returned
<1>4. ASSUME Forget, UNCHANGED <<disk, durableGraph, hands>>,
             hands = 0 => (HasPending => pc' \in {"down", "open", "reconcile"})
      PROVE  Untouched' /\ Returned'
  <2>1. hands = 0 /\ Untouched /\ gpc' = "idle" /\ ret' = NoReturn
    BY <1>4 DEF Forget, Idle
  <2>2. HasPending' = HasPending
    BY <1>4 DEF durableGraph, HasPending
  <2>3. Untouched'
    BY <1>4, <2>1, StillUntouched
  <2> QED
    BY <1>4, <2>1, <2>2, <2>3 DEF Returned, NoReturn
<1>5. CASE Gone
  BY <1>4, <1>5 DEF Gone
<1>6. Crash => Gone
  BY DEF Crash
<1>7. CASE GraphCall
  <2>1. gpc' = "enter" /\ UNCHANGED <<disk, durableGraph, hands>>
    BY <1>7 DEF GraphCall, Call
  <2>2. Untouched
    BY <2>1
  <2>3. Untouched'
    BY <2>1, <2>2, StillUntouched
  <2> QED
    BY <2>1, <2>3 DEF Returned
<1>8. ASSUME gpc = "idle", ret = NoReturn, pc \notin {"down", "open", "reconcile"}, hands = 0
      PROVE  ~HasPending
  BY <1>8 DEF Returned, NoReturn
<1>9. CASE Validate \/ TaskAdmitted \/ Freeze \/ Decide \/ Collect \/ FindingAdmitted \/ TaskClosed \/ Accept
  <2>1. CASE Gone
    BY <1>5, <2>1
  <2>2. CASE ~Gone
    <3>1. Forget /\ UNCHANGED <<disk, durableGraph, hands>>
      BY <1>9, <2>2 DEF Validate, TaskAdmitted, Freeze, Decide, Collect, FindingAdmitted, TaskClosed, Accept, Go, Refuse
    <3>2. pc \in {"validate", "admit", "decide", "collect", "finding", "status", "accept"}
      BY <1>9 DEF Validate, TaskAdmitted, Freeze, Decide, Collect, FindingAdmitted, TaskClosed, Accept
    <3>3. gpc = "idle" /\ ret = NoReturn
      BY <1>0, <3>2 DEF RunPlaces, Calling
    <3>4. hands = 0 => ~HasPending
      BY <1>8, <3>2, <3>3
    <3> QED
      BY <1>4, <3>1, <3>4
  <2> QED
    BY <2>1, <2>2
<1>10. CASE GraphReturn
  <2>1. CASE Refuse("graph")
    BY <1>5, <2>1 DEF Refuse
  <2>2. CASE ~Refuse("graph")
    <3>1. ret \notin {NoReturn, "raised"} /\ Forget /\ UNCHANGED <<disk, durableGraph, hands>>
      BY <1>10, <2>2 DEF GraphReturn, Go
    <3>2. ~HasPending
      BY <3>1 DEF Progress
    <3> QED
      BY <1>4, <3>1, <3>2
  <2> QED
    BY <2>1, <2>2
<1>11. CASE Record
  <2>1. CASE Gone
    BY <1>5, <2>1
  <2>2. CASE ~Gone
    <3>1. /\ pc = "integrate" /\ gpc = "idle" /\ ret # NoReturn
          /\ Forget /\ UNCHANGED <<disk, durableGraph, hands>>
      BY <1>11, <2>2 DEF Record, Go, Refuse
    <3>2. snapshot.rev # -1
      <4>1. Published(RunStartOp.id)
        BY <3>1 DEF Progress, Settled, Accepting
      <4> QED
        BY <4>1 DEF Published
    <3>3. hands = 0 => ~HasPending
      BY <3>1, <3>2 DEF Progress, Returned
    <3> QED
      BY <1>4, <3>1, <3>3
  <2> QED
    BY <2>1, <2>2
<1>12. Start => UNCHANGED graphVars /\ pc' \in {"down", "open", "reconcile"} /\ ret # "raised"
  BY <1>0 DEF Start, RunPlaces, NoReturn
<1>13. AdmitTask \/ AdmitReport \/ CloseTask \/ (VaultStep /\ UNCHANGED <<graphVars, runVars>>)
         \/ UNCHANGED vars => UNCHANGED graphVars /\ UNCHANGED <<pc, current>>
  BY DEF AdmitTask, AdmitReport, CloseTask, vars, runVars
<1>14. Upset => UNCHANGED graphVars /\ UNCHANGED <<pc, current>>
  BY DEF Upset, runVars
<1> QED
  BY <1>2, <1>3, <1>5, <1>6, <1>7, <1>9, <1>10, <1>11, <1>12, <1>13, <1>14 DEF Next, RunStep

(* What the vault keeps. -------------------------------------------------------------*)

\* A finding is there, or a note under its title is that takes its place.
Stored(notes, what, title, marks) ==
    \E note \in notes :
        \/ note.what = what
        \/ /\ note.title = title
           /\ RunMark \in note.marks \/ (OtherMark \in note.marks /\ note.marks \cap marks # {})

KeptFinding(notes, a, i) ==
    Stored(notes, <<"finding", a, i>>, Title(asked[a][i]), FindingMarks(decided[a]))

Kept(notes, a) == \A i \in 1..Len(asked[a]) : KeptFinding(notes, a, i)

\* As long as no human has edited the vault.
Seen ==
    /\ \A a \in DOMAIN admitted : TakenIn(vault, admitted[a])
    /\ decided # None => \A a \in Assignment : TakenIn(vault, decided[a])
    /\ pc = "admit" /\ vret # Absent => TakenIn(vault, vret)
    /\ \A a \in accepted : Kept(vault, a)
    /\ pc \in {"status", "integrate", "accept"} => Kept(vault, current)
    /\ pc = "finding" => \A i \in 1..told : KeptFinding(vault, current, i)
    /\ pc = "finding" /\ vret # Absent => KeptFinding(vault, current, told + 1)
    /\ pc = "finding" /\ vpc # "idle" => txn.note.what = <<"finding", current, told + 1>>
    /\ vret # Raised

LEMMA CoveredTitles ==
    ASSUME NEW new, NEW old, Covers(new, old), NEW title, TakenIn(old, title)
    PROVE  TakenIn(new, title)
BY DEF Covers, TakenIn

LEMMA CoveredStored ==
    ASSUME NEW new, NEW old, Covers(new, old), NEW what, NEW title, NEW marks,
           Stored(old, what, title, marks)
    PROVE  Stored(new, what, title, marks)
<1>1. PICK o \in old : \/ o.what = what
                       \/ /\ o.title = title
                          /\ RunMark \in o.marks \/ (OtherMark \in o.marks /\ o.marks \cap marks # {})
  BY DEF Stored
<1>2. PICK n \in new : n.title = o.title /\ n.what = o.what /\ o.marks \subseteq n.marks
  BY DEF Covers
<1>3. n.marks \cap marks = {} => o.marks \cap marks = {}
  BY <1>2
<1> QED
  BY <1>1, <1>2, <1>3 DEF Stored

LEMMA SeenKept ==
    ASSUME BaseInv, BaseInv', edits = 0 => Seen, [Next]_vars
    PROVE  edits' = 0 => Seen'
<1>0. VaultInv /\ VaultInv' /\ RunInv /\ RunTyped /\ RunPlaces
  BY DEF BaseInv, RunInv
<1> SUFFICES ASSUME edits' = 0 PROVE Seen'
  OBVIOUS
<1>1. edits = 0 /\ Covers(vault', vault)
  BY <1>0, VaultKept DEF VaultInv
<1>2. Seen
  BY <1>1
<1>3. /\ asked' = asked
      /\ decided # None => decided' = decided
  <2>1. asked' = asked /\ (decided' = decided \/ pc = "decide")
    BY DEF Next, vars, Start, Crash, Gone, RunStep, GraphCall, GraphReturn, Validate, AdmitTask,
           TaskAdmitted, Freeze, Decide, Collect, AdmitReport, CloseTask, FindingAdmitted, TaskClosed,
           Record, Accept, Upset, runVars, Refuse, Go, Keep
  <2> QED
    BY <1>0, <2>1 DEF RunPlaces
<1>4. /\ \A title : TakenIn(vault, title) => TakenIn(vault', title)
      /\ decided # None => \A a, i : KeptFinding(vault, a, i) => KeptFinding(vault, a, i)'
      /\ decided # None => \A a : Kept(vault, a) => Kept(vault, a)'
  <2>1. \A title : TakenIn(vault, title) => TakenIn(vault', title)
    BY <1>1, CoveredTitles
  <2>2. ASSUME decided # None, NEW a, NEW i, KeptFinding(vault, a, i)
        PROVE  KeptFinding(vault, a, i)'
    <3>1. Stored(vault', <<"finding", a, i>>, Title(asked[a][i]), FindingMarks(decided[a]))
      BY <1>1, <2>2, CoveredStored DEF KeptFinding
    <3> QED
      BY <1>3, <2>2, <3>1 DEF KeptFinding, Stored
  <2>3. ASSUME decided # None, NEW a, Kept(vault, a)
        PROVE  Kept(vault, a)'
    BY <1>3, <2>2, <2>3 DEF Kept
  <2> QED
    BY <2>1, <2>2, <2>3
<1>5. /\ \A a \in DOMAIN admitted : TakenIn(vault', admitted[a])
      /\ decided # None => \A a \in Assignment : TakenIn(vault', decided[a])
      /\ \A a \in accepted : Kept(vault, a)'
      /\ pc \in {"status", "integrate", "accept"} => \A a : a = current => Kept(vault, a)'
      /\ pc = "finding" => \A a : a = current => \A i \in 1..told : KeptFinding(vault, a, i)'
      /\ pc = "finding" /\ vret # Absent =>
            \A a, i : a = current /\ i = told + 1 => KeptFinding(vault, a, i)'
      /\ pc = "admit" /\ vret # Absent => TakenIn(vault', vret)
  <2>1. accepted # {} \/ pc \in {"finding", "status", "integrate", "accept"} => decided # None
    BY <1>0 DEF RunPlaces, Accepting
  <2>2. \A a \in DOMAIN admitted : TakenIn(vault', admitted[a])
    BY <1>2, <1>4 DEF Seen
  <2>3. decided # None => \A a \in Assignment : TakenIn(vault', decided[a])
    BY <1>2, <1>4 DEF Seen
  <2>4. \A a \in accepted : Kept(vault, a)'
    BY <1>2, <1>4, <2>1 DEF Seen
  <2>5. pc \in {"status", "integrate", "accept"} => \A a : a = current => Kept(vault, a)'
    BY <1>2, <1>4, <2>1 DEF Seen
  <2>6. pc = "finding" => \A a : a = current => \A i \in 1..told : KeptFinding(vault, a, i)'
    BY <1>2, <1>4, <2>1 DEF Seen
  <2>7. pc = "finding" /\ vret # Absent =>
            \A a, i : a = current /\ i = told + 1 => KeptFinding(vault, a, i)'
    BY <1>2, <1>4, <2>1 DEF Seen
  <2>8. pc = "admit" /\ vret # Absent => TakenIn(vault', vret)
    BY <1>2, <1>4 DEF Seen
  <2> QED
    BY <2>2, <2>3, <2>4, <2>5, <2>6, <2>7, <2>8
<1>6. /\ \A a : a = current' => (Kept(vault, current)' <=> Kept(vault, a)')
      /\ \A a, i : a = current' => (KeptFinding(vault, current, i)' <=> KeptFinding(vault, a, i)')
      /\ \A a, i : a = current' /\ i = told' + 1 =>
                       (KeptFinding(vault, current, told + 1)' <=> KeptFinding(vault, a, i)')
  BY DEF Kept, KeptFinding
\* The vault's own place and the run's do not move.
<1>7. CASE UNCHANGED <<runVars, vpc, vret>> /\ (vpc # "idle" => txn' = txn)
  <2>1. /\ admitted' = admitted /\ decided' = decided /\ accepted' = accepted /\ pc' = pc
        /\ current' = current /\ told' = told /\ vpc' = vpc /\ vret' = vret
    BY <1>7 DEF runVars
  <2>2. /\ pc' \in {"status", "integrate", "accept"} => Kept(vault, current)'
        /\ pc' = "finding" => \A i \in 1..told' : KeptFinding(vault, current, i)'
        /\ pc' = "finding" /\ vret' # Absent => KeptFinding(vault, current, told + 1)'
    BY <1>5, <1>6, <2>1
  <2> QED
    BY <1>2, <1>5, <1>7, <2>1, <2>2 DEF Seen, TakenIn
<1>8. ASSUME vpc' = "idle", vret' = Absent, Absent # Raised,
             \A a \in DOMAIN admitted' : TakenIn(vault', admitted'[a]),
             decided' # None => \A a \in Assignment : TakenIn(vault', decided'[a]),
             \A a \in accepted' : Kept(vault, a)',
             pc' \in {"status", "integrate", "accept"} => Kept(vault, current)',
             pc' = "finding" => \A i \in 1..told' : KeptFinding(vault, current, i)'
      PROVE  Seen'
  BY <1>8 DEF Seen, TakenIn
<1>9. Absent # Raised
  BY NothingIsNoValue
<1>10. CASE Gone
  <2>1. /\ pc' = "down" /\ vpc' = "idle" /\ vret' = Absent /\ DOMAIN admitted' = {}
        /\ decided' = decided /\ accepted' = accepted
    BY <1>10 DEF Gone, VaultForget, NoTitles
  <2> QED
    BY <1>5, <1>8, <1>9, <2>1
<1>11. CASE Start
  <2>1. /\ vpc' = "idle" /\ vret' = Absent /\ pc' \in {"down", "open", "reconcile"}
        /\ admitted' = admitted /\ decided' = decided /\ accepted' = accepted
    BY <1>0, <1>11 DEF Start, RunPlaces
  <2> QED
    BY <1>5, <1>8, <1>9, <2>1
<1>12. CASE AdmitTask
  <2>1. pc = "admit" /\ UNCHANGED runVars
        /\ Admit(<<"task", NextTask, 0>>, TaskTitle[NextTask], {RunMark, CoordinatorMark})
    BY <1>12 DEF AdmitTask
  <2>2. NextTask \in Assignment /\ NextTask \in Nat
    BY <1>0, <1>12, NextTaskFacts DEF AdmitTask
  <2>3. TaskTitle[NextTask] \in Bases /\ <<"task", NextTask, 0>> \in {"task", "finding", "other"} \X Nat \X Nat
    BY <2>2, RunTitlesAre
  <2>4. {RunMark, CoordinatorMark} \in SUBSET Marks(Bases)
    BY DEF Marks
  <2>5. \/ /\ vpc' = "idle" /\ vret' = Title(TaskTitle[NextTask])
           /\ \E note \in vault' : note.title = Title(TaskTitle[NextTask])
        \/ vpc' = "replace" /\ vret' = Absent
    <3>1. /\ edits' = edits /\ foreign' = foreign
          /\ \/ vpc' = "idle" /\ vret' = Raised /\ edits > 0 /\ UNCHANGED <<vault, txn>>
             \/ /\ vpc' = "idle" /\ vret' = Title(TaskTitle[NextTask]) /\ vault' = Recovered /\ txn' = Absent
                /\ \E note \in vault' : /\ note.title = Title(TaskTitle[NextTask])
                                        /\ note.marks \cap {RunMark, CoordinatorMark} # {}
             \/ /\ vpc' = "replace" /\ vret' = Absent /\ vault' = Recovered /\ txn' # Absent
                /\ txn'.note = [title |-> FreeTitle(Recovered, TaskTitle[NextTask]),
                                what |-> <<"task", NextTask, 0>>,
                                marks |-> {RunMark, CoordinatorMark}, hand |-> FALSE]
                /\ Prior(Recovered, TaskTitle[NextTask], {RunMark, CoordinatorMark}) = {}
      BY <1>0, <2>1, <2>3, <2>4, TaskMarked, AdmitVault
    <3>2. ~(edits > 0)
      BY <1>1
    <3> QED
      BY <3>1, <3>2
  <2>6. vret' # Raised /\ (vret' # Absent => TakenIn(vault', vret'))
    <3>1. Title(TaskTitle[NextTask]) \in Titles(Bases)
      BY <2>2, RunTitlesAre DEF VTitles
    <3> QED
      BY <2>5, <3>1, NothingIsNoValue DEF TakenIn
  <2>7. /\ admitted' = admitted /\ decided' = decided /\ accepted' = accepted /\ pc' = pc
    BY <2>1 DEF runVars
  <2> QED
    BY <1>5, <2>1, <2>6, <2>7 DEF Seen, TakenIn
<1>13. CASE AdmitReport
  <2> DEFINE base  == asked[current][told + 1]
             marks == {RunMark} \cup FindingMarks(decided[current])
             what  == <<"finding", current, told + 1>>
  <2>1. pc = "finding" /\ UNCHANGED runVars /\ Admit(what, base, marks)
    BY <1>13 DEF AdmitReport
  <2>2. /\ decided[current] \in VTitles /\ base \in Bases
        /\ what \in {"task", "finding", "other"} \X Nat \X Nat
        /\ marks \in SUBSET Marks(Bases) /\ Marked(marks)
    BY <1>0, <2>1, FindingFacts
  <2>3. \/ /\ vpc' = "idle" /\ vret' = Title(base)
           /\ \E note \in vault' : note.title = Title(base) /\ note.marks \cap marks # {}
        \/ vpc' = "replace" /\ vret' = Absent /\ txn'.note.what = what
    <3> HIDE DEF base, marks, what
    <3>1. /\ edits' = edits /\ foreign' = foreign
          /\ \/ vpc' = "idle" /\ vret' = Raised /\ edits > 0 /\ UNCHANGED <<vault, txn>>
             \/ /\ vpc' = "idle" /\ vret' = Title(base) /\ vault' = Recovered /\ txn' = Absent
                /\ \E note \in vault' : /\ note.title = Title(base)
                                        /\ note.marks \cap marks # {}
             \/ /\ vpc' = "replace" /\ vret' = Absent /\ vault' = Recovered /\ txn' # Absent
                /\ txn'.note = [title |-> FreeTitle(Recovered, base), what |-> what,
                                marks |-> marks, hand |-> FALSE]
                /\ Prior(Recovered, base, marks) = {}
      BY <1>0, <2>1, <2>2, AdmitVault
    <3>2. ~(edits > 0)
      BY <1>1
    <3> QED
      BY <3>1, <3>2
  <2>4. /\ admitted' = admitted /\ decided' = decided /\ accepted' = accepted /\ pc' = pc
        /\ current' = current /\ told' = told
    BY <2>1 DEF runVars
  <2>5. \A i \in 1..told' : KeptFinding(vault, current, i)'
    BY <1>5, <1>6, <2>1, <2>4
  <2>6. CASE vpc' = "idle" /\ vret' = Title(base)
    <3>1. PICK note \in vault' : note.title = Title(base) /\ note.marks \cap marks # {}
      BY <2>3, <2>6, NothingIsNoValue, <2>2 DEF Title, Titles
    <3>2. \/ RunMark \in note.marks
          \/ OtherMark \in note.marks /\ note.marks \cap FindingMarks(decided[current]) # {}
      <4>1. Ours(note)
        BY <1>0, <3>1 DEF VaultInv
      <4> QED
        BY <2>2, <3>1, <4>1 DEF Ours, Marked
    <3>3. Stored(vault', what, Title(base), FindingMarks(decided[current]))
      BY <3>1, <3>2 DEF Stored
    <3>4. KeptFinding(vault, current, told + 1)'
      BY <1>3, <2>4, <3>3 DEF KeptFinding
    <3>5. vret' # Raised
      <4>1. Title(base) \in Titles(Bases)
        BY <2>2 DEF Title, Titles
      <4> QED
        BY <2>6, <4>1, NothingIsNoValue
    <3> QED
      BY <1>5, <2>1, <2>4, <2>5, <2>6, <3>4, <3>5 DEF Seen, TakenIn
  <2>7. CASE vpc' = "replace" /\ vret' = Absent /\ txn'.note.what = what
    BY <1>5, <1>9, <2>1, <2>4, <2>5, <2>7 DEF Seen, TakenIn
  <2> QED
    BY <2>3, <2>6, <2>7
<1>14. CASE CloseTask
  <2>1. pc = "status" /\ UNCHANGED runVars /\ UpdateStatus(decided[current], {RunMark, CompletedMark})
    BY <1>14 DEF CloseTask
  <2>2. current \in Assignment /\ decided \in [Assignment -> RunTitles] /\ decided # None
    BY <1>0, <2>1 DEF RunPlaces, RunTyped, Accepting
  <2>3. decided[current] \in VTitles
    BY <2>2, RunTitlesAre
  <2>4. {RunMark, CompletedMark} \in SUBSET Marks(Bases) /\ RunMark \in {RunMark, CompletedMark}
    BY DEF Marks
  <2>5. TakenIn(Recovered, decided[current])
    <3>1. TakenIn(vault, decided[current]) /\ Covers(Recovered, vault)
      BY <1>0, <1>2, <2>2, RecoveredFacts DEF Seen
    <3> QED
      BY <3>1, CoveredTitles
  <2>6. vpc' = "replace" /\ vret' = Absent
    BY <1>0, <1>1, <2>1, <2>3, <2>4, <2>5, StatusVault
  <2>7. /\ admitted' = admitted /\ decided' = decided /\ accepted' = accepted /\ pc' = pc
        /\ current' = current
    BY <2>1 DEF runVars
  <2> QED
    BY <1>5, <1>6, <1>9, <2>1, <2>6, <2>7 DEF Seen, TakenIn
<1>15. CASE VaultStep /\ UNCHANGED <<graphVars, runVars>>
  <2>1. \/ vpc = "replace" /\ vpc' = "clean" /\ vret' = Absent /\ txn'.note = txn.note
        \/ /\ vpc = "clean" /\ vpc' = "idle" /\ vret' = txn.note.title
           /\ vault' = vault /\ txn # Absent /\ txn.note \in vault
    BY <1>0, <1>1, <1>15, StepVault DEF VaultInv
  <2>2. /\ admitted' = admitted /\ decided' = decided /\ accepted' = accepted /\ pc' = pc
        /\ current' = current /\ told' = told
    BY <1>15 DEF runVars
  <2>3. /\ pc' \in {"status", "integrate", "accept"} => Kept(vault, current)'
        /\ pc' = "finding" => \A i \in 1..told' : KeptFinding(vault, current, i)'
    BY <1>5, <1>6, <2>2
  <2>4. CASE vpc = "replace" /\ vpc' = "clean" /\ vret' = Absent /\ txn'.note = txn.note
    <3>1. pc = "finding" => txn'.note.what = <<"finding", current, told + 1>>
      BY <1>2, <2>4 DEF Seen
    <3> QED
      BY <1>5, <1>9, <2>2, <2>3, <2>4, <3>1 DEF Seen, TakenIn
  <2>5. CASE vpc = "clean" /\ vpc' = "idle" /\ vret' = txn.note.title /\ vault' = vault
              /\ txn.note \in vault
    <3>1. TakenIn(vault', vret')
      BY <2>5 DEF TakenIn
    <3>2. vret' # Raised
      <4>1. txn.note.title \in Titles(Bases)
        BY <1>0, <2>5 DEF VaultInv, IsVault, VNotes, VaultNotes, VTitles
      <4> QED
        BY <2>5, <4>1, NothingIsNoValue
    <3>3. pc = "finding" => KeptFinding(vault, current, told + 1)'
      <4>1. pc = "finding" => txn.note.what = <<"finding", current, told + 1>>
        BY <1>2, <2>5 DEF Seen
      <4> QED
        BY <2>2, <2>5, <4>1 DEF KeptFinding, Stored
    <3> QED
      BY <1>5, <2>2, <2>3, <2>5, <3>1, <3>2, <3>3 DEF Seen, TakenIn
  <2> QED
    BY <2>1, <2>4, <2>5
<1>16. ASSUME NEW stage, Go(stage) PROVE pc' = stage /\ vpc' = "idle" /\ vret' = Absent
  BY <1>16 DEF Go, VaultForget
<1>17. CASE GraphReturn \/ Validate \/ Freeze \/ Collect
  <2>1. CASE Gone
    BY <1>10, <2>1
  <2>2. CASE ~Gone
    <3>1. /\ vpc' = "idle" /\ vret' = Absent
          /\ pc' \notin {"status", "integrate", "accept"}
          /\ pc' = "finding" => told' = 0
          /\ admitted' = admitted /\ decided' = decided /\ accepted' = accepted
      BY <1>17, <2>2 DEF GraphReturn, Validate, Freeze, Collect, Go, VaultForget, Refuse, Keep
    <3> QED
      BY <1>5, <1>8, <1>9, <3>1
  <2> QED
    BY <2>1, <2>2
<1>18. CASE Decide
  <2>1. /\ pc = "decide" /\ vpc' = "idle" /\ vret' = Absent /\ pc' = "collect"
        /\ admitted' = admitted /\ decided' = admitted /\ accepted' = accepted
    BY <1>18 DEF Decide, Go, VaultForget
  <2>2. DOMAIN admitted = Assignment
    BY <1>0, <2>1 DEF RunPlaces
  <2> QED
    BY <1>5, <1>8, <1>9, <2>1, <2>2
<1>19. CASE FindingAdmitted \/ TaskClosed
  <2>1. CASE Gone
    BY <1>10, <2>1
  <2>2. CASE FindingAdmitted /\ ~Gone
    <3>1. /\ pc = "finding" /\ vret # Absent /\ vpc' = "idle" /\ vret' = Absent
          /\ pc' = (IF told + 1 < Len(asked[current]) THEN "finding" ELSE "status")
          /\ told' = told + 1 /\ current' = current
          /\ admitted' = admitted /\ decided' = decided /\ accepted' = accepted
      BY <2>2 DEF FindingAdmitted, Go, VaultForget, Refuse
    <3>2. told + 1 \in 1..Len(asked[current]) /\ Len(asked[current]) \in Nat /\ told \in Nat
      <4>1. current \in Assignment /\ told + 1 \in 1..Len(asked[current])
        BY <1>0, <3>1, FindingFacts
      <4> QED
        BY <1>0, <4>1, AskedFacts DEF RunTyped
    <3>3. \A i \in 1..(told + 1) : KeptFinding(vault, current, i)'
      <4> SUFFICES ASSUME NEW i \in 1..(told + 1) PROVE KeptFinding(vault, current, i)'
        OBVIOUS
      <4>1. CASE i \in 1..told
        BY <1>5, <1>6, <3>1, <4>1
      <4>2. CASE i = told + 1
        BY <1>5, <1>6, <3>1, <4>2
      <4> QED
        BY <3>2, <4>1, <4>2
    <3>4. pc' = "status" => Kept(vault, current)'
      <4>1. pc' = "status" => told + 1 = Len(asked[current])
        BY <3>1, <3>2
      <4>2. Len(asked[current])' = Len(asked[current])
        BY <1>3, <3>1
      <4> QED
        BY <3>3, <4>1, <4>2 DEF Kept
    <3> QED
      BY <1>5, <1>8, <1>9, <3>1, <3>3, <3>4
  <2>3. CASE TaskClosed /\ ~Gone
    <3>1. /\ pc = "status" /\ vpc' = "idle" /\ vret' = Absent /\ pc' = "integrate"
          /\ admitted' = admitted /\ decided' = decided /\ accepted' = accepted /\ current' = current
      BY <2>3 DEF TaskClosed, Go, VaultForget, Refuse, Keep
    <3>2. Kept(vault, current)'
      BY <1>5, <1>6, <3>1
    <3> QED
      BY <1>5, <1>8, <1>9, <3>1, <3>2
  <2> QED
    BY <1>19, <2>1, <2>2, <2>3
<1>20. CASE Record
  <2>1. CASE Gone
    BY <1>10, <2>1
  <2>2. CASE ~Gone
    <3>1. /\ pc = "integrate" /\ vpc' = "idle" /\ vret' = Absent /\ pc' = "accept"
          /\ admitted' = admitted /\ decided' = decided /\ accepted' = accepted /\ current' = current
      BY <1>20, <2>2 DEF Record, Go, VaultForget, Refuse
    <3>2. Kept(vault, current)'
      BY <1>5, <1>6, <3>1
    <3> QED
      BY <1>5, <1>8, <1>9, <3>1, <3>2
  <2> QED
    BY <2>1, <2>2
<1>21. CASE Accept
  <2>1. /\ pc = "accept" /\ vpc' = "idle" /\ vret' = Absent /\ pc' \in {"done", "collect"}
        /\ admitted' = admitted /\ decided' = decided /\ accepted' = accepted \cup {current}
    BY <1>21 DEF Accept, Go, VaultForget
  <2>2. \A a \in accepted' : Kept(vault, a)'
    BY <1>5, <2>1
  <2> QED
    BY <1>5, <1>8, <1>9, <2>1, <2>2
<1>22. CASE TaskAdmitted
  <2>1. CASE Gone
    BY <1>10, <2>1
  <2>2. CASE ~Gone
    <3>1. /\ pc = "admit" /\ vret # Absent /\ vpc' = "idle" /\ vret' = Absent /\ pc' = "admit"
          /\ admitted' = [a \in DOMAIN admitted \cup {NextTask} |->
                             IF a = NextTask THEN vret ELSE admitted[a]]
          /\ decided' = decided /\ accepted' = accepted
      BY <1>22, <2>2 DEF TaskAdmitted, Go, VaultForget, Refuse
    <3>2. \A a \in DOMAIN admitted' : TakenIn(vault', admitted'[a])
      BY <1>5, <3>1
    <3> QED
      BY <1>5, <1>8, <1>9, <3>1, <3>2
  <2> QED
    BY <2>1, <2>2
<1>23. CASE VaultHand
  BY <1>0, <1>23, HandVault
<1>24. CASE ForeignAdmit /\ UNCHANGED <<graphVars, runVars>>
  <2>1. vpc = "idle" /\ vpc' = vpc /\ vret' = vret
    BY <1>0, <1>24, ForeignVault
  <2> QED
    BY <1>7, <1>24, <2>1
<1>25. CASE GraphCall \/ (GraphStep /\ UNCHANGED <<vaultVars, runVars>>)
            \/ (Hand /\ UNCHANGED <<vaultVars, runVars>>) \/ UNCHANGED vars
  <2>1. UNCHANGED <<runVars, vpc, vret>> /\ txn' = txn
    BY <1>25 DEF GraphCall, vaultVars, vars
  <2> QED
    BY <1>7, <2>1
<1>26. Crash => Gone
  BY DEF Crash
<1>27. Upset => \/ VaultHand \/ (ForeignAdmit /\ UNCHANGED <<graphVars, runVars>>)
                \/ (Hand /\ UNCHANGED <<vaultVars, runVars>>)
  BY DEF Upset
<1> QED
  BY <1>10, <1>11, <1>12, <1>13, <1>14, <1>15, <1>17, <1>18, <1>19, <1>20, <1>21, <1>22, <1>23, <1>24,
     <1>25, <1>26, <1>27 DEF Next, RunStep

(* The titles of the run's tasks. ------------------------------------------------------*)

\* A note that this run admitted for a task of its own.
OwnNote(note) ==
    \E a \in Assignment : note.title = Title(TaskTitle[a]) /\ RunMark \in note.marks

OwnVault ==
    /\ \A note \in vault : OwnNote(note)
    /\ txn # Absent => OwnNote(txn.note)

\* As long as no other run has admitted anything.
OwnTitles ==
    /\ decided = None => OwnVault
    /\ \A a \in DOMAIN admitted : admitted[a] = Title(TaskTitle[a])
    /\ pc = "admit" /\ vpc # "idle" => txn.note.title = Title(TaskTitle[NextTask])
    /\ pc = "admit" => vret \in {Absent, Raised, Title(TaskTitle[NextTask])}
    /\ frozen # None => frozen = [a \in Assignment |-> Title(TaskTitle[a])]

\* A task whose note is not there finds its own title free.
LEMMA OwnAdmit ==
    ASSUME BaseInv, OwnVault, AdmitTask
    PROVE  /\ OwnVault'
           /\ vpc' # "idle" => txn'.note.title = Title(TaskTitle[NextTask])
           /\ vret' \in {Absent, Raised, Title(TaskTitle[NextTask])}
<1>1. VaultInv /\ RunTyped
  BY DEF BaseInv, RunInv
<1>2. Admit(<<"task", NextTask, 0>>, TaskTitle[NextTask], {RunMark, CoordinatorMark})
  BY DEF AdmitTask
<1>3. NextTask \in Assignment /\ NextTask \in Nat
  BY <1>1, NextTaskFacts DEF AdmitTask
<1>4. TaskTitle[NextTask] \in Bases /\ <<"task", NextTask, 0>> \in {"task", "finding", "other"} \X Nat \X Nat
  BY <1>3, RunTitlesAre
<1>5. {RunMark, CoordinatorMark} \in SUBSET Marks(Bases)
  BY DEF Marks
<1>6. /\ edits' = edits /\ foreign' = foreign
      /\ \/ vpc' = "idle" /\ vret' = Raised /\ edits > 0 /\ UNCHANGED <<vault, txn>>
         \/ /\ vpc' = "idle" /\ vret' = Title(TaskTitle[NextTask]) /\ vault' = Recovered /\ txn' = Absent
            /\ \E note \in vault' : /\ note.title = Title(TaskTitle[NextTask])
                                    /\ note.marks \cap {RunMark, CoordinatorMark} # {}
         \/ /\ vpc' = "replace" /\ vret' = Absent /\ vault' = Recovered /\ txn' # Absent
            /\ txn'.note = [title |-> FreeTitle(Recovered, TaskTitle[NextTask]),
                            what |-> <<"task", NextTask, 0>>,
                            marks |-> {RunMark, CoordinatorMark}, hand |-> FALSE]
            /\ Prior(Recovered, TaskTitle[NextTask], {RunMark, CoordinatorMark}) = {}
  BY <1>1, <1>2, <1>4, <1>5, TaskMarked, AdmitVault
<1>7. \A note \in Recovered : OwnNote(note)
  BY <1>1, RecoveredFacts DEF OwnVault
<1>8. CASE vpc' = "idle" /\ vret' = Raised /\ UNCHANGED <<vault, txn>>
  BY <1>8 DEF OwnVault
<1>9. CASE vpc' = "idle" /\ vret' = Title(TaskTitle[NextTask]) /\ vault' = Recovered /\ txn' = Absent
  BY <1>7, <1>9 DEF OwnVault
<1>10. CASE /\ vpc' = "replace" /\ vret' = Absent /\ vault' = Recovered
            /\ txn'.note = [title |-> FreeTitle(Recovered, TaskTitle[NextTask]),
                            what |-> <<"task", NextTask, 0>>,
                            marks |-> {RunMark, CoordinatorMark}, hand |-> FALSE]
            /\ Prior(Recovered, TaskTitle[NextTask], {RunMark, CoordinatorMark}) = {}
  <2>1. ~TakenIn(Recovered, Title(TaskTitle[NextTask]))
    <3> SUFFICES ASSUME NEW note \in Recovered, note.title = Title(TaskTitle[NextTask]) PROVE FALSE
      BY DEF TakenIn
    <3>1. RunMark \in note.marks
      BY <1>7 DEF OwnNote
    <3>2. RunMark \in note.marks \cap {RunMark, CoordinatorMark}
      BY <3>1
    <3> QED
      BY <1>10, <3>2 DEF Prior
  <2>2. FreeTitle(Recovered, TaskTitle[NextTask]) = Title(TaskTitle[NextTask])
    <3>1. IsFiniteSet(Recovered)
      BY <1>1, RecoveredFacts DEF IsVault
    <3>2. PICK base : base = TaskTitle[NextTask]
      OBVIOUS
    <3>3. ~TakenIn(Recovered, Title(base)) => FreeTitle(Recovered, base) = Title(base)
      BY <3>1, FreeTitleFacts
    <3> QED
      BY <2>1, <3>2, <3>3
  <2>3. txn'.note.title = Title(TaskTitle[NextTask]) /\ RunMark \in txn'.note.marks
    BY <1>10, <2>2
  <2>4. OwnNote(txn'.note)
    BY <1>3, <2>3 DEF OwnNote
  <2> QED
    BY <1>7, <1>10, <2>3, <2>4 DEF OwnVault
<1> QED
  BY <1>6, <1>8, <1>9, <1>10

LEMMA OwnVaultKept ==
    ASSUME BaseInv, OwnVault, decided = None, foreign' = 0, [Next]_vars
    PROVE  OwnVault'
<1>0. VaultInv /\ RunPlaces
  BY DEF BaseInv, RunInv
<1>1. CASE UNCHANGED <<vault, txn>>
  BY <1>1 DEF OwnVault
<1>2. CASE Start
  <2>1. UNCHANGED <<vault, txn>> \/ (vault' = Recovered /\ txn' = Absent)
    BY <1>2 DEF Start
  <2>2. \A note \in Recovered : OwnNote(note)
    BY <1>0, RecoveredFacts DEF OwnVault
  <2> QED
    BY <1>1, <2>1, <2>2 DEF OwnVault
<1>3. CASE AdmitTask
  BY <1>3, OwnAdmit
<1>4. CASE VaultStep
  <2>1. CASE Replace
    <3>1. txn # Absent /\ txn \in Staged(Bases)
      BY <1>0, <2>1, TxnFacts DEF VaultInv, Replace
    <3>2. txn'.note = txn.note /\ vault' = Put(vault, txn.note)
      BY <2>1, <3>1 DEF Replace, Staged
    <3> QED
      BY <3>1, <3>2 DEF OwnVault, Put
  <2>2. CASE Clean
    BY <2>2 DEF Clean, OwnVault
  <2> QED
    BY <1>4, <2>1, <2>2 DEF VaultStep
<1>5. CASE VaultHand
  <2>1. txn' = txn /\ \A other \in vault' : \E old \in vault : old.title = other.title /\ other.marks = old.marks
    BY <1>0, <1>5, HandVault
  <2>2. ASSUME NEW other \in vault' PROVE OwnNote(other)
    <3>1. PICK old \in vault : old.title = other.title /\ other.marks = old.marks
      BY <2>1
    <3>2. OwnNote(old)
      BY DEF OwnVault
    <3> QED
      BY <3>1, <3>2 DEF OwnNote
  <2> QED
    BY <2>1, <2>2 DEF OwnVault
<1>6. CASE ForeignAdmit
  <2>1. foreign' = foreign + 1 /\ foreign \in Nat
    BY <1>0, <1>6, ForeignVault DEF VaultInv
  <2> QED
    BY <2>1
<1>7. ~AdmitReport /\ ~CloseTask
  BY <1>0 DEF AdmitReport, CloseTask, RunPlaces, Accepting
<1>8. Crash \/ GraphReturn \/ Validate \/ TaskAdmitted \/ Freeze \/ Decide \/ Collect
       \/ FindingAdmitted \/ TaskClosed \/ Record \/ Accept => UNCHANGED <<vault, txn>>
  BY DEF Crash, GraphReturn, Validate, TaskAdmitted, Freeze, Decide, Collect,
         FindingAdmitted, TaskClosed, Record, Accept, Refuse, Gone, Go
<1>9. GraphCall \/ (GraphStep /\ UNCHANGED <<vaultVars, runVars>>) \/ UNCHANGED vars
          => UNCHANGED <<vault, txn>>
  BY DEF GraphCall, vars, vaultVars
<1>10. Upset => ForeignAdmit \/ VaultHand \/ UNCHANGED <<vault, txn>>
  BY DEF Upset, vaultVars
<1> QED
  BY <1>1, <1>2, <1>3, <1>4, <1>5, <1>6, <1>7, <1>8, <1>9, <1>10 DEF Next, RunStep

LEMMA OwnTitlesKept ==
    ASSUME BaseInv, foreign = 0 => OwnTitles, [Next]_vars
    PROVE  foreign' = 0 => OwnTitles'
<1>0. VaultInv /\ RunTyped /\ RunPlaces
  BY DEF BaseInv, RunInv
<1> SUFFICES ASSUME foreign' = 0 PROVE OwnTitles'
  OBVIOUS
<1>1. foreign = 0
  <2>1. foreign > 0 => foreign' > 0
    BY <1>0, VaultKept DEF BaseInv
  <2> QED
    BY <1>0, <2>1 DEF VaultInv
<1>2. OwnTitles
  BY <1>1
<1>3. decided' = None => decided = None /\ OwnVault'
  <2>1. decided' = decided \/ decided = None
    BY <1>0 DEF Next, vars, Start, Crash, Gone, RunStep, GraphCall, GraphReturn, Validate, AdmitTask,
           TaskAdmitted, Freeze, Decide, Collect, AdmitReport, CloseTask, FindingAdmitted, TaskClosed, Record, Accept,
           Upset, runVars, Refuse, Go, Keep, RunPlaces
  <2> QED
    BY <1>2, <2>1, OwnVaultKept DEF OwnTitles
<1>4. ASSUME admitted' = admitted PROVE NextTask' = NextTask
  BY <1>4 DEF NextTask, Unadmitted
<1>5. \A a \in DOMAIN admitted : admitted[a] = Title(TaskTitle[a])
  BY <1>2 DEF OwnTitles
<1>6. frozen # None => frozen = [a \in Assignment |-> Title(TaskTitle[a])]
  BY <1>2 DEF OwnTitles
<1>7. ASSUME vpc' = "idle", vret' = Absent, \A a \in DOMAIN admitted' : admitted'[a] = Title(TaskTitle[a]),
             frozen' # None => frozen' = [a \in Assignment |-> Title(TaskTitle[a])]
      PROVE  OwnTitles'
  BY <1>3, <1>7 DEF OwnTitles, Title
<1>8. CASE UNCHANGED <<runVars, vpc, vret>> /\ (vpc # "idle" => txn' = txn)
  <2>1. admitted' = admitted /\ frozen' = frozen /\ pc' = pc /\ vpc' = vpc /\ vret' = vret
    BY <1>8 DEF runVars
  <2>2. NextTask' = NextTask
    BY <1>4, <2>1
  <2> QED
    BY <1>2, <1>3, <1>5, <1>6, <1>8, <2>1, <2>2 DEF OwnTitles, Title
<1>9. CASE Gone
  <2>1. vpc' = "idle" /\ vret' = Absent /\ DOMAIN admitted' = {} /\ frozen' = frozen
    BY <1>9 DEF Gone, VaultForget, NoTitles
  <2> QED
    BY <1>6, <1>7, <2>1
<1>10. CASE Start
  <2>1. vpc' = "idle" /\ vret' = Absent /\ admitted' = admitted /\ frozen' = frozen
    BY <1>0, <1>10 DEF Start, RunPlaces
  <2> QED
    BY <1>5, <1>6, <1>7, <2>1
<1>11. CASE AdmitTask
  <2>1. pc = "admit" /\ pc' = pc /\ admitted' = admitted /\ frozen' = frozen
    BY <1>11 DEF AdmitTask, runVars
  <2>2. OwnVault
    BY <1>0, <1>2, <2>1 DEF OwnTitles, RunPlaces
  <2>3. /\ vpc' # "idle" => txn'.note.title = Title(TaskTitle[NextTask])
        /\ vret' \in {Absent, Raised, Title(TaskTitle[NextTask])}
    BY <1>11, <2>2, OwnAdmit
  <2>4. NextTask' = NextTask
    BY <1>4, <2>1
  <2> QED
    BY <1>3, <1>5, <1>6, <2>1, <2>3, <2>4 DEF OwnTitles, Title
<1>12. CASE AdmitReport \/ CloseTask
  <2>1. pc # "admit" /\ pc' = pc /\ admitted' = admitted /\ frozen' = frozen
    BY <1>12 DEF AdmitReport, CloseTask, runVars
  <2> QED
    BY <1>3, <1>5, <1>6, <2>1 DEF OwnTitles, Title
<1>13. CASE VaultStep /\ UNCHANGED <<graphVars, runVars>>
  <2>1. /\ \/ vpc = "replace" /\ vpc' = "clean" /\ vret' = Absent
           \/ vpc = "clean" /\ vpc' = "idle" /\ vret' = txn.note.title
        /\ vpc' = "clean" => txn'.note = txn.note
    BY <1>0, <1>13, StepVault
  <2>2. pc' = pc /\ admitted' = admitted /\ frozen' = frozen
    BY <1>13 DEF runVars
  <2>3. NextTask' = NextTask
    BY <1>4, <2>2
  <2>4. pc = "admit" => txn.note.title = Title(TaskTitle[NextTask])
    BY <1>2, <2>1 DEF OwnTitles
  <2> QED
    BY <1>3, <1>5, <1>6, <2>1, <2>2, <2>3, <2>4 DEF OwnTitles, Title
<1>14. CASE TaskAdmitted
  <2>1. CASE Gone
    BY <1>9, <2>1
  <2>2. CASE ~Gone
    <3>1. /\ pc = "admit" /\ vret \notin {Absent, Raised} /\ vpc' = "idle" /\ vret' = Absent
          /\ admitted' = [a \in DOMAIN admitted \cup {NextTask} |->
                             IF a = NextTask THEN vret ELSE admitted[a]]
          /\ frozen' = frozen
      BY <1>14, <2>2 DEF TaskAdmitted, Go, VaultForget, Refuse
    <3>2. vret = Title(TaskTitle[NextTask])
      BY <1>2, <3>1 DEF OwnTitles
    <3>3. \A a \in DOMAIN admitted' : admitted'[a] = Title(TaskTitle[a])
      BY <1>5, <3>1, <3>2
    <3> QED
      BY <1>6, <1>7, <3>1, <3>3
  <2> QED
    BY <2>1, <2>2
<1>15. CASE Freeze
  <2>1. CASE Gone
    BY <1>9, <2>1
  <2>2. CASE ~Gone
    <3>1. /\ Unadmitted = {} /\ vpc' = "idle" /\ vret' = Absent
          /\ admitted' = admitted /\ frozen' = admitted
      BY <1>15, <2>2 DEF Freeze, Go, VaultForget, Refuse
    <3>2. DOMAIN admitted = Assignment /\ admitted \in [DOMAIN admitted -> RunTitles]
      BY <1>0, <3>1 DEF Unadmitted, RunTyped
    <3>3. admitted = [a \in Assignment |-> Title(TaskTitle[a])]
      BY <1>5, <3>2
    <3> QED
      BY <1>5, <1>7, <3>1, <3>3
  <2> QED
    BY <2>1, <2>2
<1>16. CASE GraphReturn \/ Validate \/ Decide \/ Collect \/ FindingAdmitted \/ TaskClosed \/ Record \/ Accept
  <2>1. CASE Gone
    BY <1>9, <2>1
  <2>2. CASE ~Gone
    <3>1. vpc' = "idle" /\ vret' = Absent /\ admitted' = admitted /\ frozen' = frozen
      BY <1>16, <2>2 DEF GraphReturn, Validate, Decide, Collect, FindingAdmitted, TaskClosed, Record, Accept,
                         Go, VaultForget, Refuse, Keep
    <3> QED
      BY <1>5, <1>6, <1>7, <3>1
  <2> QED
    BY <2>1, <2>2
<1>17. CASE VaultHand /\ UNCHANGED <<graphVars, runVars>>
  <2>1. vpc' = vpc /\ vret' = vret /\ txn' = txn
    BY <1>0, <1>17, HandVault
  <2> QED
    BY <1>8, <1>17, <2>1
<1>18. CASE ForeignAdmit
  <2>1. foreign' = foreign + 1
    BY <1>0, <1>18, ForeignVault
  <2> QED
    BY <1>1, <2>1
<1>19. CASE GraphCall \/ (GraphStep /\ UNCHANGED <<vaultVars, runVars>>)
            \/ (Hand /\ UNCHANGED <<vaultVars, runVars>>) \/ UNCHANGED vars
  <2>1. UNCHANGED <<runVars, vpc, vret>> /\ txn' = txn
    BY <1>19 DEF GraphCall, vaultVars, vars
  <2> QED
    BY <1>8, <2>1
<1>20. Crash => Gone
  BY DEF Crash
<1>21. Upset => \/ VaultHand /\ UNCHANGED <<graphVars, runVars>>
                \/ ForeignAdmit
                \/ Hand /\ UNCHANGED <<vaultVars, runVars>>
  BY DEF Upset
<1> QED
  BY <1>9, <1>10, <1>11, <1>12, <1>13, <1>14, <1>15, <1>16, <1>17, <1>18, <1>19, <1>20, <1>21
     DEF Next, RunStep

(* What stops the run. -----------------------------------------------------------------*)

\* A merge is recorded as refused only after a human edit or for what the report says.
Merges == \A a \in Assignment : patch[a] = "raised" => hands > 0 \/ Clashes(a)

\* What is published stays, so a report that clashes with it goes on doing so.
LEMMA ClashStays ==
    ASSUME StoreInv, Assigned, [Next]_vars, NEW a, Clashes(a)
    PROVE  Clashes(a)'
<1>1. PICK others \in SUBSET (Assignment \ {a}) :
         /\ \A b \in others : Published(ReportOp(b).id)
         /\ Given \cup UNION {Result[b] : b \in others} \notin Admissible[a]
  BY DEF Clashes
<1>2. ASSUME NEW b \in others PROVE Published(ReportOp(b).id)'
  <2>1. PICK id : id = ReportOp(b).id
    OBVIOUS
  <2>2. Published(id)
    BY <1>1, <2>1
  <2>3. Published(id)'
    BY <2>2, Stays
  <2> QED
    BY <2>1, <2>3 DEF ReportOp
<1> QED
  BY <1>1, <1>2 DEF Clashes, ReportOp

\* What the causes of a refusal rest on.
Explained ==
    /\ Progress
    /\ hands = 0 => Untouched /\ Returned
    /\ edits = 0 => Seen
    /\ foreign = 0 => OwnTitles
    /\ Merges

LEMMA HandsStay ==
    ASSUME hands \in Nat, [Next]_vars
    PROVE  hands > 0 => hands' > 0
<1>1. hands' = hands \/ hands' = hands + 1
  <2>1. GraphStep => hands' = hands
    BY StepFrame
  <2>2. Hand => hands' = hands + 1
    BY DEF Hand
  <2>3. Start \/ AdmitTask \/ AdmitReport \/ CloseTask \/ (VaultStep /\ UNCHANGED <<graphVars, runVars>>)
         \/ UNCHANGED vars => hands' = hands
    BY DEF Start, AdmitTask, AdmitReport, CloseTask, vars, graphVars
  <2>4. GraphCall => hands' = hands
    BY DEF GraphCall, Call
  <2>5. Crash \/ GraphReturn \/ Validate \/ TaskAdmitted \/ Freeze \/ Decide \/ Collect
        \/ FindingAdmitted \/ TaskClosed \/ Record \/ Accept => hands' = hands
    BY DEF Crash, GraphReturn, Validate, TaskAdmitted, Freeze, Decide, Collect,
           FindingAdmitted, TaskClosed, Record, Accept, Refuse, Gone, Go
  <2>6. Upset => Hand \/ hands' = hands
    BY DEF Upset, graphVars
  <2> QED
    BY <2>1, <2>2, <2>3, <2>4, <2>5, <2>6 DEF Next, RunStep
<1> QED
  BY <1>1

LEMMA MergesKept ==
    ASSUME BaseInv, Explained, [Next]_vars
    PROVE  Merges'
<1>0. RunTyped /\ RunPlaces /\ hands \in Nat
  BY DEF BaseInv, RunInv, StoreInv, GraphTypeOK
<1>1. hands > 0 => hands' > 0
  BY <1>0, HandsStay
<1>2. \A a : Clashes(a) => Clashes(a)'
  BY ClashStays DEF BaseInv
<1>3. CASE patch' = patch
  BY <1>1, <1>3, <1>2 DEF Explained, Merges
<1>4. CASE Record /\ patch' # patch
  <2>1. /\ pc = "integrate" /\ gpc = "idle" /\ patch' = [patch EXCEPT ![current] = ret]
    BY <1>4 DEF Record, Refuse, Gone
  <2>2. current \in Assignment /\ patch \in [Assignment -> Outcome \cup {None}]
    BY <1>0, <2>1 DEF RunPlaces, RunTyped, Accepting
  <2>3. hands = 0 /\ ret = "raised" => Clashes(current)
    <3>1. Published(RunStartOp.id)
      BY <2>1 DEF Explained, Progress, Settled, Accepting
    <3>2. snapshot.rev # -1
      BY <3>1 DEF Published
    <3> QED
      BY <2>1, <3>2 DEF Explained, Returned
  <2>4. \A a : a = current /\ hands = 0 /\ ret = "raised" => Clashes(a)'
    BY <1>2, <2>3
  <2>5. patch'[current] = ret /\ \A a \in Assignment \ {current} : patch'[a] = patch[a]
    BY <2>1, <2>2
  <2> QED
    BY <1>0, <1>1, <1>2, <2>5, <2>4 DEF Explained, Merges
<1>5. patch' = patch \/ Record
  BY DEF Next, vars, Start, Crash, Gone, RunStep, GraphCall, GraphReturn, Validate, AdmitTask,
         TaskAdmitted, Freeze, Decide, Collect, AdmitReport, CloseTask, FindingAdmitted, TaskClosed, Accept,
         Upset, runVars, Refuse, Go, Keep
<1> QED
  BY <1>3, <1>4, <1>5

\* A graph that no human has touched is refused only when its first snapshot is lost.
LEMMA ValidateRefused ==
    ASSUME BaseInv, Explained, Validate, refused' # refused
    PROVE  hands > 0 \/ snapshot.rev = -1
<1>0. StoreInv /\ hands \in Nat
  BY DEF BaseInv, StoreInv, GraphTypeOK
<1>1. Duplicate \/ Conflicts \/ snapshot.rev # Rev(state)
  BY DEF Validate, Go
<1> SUFFICES ASSUME hands = 0 PROVE snapshot.rev = -1
  BY <1>0
<1>2. ~HasPending
  BY DEF Validate, Free, Explained, Returned, NoReturn
<1>3. Loaded = state.notes /\ ~Duplicate
  <2>1. IsNotes(state.notes) /\ Plain(state.notes) /\ \A n \in Note : OnDisk(state.notes, n)
    BY <1>0, <1>2 DEF StoreInv, GraphTypeOK, Explained, Untouched
  <2>2. PICK notes : notes = state.notes
    OBVIOUS
  <2>3. Loaded = notes /\ ~Duplicate
    BY <2>1, <2>2, PlainDisk
  <2> QED
    BY <2>2, <2>3
<1>4. ~Conflicts
  BY <1>3 DEF Conflicts, Managed
<1> QED
  BY <1>0, <1>1, <1>2, <1>3, <1>4 DEF StoreInv, HistoryInv, AtRest, Lost, Rev

LEMMA RefusalKept ==
    ASSUME BaseInv, Explained, RefusalHasCause, [Next]_vars
    PROVE  RefusalHasCause'
<1>0. VaultInv /\ RunInv /\ RunTyped /\ RunPlaces /\ hands \in Nat /\ edits \in Nat /\ foreign \in Nat
  BY DEF BaseInv, RunInv, VaultInv, StoreInv, GraphTypeOK
<1>1. /\ hands > 0 => hands' > 0
      /\ edits > 0 => edits' > 0
      /\ foreign > 0 => foreign' > 0
  BY <1>0, HandsStay, VaultKept
<1>2. CASE refused' = "nothing"
  BY <1>2 DEF RefusalHasCause
<1>3. CASE refused' = refused /\ refused # "nothing"
  <2>1. pc = "down" /\ gpc = "idle" /\ ret = NoReturn /\ vpc = "idle" /\ vret = Absent
    BY <1>0, <1>3 DEF RunPlaces
  <2>2. ~GraphStep
    BY <2>1, StepFrame
  <2>3. snapshot' = snapshot /\ patch' = patch /\ accepted' = accepted
    <3>1. Start \/ Upset \/ UNCHANGED vars \/ (VaultStep /\ UNCHANGED <<graphVars, runVars>>)
             => UNCHANGED <<snapshot, patch, accepted>>
      BY DEF Start, Upset, Hand, graphVars, durableGraph, runVars, vars
    <3>2. ~Crash /\ ~RunStep
      BY <2>1 DEF Crash, RunStep, GraphCall, GraphReturn, Validate, AdmitTask, TaskAdmitted, Freeze,
                  Decide, Collect, AdmitReport, CloseTask, FindingAdmitted, TaskClosed, Record, Accept
    <3> QED
      BY <2>2, <3>1, <3>2 DEF Next
  <2> QED
    BY <1>1, <1>3, <2>3 DEF RefusalHasCause
<1>4. CASE Start /\ refused' # "nothing"
  <2>1. refused' = "vault" /\ Unrecoverable
    BY <1>4 DEF Start
  <2>2. edits' > 0
    BY <1>0, <1>1, <2>1, LostByHand
  <2> QED
    BY <2>1, <2>2 DEF RefusalHasCause
<1>5. CASE GraphReturn /\ refused' # refused
  <2>1. refused' = "graph" /\ ret = "raised" /\ gpc = "idle" /\ snapshot' = snapshot
    BY <1>5 DEF GraphReturn, Go, Refuse, Gone, durableGraph
  <2>2. hands > 0 \/ snapshot.rev = -1
    BY <1>0, <1>5, <2>1 DEF Explained, Returned, GraphReturn
  <2> QED
    BY <1>1, <2>1, <2>2 DEF RefusalHasCause
<1>6. CASE Validate /\ refused' # refused
  <2>1. refused' = "graph" /\ snapshot' = snapshot
    BY <1>6 DEF Validate, Go, Refuse, Gone, durableGraph
  <2>2. hands > 0 \/ snapshot.rev = -1
    BY <1>6, ValidateRefused
  <2> QED
    BY <1>1, <2>1, <2>2 DEF RefusalHasCause
<1>7. CASE (TaskAdmitted \/ FindingAdmitted \/ TaskClosed) /\ refused' # refused
  <2>1. refused' = "vault" /\ vret = Raised
    BY <1>7 DEF TaskAdmitted, FindingAdmitted, TaskClosed, Go, Refuse
  <2>2. edits > 0
    BY <1>0, <2>1 DEF Explained, Seen
  <2> QED
    BY <1>1, <2>1, <2>2 DEF RefusalHasCause
<1>8. CASE Freeze /\ refused' # refused
  <2>1. refused' = "decision" /\ frozen \notin {None, admitted} /\ Unadmitted = {}
    BY <1>8 DEF Freeze, Go, Refuse
  <2>2. DOMAIN admitted = Assignment /\ admitted \in [DOMAIN admitted -> RunTitles]
    BY <1>0, <2>1 DEF Unadmitted, RunTyped
  <2>3. foreign > 0
    <3> SUFFICES ASSUME OwnTitles PROVE FALSE
      BY <1>0 DEF Explained
    <3>1. admitted = [a \in Assignment |-> Title(TaskTitle[a])]
      BY <2>2 DEF OwnTitles
    <3> QED
      BY <2>1, <3>1 DEF OwnTitles
  <2> QED
    BY <1>1, <2>1, <2>3 DEF RefusalHasCause
<1>9. CASE Record /\ refused' # refused
  <2>1. refused' = "patch" /\ patch[current] # None /\ pc = "integrate"
        /\ patch' = patch /\ accepted' = accepted
    BY <1>9 DEF Record, Go, Refuse, Gone
  <2>2. current \in Assignment \ accepted
    BY <1>0, <2>1 DEF RunPlaces, Accepting
  <2> QED
    BY <2>1, <2>2 DEF RefusalHasCause
<1>10. refused' = refused \/ Start \/ GraphReturn \/ Validate \/ TaskAdmitted \/ FindingAdmitted \/ TaskClosed
       \/ Freeze \/ Record
  BY DEF Next, vars, Crash, RunStep, GraphCall, AdmitTask, Decide, Collect, AdmitReport, CloseTask,
         Accept, Upset, runVars, Go
<1> QED
  BY <1>2, <1>3, <1>4, <1>5, <1>6, <1>7, <1>8, <1>9, <1>10

\* What an accepted report left follows.
LEMMA KeptReports ==
    ASSUME BaseInv, Explained
    PROVE  AcceptedIsKept
<1> SUFFICES ASSUME NEW a \in accepted
             PROVE  /\ patch[a] = "raised" => hands > 0 \/ Clashes(a)
                    /\ patch[a] # "raised" => Published(ReportOp(a).id)
                    /\ edits = 0 => Kept(vault, a)
  BY DEF AcceptedIsKept, Kept, KeptFinding, Stored
<1>1. a \in Assignment /\ patch[a] # None
  BY DEF BaseInv, RunInv, RunTyped, Explained, Progress
<1> QED
  BY <1>1 DEF Explained, Merges, Progress, Seen

LEMMA InitExplained == Init => Explained /\ RefusalHasCause
<1> SUFFICES ASSUME Init PROVE Explained /\ RefusalHasCause
  OBVIOUS
<1>1. /\ pc = "down" /\ meta = FALSE /\ admitted = NoTitles /\ frozen = None /\ decided = None
      /\ patch = [a \in Assignment |-> None] /\ accepted = {} /\ refused = "nothing"
      /\ vault = {} /\ txn = Absent /\ vpc = "idle" /\ vret = Absent
  BY DEF Init, VaultInit
<1>2. /\ disk = [n \in Note |-> NoFile] /\ files = {} /\ state = EmptyState
      /\ gpc = "idle" /\ ret = NoReturn
  BY DEF Init, GraphInit
<1>3. ~HasState /\ ~HasPending
  BY <1>2 DEF HasState, HasPending
<1>4. \A a \in Assignment : patch[a] = None
  BY <1>1
<1>5. None # "raised"
  BY NothingIsNoValue DEF Outcome
<1>6. Progress
  BY <1>1, <1>2, <1>3, <1>4 DEF Progress, Settled, Accepting
<1>7. Untouched
  <2>1. state.notes = NoNotes /\ state.chain = <<>>
    BY <1>2 DEF EmptyState
  <2>2. \A n \in Note : state.notes[n] = None
    BY <2>1, NoNotesTyped
  <2>3. \A n \in Note : OnDisk(state.notes, n)
    BY <1>2, <2>2 DEF OnDisk, NoFile
  <2>4. Plain(state.notes) /\ Holds(state)
    BY <2>1, <2>2 DEF Plain, Holds, InChain
  <2> QED
    BY <1>2, <1>3, <2>1, <2>3, <2>4 DEF Untouched
<1>8. Returned
  BY <1>2, <1>3 DEF Returned, NoReturn
<1>9. Seen
  BY <1>1, NothingIsNoValue DEF Seen, NoTitles
<1>10. OwnTitles
  BY <1>1 DEF OwnTitles, OwnVault, NoTitles
<1>11. Merges
  BY <1>4, <1>5 DEF Merges
<1>12. RefusalHasCause
  BY <1>1 DEF RefusalHasCause
<1> QED
  BY <1>6, <1>7, <1>8, <1>9, <1>10, <1>11, <1>12 DEF Explained

LEMMA ExplainedStep ==
    ASSUME BaseInv, Explained, RefusalHasCause, [Next]_vars
    PROVE  BaseInv' /\ Explained' /\ RefusalHasCause'
<1>1. BaseInv'
  BY BaseStep
<1>2. Progress'
  BY <1>1, ProgressKept DEF Explained
<1>3. hands' = 0 => Untouched' /\ Returned'
  BY UntouchedKept DEF Explained
<1>4. edits' = 0 => Seen'
  BY <1>1, SeenKept DEF Explained
<1>5. foreign' = 0 => OwnTitles'
  BY OwnTitlesKept DEF Explained
<1>6. Merges' /\ RefusalHasCause'
  BY MergesKept, RefusalKept
<1> QED
  BY <1>1, <1>2, <1>3, <1>4, <1>5, <1>6 DEF Explained

\* What can stop a run for good: never a crash. The graph refuses only what a human
\* edited or a graph whose first snapshot was lost, the vault only after a human edit,
\* the decision file only after another run's admission, and the patch file only in a
\* replay of a merge it already records.
THEOREM RefusalsExplained == Spec => []RefusalHasCause
<1>1. Init => BaseInv /\ Explained /\ RefusalHasCause
  BY InitInvs, InitExplained DEF BaseInv
<1>2. BaseInv /\ Explained /\ RefusalHasCause /\ [Next]_vars
        => BaseInv' /\ Explained' /\ RefusalHasCause'
  BY ExplainedStep
<1> QED
  BY <1>1, <1>2, PTL DEF Spec

\* An accepted report is in the published graph, unless the graph refused it after a
\* human edit or for content that clashes with the other published reports; and each of
\* its findings is in the vault, unless a human edited the vault or a note under the
\* same title has the run's mark, or another run's and one of the task's title.
THEOREM AcceptedStays == Spec => []AcceptedIsKept
<1>1. Init => BaseInv /\ Explained /\ RefusalHasCause
  BY InitInvs, InitExplained DEF BaseInv
<1>2. BaseInv /\ Explained /\ RefusalHasCause /\ [Next]_vars
        => BaseInv' /\ Explained' /\ RefusalHasCause'
  BY ExplainedStep
<1>3. BaseInv /\ Explained => AcceptedIsKept
  BY KeptReports
<1> QED
  BY <1>1, <1>2, <1>3, PTL DEF Spec

====
