------------------------------ MODULE GraphStore ------------------------------
(*****************************************************************************)
(* The typed knowledge graph of a run (knowledge_graph/service.py and         *)
(* snapshots.py): one Markdown note per node, a state file that records the   *)
(* path and the hash of every managed note, a pending transaction, and the    *)
(* published revision snapshots. An operation writes its whole transaction to *)
(* the pending file, then the notes, the removals, the state file and the     *)
(* snapshot, one durable write per step; the next operation replays whatever  *)
(* a crash left. Humans edit, rename and delete notes without the lock.       *)
(*                                                                           *)
(* A note's text is abstracted to the revision that rendered it, whether a    *)
(* human added prose or changed a machine field, and the path each of its     *)
(* links shows; hashes are compared as the texts themselves. Every node has a *)
(* directory of its own, where its file is named for its title or by a human. *)
(*****************************************************************************)
EXTENDS Integers, Sequences, FiniteSets

CONSTANTS
    Note,        \* nodes of the graph
    Links,       \* [Note -> the nodes it links to]
    None

VARIABLES
    disk,        \* [Note -> [Place -> the text of that file, or None]]
    files,       \* which of the two JSON files exist: "state", "pending"
    state,       \* graph-state.json: [chain, notes]
    pending,     \* the pending transaction: [writes, removals, after]
    snapshot,    \* the newest snapshot: [rev, notes]; rev -1 before the first
    hands,       \* human edits so far
    gpc,         \* where the operation that holds the lock is
    recovering,  \* whether it is replaying a pending transaction
    nodes,       \* the nodes it has in memory
    todo,        \* notes it has still to write
    call,        \* the operation that was called, or None
    ret          \* what it returned

durableGraph == <<files, state, pending, snapshot>>
callVars     == <<gpc, recovering, nodes, todo, call, ret>>
graphVars    == <<disk, durableGraph, hands, callVars>>

Place    == {"title", "hand"}
NoNotes  == [n \in Note |-> None]
NoFile   == [p \in Place |-> None]
NoReturn == "none"

EmptyState    == [chain |-> <<>>, notes |-> NoNotes]
NoTransaction == [writes |-> [n \in {} |-> None], removals |-> {}, after |-> EmptyState]

HasState   == "state" \in files
HasPending == "pending" \in files

Outcome  == {NoReturn, "opened", "merged", "already", "nothing", "raised"}

Text(n) == [gen : Nat, prose : BOOLEAN, field : BOOLEAN,
            shows : [Links[n] -> Place \cup {"id"}]]
IsNotes(f) ==
    /\ f = [n \in Note |-> f[n]]
    /\ \A n \in Note : f[n] # None => f[n] \in [path : Place, text : Text(n)]

(* Reading and planning. ----------------------------------------------------*)

Found(n)  == {p \in Place : disk[n][p] # None}
Duplicate == \E n \in Note : Cardinality(Found(n)) > 1

\* _load_nodes_unlocked, where no identifier appears twice
Loaded ==
    [n \in Note |-> IF Found(n) = {} THEN None
                    ELSE LET p == CHOOSE q \in Found(n) : TRUE
                         IN  [path |-> p, text |-> disk[n][p]]]

\* Where a note is: as found, or as recorded when it is not there.
Current(have, n) ==
    IF have[n] # None THEN have[n].path
    ELSE IF state.notes[n] # None THEN state.notes[n].path
    ELSE "nowhere"

\* A note found where the state records it moves back to the path of its title.
Planned(have, n) ==
    IF \/ Current(have, n) = "nowhere"
       \/ state.notes[n] # None /\ state.notes[n].path = Current(have, n)
    THEN "title" ELSE Current(have, n)

\* Notes the commit rewrites only because a note they link to moves.
Inbound(have, touch) ==
    {n \in Note \ touch :
        /\ have[n] # None
        /\ \E t \in Links[n] \cap touch : Planned(have, t) # Current(have, t)}

\* The nodes as the transaction leaves them. Human prose outside the generated
\* block is kept; so is a changed machine field the operation does not set.
Rendered(have, touch) ==
    LET kept(n)  == have[n] # None
        moved(n) == IF n \in touch THEN Planned(have, n) ELSE have[n].path
        there(t) == t \in touch \/ have[t] # None
        links(n) == [t \in Links[n] |-> IF there(t) THEN moved(t) ELSE "id"]
    IN  [n \in Note |->
            CASE n \in touch ->
                    [path |-> moved(n),
                     text |-> [gen   |-> Len(state.chain) + 1,
                               prose |-> kept(n) /\ have[n].text.prose,
                               field |-> kept(n) /\ have[n].text.field,
                               shows |-> links(n)]]
              [] n \in Inbound(have, touch) ->
                    [have[n] EXCEPT !.text.shows = links(n)]
              [] OTHER -> have[n]]

\* The state that follows: notes the commit writes are recorded as written; of
\* the others the path is recorded as found, the hash only when there is none.
Recorded(have, touch, id) ==
    LET written == touch \cup Inbound(have, touch)
        new     == Rendered(have, touch)
    IN  [chain |-> Append(state.chain, id),
         notes |-> [n \in Note |->
            CASE n \in written -> new[n]
              [] n \notin written /\ have[n] = None -> state.notes[n]
              [] OTHER -> [path |-> have[n].path,
                           text |-> IF state.notes[n] = None THEN have[n].text
                                    ELSE state.notes[n].text]]]

Removals(have, touch) ==
    {<<n, Current(have, n)>> : n \in {t \in touch :
        Current(have, t) \notin {"nowhere", Planned(have, t)}}}

Occupied(have, touch) ==
    \E n \in touch : /\ Planned(have, n) # Current(have, n)
                     /\ disk[n][Planned(have, n)] # None

(* Snapshots. ---------------------------------------------------------------*)

Rev(s) == Len(s.chain)

\* _validate_materialized: every note reproduces its hash from the present paths
\* of the nodes it links to, and the hashes are the ones the revision names.
Materializes(s, of) ==
    \A n \in Note :
        /\ (of[n] = None) = (s.notes[n] = None)
        /\ of[n] # None =>
            /\ of[n].text = s.notes[n].text
            /\ \A t \in Links[n] : of[t] # None /\ of[n].text.shows[t] = of[t].path

\* write_revision: an existing manifest must agree, a new one needs its parent.
Publishable(s, of) ==
    /\ Materializes(s, of)
    /\ IF snapshot.rev = Rev(s) THEN snapshot.notes = of
       ELSE Rev(s) = 0 \/ snapshot.rev = Rev(s) - 1

(* Operations. --------------------------------------------------------------*)

GraphInit ==
    /\ disk = [n \in Note |-> NoFile]
    /\ files = {}
    /\ state = EmptyState
    /\ pending = NoTransaction
    /\ snapshot = [rev |-> -1, notes |-> NoNotes]
    /\ hands = 0
    /\ gpc = "idle"
    /\ recovering = FALSE
    /\ nodes = NoNotes
    /\ todo = {}
    /\ call = None
    /\ ret = NoReturn

\* An operation is called: "open" (initialize), "reconcile", or a "write" of the
\* nodes touch under the identity id.
Call(op) ==
    /\ gpc = "idle"
    /\ gpc' = "enter"
    /\ call' = op
    /\ ret' = NoReturn
    /\ UNCHANGED <<disk, durableGraph, hands, recovering, nodes, todo>>

Idle == gpc' = "idle" /\ recovering' = FALSE /\ nodes' = NoNotes /\ todo' = {} /\ call' = None

Return(value) ==
    /\ Idle
    /\ ret' = value
    /\ UNCHANGED <<disk, durableGraph, hands>>

\* _commit_nodes_unlocked up to the durable intent.
Begin(have, touch, id) ==
    /\ nodes' = Rendered(have, touch)
    /\ todo' = touch \cup Inbound(have, touch)
    /\ files' = files \cup {"pending"}
    /\ pending' = [writes   |-> [n \in touch \cup Inbound(have, touch) |->
                                    Rendered(have, touch)[n]],
                   removals |-> Removals(have, touch),
                   after    |-> Recorded(have, touch, id)]
    /\ gpc' = "notes"
    /\ UNCHANGED <<disk, state, snapshot, hands, recovering, call, ret>>

Applied(id) == \E i \in DOMAIN state.chain : state.chain[i] = id

\* Nodes that must be there, in a first call and in a replay.
Missing == \E n \in (IF Applied(call.id) THEN call.again ELSE call.needs) : Loaded[n] = None

\* The content the operation adds does not go with the notes that are there: a relation
\* to a node that is missing, a cycle of dependencies, another definition of a name.
Unfit == {n \in Note : Loaded[n] # None} \notin call.fits

\* Mutant of Write: a replayed call is not recognised.
WriteAgain ==
    /\ call.kind = "write"
    /\ IF ~HasState THEN Return("raised")
       ELSE IF Duplicate \/ Missing \/ Unfit \/ Occupied(Loaded, call.touch) THEN Return("raised")
       ELSE Begin(Loaded, call.touch, call.id)

\* A write operation; some look their identity up before they read the notes.
Write ==
    /\ call.kind = "write"
    /\ IF ~HasState THEN Return("raised")
       ELSE IF call.early /\ Applied(call.id) THEN Return("already")
       ELSE IF Duplicate \/ Missing \/ Unfit \/ Occupied(Loaded, call.touch) THEN Return("raised")
       ELSE IF Applied(call.id) THEN Return("already")
       ELSE Begin(Loaded, call.touch, call.id)

Managed == {n \in Note : state.notes[n] # None}

Conflicts ==
    \E n \in Managed : \/ Loaded[n] = None
                       \/ Loaded[n].text.gen # state.notes[n].text.gen
                       \/ Loaded[n].text.field # state.notes[n].text.field

Edited == {n \in Managed : Loaded[n] # state.notes[n]}

\* reconcile_human_edits: prose and renames become a revision, anything else raises.
Reconcile ==
    /\ call.kind = "reconcile"
    /\ IF ~HasState \/ Duplicate THEN Return("raised")
       ELSE IF Conflicts THEN Return("raised")
       ELSE IF Edited = {} THEN Return("nothing")
       ELSE Begin(Loaded, Edited, <<"human", Rev(state)>>)

\* initialize reads the notes, or, on an empty directory, writes the state file first
\* and its snapshot next.
Open ==
    /\ call.kind = "open"
    /\ IF HasState THEN Return(IF Duplicate THEN "raised" ELSE "nothing")
       ELSE /\ files' = files \cup {"state"}
            /\ state' = EmptyState
            /\ gpc' = "snapshot"
            /\ UNCHANGED <<disk, pending, snapshot, hands, recovering, nodes, todo, call, ret>>

Recover ==
    /\ gpc' = "notes"
    /\ recovering' = TRUE
    /\ todo' = DOMAIN pending.writes
    /\ UNCHANGED <<disk, durableGraph, hands, nodes, call, ret>>

\* The lock is taken; a transaction left behind is replayed first.
Enter ==
    /\ gpc = "enter"
    /\ IF HasPending THEN Recover ELSE Open \/ Reconcile \/ Write

WriteNote ==
    /\ gpc = "notes"
    /\ \E n \in todo :
        /\ disk' = [disk EXCEPT ![n][pending.writes[n].path] = pending.writes[n].text]
        /\ todo' = todo \ {n}
    /\ UNCHANGED <<durableGraph, hands, gpc, recovering, nodes, call, ret>>

Unlinked == {r \in pending.removals : disk[r[1]][r[2]] # None}

RemoveNote ==
    /\ gpc = "notes" /\ todo = {}
    /\ \E r \in Unlinked : disk' = [disk EXCEPT ![r[1]][r[2]] = None]
    /\ UNCHANGED <<durableGraph, hands, callVars>>

\* The state file. Recovery then reads the notes it will publish from the disk.
WriteState ==
    /\ gpc = "notes" /\ todo = {} /\ Unlinked = {}
    /\ state' = pending.after
    /\ UNCHANGED <<disk, files, pending, snapshot, hands>>
    /\ IF recovering /\ Duplicate
       THEN Idle /\ ret' = "raised"
       ELSE /\ nodes' = IF recovering THEN Loaded ELSE nodes
            /\ gpc' = "snapshot"
            /\ UNCHANGED <<recovering, todo, call, ret>>

\* Mutant of WriteSnapshot: a manifest that exists is refused, not compared.
WriteSnapshotOnce ==
    /\ gpc = "snapshot"
    /\ IF snapshot.rev < Rev(state) /\ Materializes(state, nodes)
       THEN /\ snapshot' = [rev |-> Rev(state), notes |-> nodes]
            /\ gpc' = "unlink"
            /\ UNCHANGED <<disk, files, state, pending, hands, recovering, nodes, todo, call, ret>>
       ELSE Return("raised")

WriteSnapshot ==
    /\ gpc = "snapshot"
    /\ IF Publishable(state, nodes)
       THEN /\ snapshot' = [rev |-> Rev(state), notes |-> nodes]
            /\ gpc' = "unlink"
            /\ UNCHANGED <<disk, files, state, pending, hands, recovering, nodes, todo, call, ret>>
       ELSE Return("raised")

\* The transaction is over: the call returns, or goes on after a recovery.
Settle ==
    /\ gpc = "unlink"
    /\ files' = files \ {"pending"}
    /\ pending' = NoTransaction
    /\ IF recovering
       THEN gpc' = "enter" /\ recovering' = FALSE /\ nodes' = NoNotes /\ UNCHANGED <<todo, call, ret>>
       ELSE Idle /\ ret' = IF HasPending THEN "merged" ELSE "opened"
    /\ UNCHANGED <<disk, state, snapshot, hands>>

GraphStep ==
    Enter \/ WriteNote \/ RemoveNote \/ WriteState \/ WriteSnapshot \/ Settle

\* The process dies, or returns from a call: what is durable stays.
Forget == Idle /\ ret' = NoReturn

(* Human hands. -------------------------------------------------------------*)

Prose(n, p)  == disk' = [disk EXCEPT ![n][p].prose = ~@]
Field(n, p)  == disk' = [disk EXCEPT ![n][p].field = ~@]
Delete(n, p) == disk' = [disk EXCEPT ![n][p] = None]
Rename(n, p, q) ==
    /\ disk[n][q] = None
    /\ disk' = [disk EXCEPT ![n][p] = None, ![n][q] = disk[n][p]]

Hand ==
    /\ hands' = hands + 1
    /\ \E n \in Note : \E p \in Found(n) :
        \/ Prose(n, p)
        \/ Field(n, p)
        \/ Delete(n, p)
        \/ \E q \in Place : Rename(n, p, q)
    /\ UNCHANGED <<durableGraph, callVars>>

(* The history it implements. ------------------------------------------------*)

Chain == IF HasPending THEN pending.after.chain ELSE state.chain

GraphTypeOK ==
    /\ disk = [n \in Note |-> disk[n]]
    /\ \A n \in Note : disk[n] \in [Place -> Text(n) \cup {None}]
    /\ files \subseteq {"state", "pending"} /\ (HasPending => HasState)
    /\ IsNotes(state.notes)
    /\ DOMAIN pending.writes \subseteq Note
    /\ \A n \in DOMAIN pending.writes : pending.writes[n] \in [path : Place, text : Text(n)]
    /\ pending.removals \subseteq Note \X Place
    /\ IsNotes(pending.after.notes)
    /\ snapshot.rev \in Nat \cup {-1} /\ IsNotes(snapshot.notes)
    /\ hands \in Nat
    /\ gpc \in {"idle", "enter", "notes", "snapshot", "unlink"}
    /\ recovering \in BOOLEAN
    /\ IsNotes(nodes)
    /\ todo \subseteq Note
    /\ ret \in Outcome
===============================================================================
