---------------------------- MODULE EventStream ----------------------------
(***************************************************************************)
(* What the research coordinator's event stream promises                    *)
(* (ARCHITECTURE.md, "Event publication is a state-first transaction"):     *)
(* every change of the scheduler is committed together with its event, the  *)
(* events become visible as a gap-free prefix in commit order, at most one  *)
(* committed event is not yet visible, and a coordinator decision            *)
(* acknowledges only events that were visible.  Nothing here crashes: a     *)
(* crash and a restart of the implementation are stutters.  Once a write    *)
(* has raised, nothing of this is promised any more.                        *)
(***************************************************************************)
EXTENDS Naturals

CONSTANTS
    Change,     \* what an event can report: a report, an issue, a decision
    Decision,   \* the change that is a coordinator decision
    Absent,     \* no event under this number
    MaxEvents   \* bound on the numbers that are used

VARIABLES
    log,     \* log[n]: the change committed under event number n
    next,    \* the number the next event will get
    stream,  \* stream[n]: the event visible under number n
    acked,   \* the last event number a decision has acknowledged
    broken   \* a write has raised

vars == <<log, next, stream, acked, broken>>

Numbers == 1..MaxEvents

Init ==
    /\ log = [n \in Numbers |-> Absent]
    /\ next = 1
    /\ stream = [n \in Numbers |-> Absent]
    /\ acked = 0
    /\ broken = FALSE

(* Commit a change; the previous event must already be visible.  Only a     *)
(* decision moves the acknowledgement, and only over visible events.        *)
Commit(c) ==
    /\ next \in Numbers
    /\ \A n \in Numbers : n < next => stream[n] = log[n]
    /\ log' = [log EXCEPT ![next] = c]
    /\ next' = next + 1
    /\ acked' \in acked..(next - 1)
    /\ c # Decision => acked' = acked
    /\ UNCHANGED stream

(* Make the committed event visible. *)
Publish ==
    /\ next > 1
    /\ stream[next - 1] = Absent
    /\ stream' = [stream EXCEPT ![next - 1] = log[next - 1]]
    /\ UNCHANGED <<log, next, acked>>

Next == \/ UNCHANGED broken /\ (Publish \/ \E c \in Change : Commit(c))
        \/ broken'

Spec == Init /\ [][Next]_vars
=============================================================================
