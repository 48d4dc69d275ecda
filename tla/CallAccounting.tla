---------------------------- MODULE CallAccounting ----------------------------
(*****************************************************************************)
(* One paid model call, from the research stage's request tracker through     *)
(* the accounting client, the budget, the provider's attempts, the usage      *)
(* journal and the cache of completed responses, with cancellation, the wall  *)
(* clock, failing writes, crashes and restarts.                               *)
(*                                                                            *)
(* Everything after the provider's answer runs without an await, so another   *)
(* task cannot step in (busy names the task inside that section); only the    *)
(* process can die there. Tokens and dollars are not modelled: the ceiling    *)
(* of the run is the one on calls. Payloads are irrelevant: a response is the *)
(* number of the provider's sale.                                             *)
(*****************************************************************************)
EXTENDS Naturals, Sequences, SequencesExt, FiniteSets, FiniteSetsExt, Functions

CONSTANTS
    Tasks, Keys, NoKey, NoTask,
    Slot,            \* the stable placeholder of the candidate gate's judge call
    MaxCalls,        \* BudgetTracker.maximum_calls
    HardCalls,       \* ResearchSettings.maximum_model_calls
    MaxAttempts,     \* provider attempts of one call
    MaxSold,         \* bound: responses the provider sells
    MaxUpsets        \* bound: different kinds of Upsets in one behaviour, each once

ASSUME CallAssumption ==
    /\ MaxCalls \in Nat \ {0} /\ HardCalls \in Nat \ {0} /\ MaxAttempts \in Nat \ {0}
    /\ MaxSold \in Nat /\ MaxUpsets \in Nat
    /\ NoKey \notin Keys /\ NoTask \notin Tasks /\ Slot \notin Keys

VARIABLES
    \* durable
    rows,        \* usage.jsonl: the responses booked, in order
    torn,        \* a failed append left bytes the strict loader rejects
    cache,       \* model_calls/<key>.json: [Keys -> response, 0 for no file]
    saved,       \* scheduler.json: the tracker's [keys, bound]
    \* the provider
    sold,        \* responses paid for, in order: [key, first]
    \* volatile
    up,          \* "up", "down", or why a restart stops: "corrupt", "mismatch", "refused"
    index,       \* RunLogger._usage_response_ids
    booked,      \* BudgetTracker._response_ids
    reserved,    \* tasks that hold a budget reservation
    lock,        \* [Keys -> the task inside the single-flight section]
    busy,        \* the task in the section after the provider's answer
    tracker,     \* _TrackedModelClient: [keys, bound, run, credit]
    pc, want, tries,
    completed,   \* [Tasks -> terminal provider attempts not yet booked]
    result,      \* [Tasks -> the response handed to the caller, or 0]
    upsets       \* what went wrong so far; "expiry" is the end of the wall clock

durable  == <<rows, torn, cache, saved>>
calls    == <<pc, want, tries, completed, result>>
vars     == <<durable, sold, up, index, booked, reserved, lock, busy, tracker, calls, upsets>>

Upsets == {"crash", "fault", "cancel", "expiry", "archive"}

Upset(kind) ==
    /\ kind \notin upsets /\ Cardinality(upsets) < MaxUpsets
    /\ upsets' = upsets \cup {kind}

expired == "expiry" \in upsets

Response == 0..MaxSold
NoAnswers == [k \in Keys |-> 0]
Bound(f)  == {f[k] : k \in Keys} \ {0}
Booked    == ToSet(rows)

SavedTracker == [keys : SUBSET (Keys \cup {Slot}), bound : [Keys -> Response]]
Tracker == [keys : SUBSET (Keys \cup {Slot}), bound : [Keys -> Response],
            run : Nat, credit : SUBSET Keys]

TypeOK ==
    /\ rows \in Seq(1..MaxSold) /\ torn \in BOOLEAN
    /\ cache \in [Keys -> Response]
    /\ saved \in SavedTracker
    /\ sold \in Seq([key : Keys, first : BOOLEAN]) /\ Len(sold) <= MaxSold
    /\ up \in {"up", "down", "corrupt", "mismatch", "refused"}
    /\ index \subseteq 1..MaxSold /\ booked \subseteq 1..MaxSold
    /\ reserved \subseteq Tasks /\ lock \in [Keys -> Tasks \cup {NoTask}] /\ busy \in Tasks \cup {NoTask}
    /\ tracker \in Tracker
    /\ pc \in [Tasks -> {"idle", "registered", "queued", "calling", "answered", "failing", "done"}]
    /\ want \in [Tasks -> Keys \cup {NoKey}] /\ tries \in [Tasks -> 0..MaxAttempts]
    /\ completed \in [Tasks -> Seq(1..MaxSold)] /\ result \in [Tasks -> Response]
    /\ upsets \subseteq Upsets

(* ---- _TrackedModelClient ------------------------------------------------- *)
Calls(tr)      == Cardinality(tr.keys)
HardAllows(tr) == Calls(tr) + 1 <= HardCalls
CanCall(tr)    == Calls(tr) + 1 <= tr.run /\ HardAllows(tr)

\* is_accounted_request: the exact replay is cached and its response counted.
Accounted(k) == cache[k] # 0 /\ cache[k] \in booked

Saved(tr) == [keys |-> tr.keys, bound |-> tr.bound]

EmptyTracker(limit) == [keys |-> {}, bound |-> NoAnswers, run |-> limit, credit |-> {}]

Smallest(a, b) == IF a < b THEN a ELSE b

Remaining(counted) == IF Cardinality(counted) >= MaxCalls THEN 0 ELSE MaxCalls - Cardinality(counted)

Init ==
    /\ rows = <<>> /\ torn = FALSE /\ cache = NoAnswers /\ sold = <<>>
    /\ saved = [keys |-> {}, bound |-> NoAnswers]
    /\ up = "up" /\ index = {} /\ booked = {} /\ reserved = {}
    /\ lock = [k \in Keys |-> NoTask] /\ busy = NoTask
    /\ tracker = EmptyTracker(MaxCalls)
    /\ pc = [t \in Tasks |-> "idle"] /\ want = [t \in Tasks |-> NoKey]
    /\ tries = [t \in Tasks |-> 0] /\ completed = [t \in Tasks |-> <<>>]
    /\ result = [t \in Tasks |-> 0] /\ upsets = {}

Running == up = "up" /\ busy = NoTask

\* Every change of the tracker is checkpointed in the scheduler before the provider runs.
Checkpoint(tr) ==
    /\ tracker' = tr
    /\ saved' = Saved(tr)

Asks(t, k) ==
    /\ Running /\ pc[t] = "idle"
    /\ pc' = [pc EXCEPT ![t] = "registered"]
    /\ want' = [want EXCEPT ![t] = k]
    /\ tries' = [tries EXCEPT ![t] = 0]
    /\ UNCHANGED <<rows, torn, cache, sold, up, index, booked, reserved, lock, busy,
                   completed, result, upsets>>

\* register_request: a replay of a known request is free.
RegisterKnown(t, k) ==
    /\ k \in tracker.keys
    /\ Asks(t, k)
    /\ UNCHANGED <<tracker, saved>>

\* register_request: a new request takes a slot; one that is already paid for
\* brings its slot with it.
Admit(k) ==
    IF Accounted(k)
    THEN [tracker EXCEPT !.keys = @ \cup {k}, !.run = @ + 1, !.credit = @ \cup {k}]
    ELSE [tracker EXCEPT !.keys = @ \cup {k}]

MayAdmit(k) == IF Accounted(k) THEN HardAllows(tracker) ELSE CanCall(tracker)

RegisterNew(t, k) ==
    /\ k \notin tracker.keys
    /\ MayAdmit(k)
    /\ Asks(t, k)
    /\ Checkpoint(Admit(k))

\* reserve_call_key: the candidate gate keeps a slot for its final judge.
ReserveSlot ==
    /\ Running
    /\ Slot \notin tracker.keys
    /\ CanCall(tracker)
    /\ Checkpoint([tracker EXCEPT !.keys = @ \cup {Slot}])
    /\ UNCHANGED <<rows, torn, cache, sold, up, index, booked, reserved, lock, busy, calls, upsets>>

\* register_request with a reservation key: the placeholder becomes the request,
\* or is given back when the request is known already.
ExchangeSlot(t, k) ==
    /\ Slot \in tracker.keys
    /\ Asks(t, k)
    /\ Checkpoint([tracker EXCEPT !.keys = (@ \ {Slot}) \cup {k}])

\* release_call_key for a queued request, which provably never reached a
\* provider. Requests carry their assignment's identity: no other task shares it.
Released(k) ==
    [tracker EXCEPT !.keys = @ \ {k},
                    !.credit = @ \ {k},
                    !.run = IF k \in tracker.credit THEN @ - 1 ELSE @]

ReleaseRequest(t) ==
    /\ Running /\ pc[t] = "registered"
    /\ want[t] \in tracker.keys /\ tracker.bound[want[t]] = 0
    /\ \A other \in Tasks \ {t} : want[other] # want[t]
    /\ Checkpoint(Released(want[t]))
    /\ pc' = [pc EXCEPT ![t] = "idle"]
    /\ want' = [want EXCEPT ![t] = NoKey]
    /\ UNCHANGED <<rows, torn, cache, sold, up, index, booked, reserved, lock, busy,
                   tries, completed, result, upsets>>

ReleaseSlot ==
    /\ Running
    /\ Slot \in tracker.keys
    /\ Checkpoint([tracker EXCEPT !.keys = @ \ {Slot}])
    /\ UNCHANGED <<rows, torn, cache, sold, up, index, booked, reserved, lock, busy, calls, upsets>>

\* generate: the request enters the accounting client and waits for its key's lock.
Launch(t) ==
    /\ Running /\ pc[t] = "registered"
    /\ pc' = [pc EXCEPT ![t] = "queued"]
    /\ UNCHANGED <<durable, sold, up, index, booked, reserved, lock, busy, tracker,
                   want, tries, completed, result, upsets>>

\* The caller's request ends without an answer.
GivesUp(t) ==
    /\ pc' = [pc EXCEPT ![t] = "idle"]
    /\ want' = [want EXCEPT ![t] = NoKey]
    /\ tries' = [tries EXCEPT ![t] = 0]
    /\ completed' = [completed EXCEPT ![t] = <<>>]

(* ---- AccountingModelClient.generate_structured --------------------------- *)
Enters(t) == Running /\ pc[t] = "queued" /\ lock[want[t]] = NoTask

\* generate: the answer is bound to its request in the tracker.
Bind(k, r) == [tracker EXCEPT !.bound[k] = r]

\* usage_once: one row per response, whatever is booked again.
Journalled(r) == IF r \in index THEN rows ELSE Append(rows, r)

UsageOnce(r) ==
    /\ rows' = Journalled(r)
    /\ index' = index \cup {r}

\* reconcile or record: the response is counted once and the reservation it came
\* under, if any is left, goes with it.
Count(t, r) ==
    /\ booked' = booked \cup {r}
    /\ reserved' = reserved \ {t}

\* A completed response of the same request is replayed; it is booked if the
\* budget of this process has not seen it (_account_if_missing).
ReplayCached(t) ==
    /\ Enters(t)
    /\ cache[want[t]] # 0
    /\ UsageOnce(cache[want[t]])
    /\ Count(t, cache[want[t]])
    /\ result' = [result EXCEPT ![t] = cache[want[t]]]
    /\ tracker' = Bind(want[t], cache[want[t]])
    /\ pc' = [pc EXCEPT ![t] = "done"]
    /\ UNCHANGED <<torn, cache, saved, sold, up, lock, busy, want, tries, completed, upsets>>

\* Mutant of SlotFree: the calls in flight are not counted.
SlotFreeUnreserved == Cardinality(booked) + 1 <= MaxCalls

\* BudgetTracker.reserve
SlotFree == Cardinality(booked) + Cardinality(reserved) + 1 <= MaxCalls

\* BudgetExceeded, from reserve or from the wall-clock check behind it.
Refuse(t) ==
    /\ Enters(t)
    /\ cache[want[t]] = 0
    /\ ~SlotFree \/ expired
    /\ GivesUp(t)
    /\ UNCHANGED <<durable, sold, up, index, booked, reserved, lock, busy, tracker, result, upsets>>

StartCall(t) ==
    /\ Enters(t)
    /\ cache[want[t]] = 0
    /\ SlotFree /\ ~expired
    /\ reserved' = reserved \cup {t}
    /\ lock' = [lock EXCEPT ![want[t]] = t]
    /\ pc' = [pc EXCEPT ![t] = "calling"]
    /\ UNCHANGED <<durable, sold, up, index, booked, busy, tracker,
                   want, tries, completed, result, upsets>>

(* ---- the provider's attempts --------------------------------------------- *)
\* A terminal provider attempt is paid for, whatever its output is worth.
Sell(t) ==
    /\ Len(sold) < MaxSold
    /\ sold' = Append(sold, [key |-> want[t], first |-> completed[t] = <<>>])
    /\ completed' = [completed EXCEPT ![t] = Append(@, Len(sold) + 1)]

AttemptStep(t) ==
    /\ Running /\ pc[t] = "calling"
    /\ UNCHANGED <<durable, up, index, booked, reserved, lock, busy, tracker, want, result, upsets>>

\* Whether an attempt may be repeated is the failure's class, within the limit;
\* a call that may write its workspace is never repeated.
RetryOrStop(t) ==
    /\ tries' = [tries EXCEPT ![t] = @ + 1]
    /\ \/ tries[t] + 1 < MaxAttempts /\ UNCHANGED pc
       \/ pc' = [pc EXCEPT ![t] = "failing"]

AttemptSucceeds(t) ==
    /\ AttemptStep(t)
    /\ Sell(t)
    /\ pc' = [pc EXCEPT ![t] = "answered"]
    /\ UNCHANGED tries

\* The output misses or violates its schema, or the manifest cannot be written:
\* the attempt is paid, and repeated while attempts are left.
AttemptInvalid(t) ==
    /\ AttemptStep(t)
    /\ Sell(t)
    /\ RetryOrStop(t)

\* The process or the transport fails: nothing was sold.
AttemptBreaks(t) ==
    /\ AttemptStep(t)
    /\ RetryOrStop(t)
    /\ UNCHANGED <<sold, completed>>

\* Mutant of Abandon: a cancelled call keeps its reservation.
AbandonReserved(t) ==
    /\ GivesUp(t)
    /\ lock' = [k \in Keys |-> IF lock[k] = t THEN NoTask ELSE lock[k]]
    /\ UNCHANGED <<reserved, durable, sold, up, index, booked, busy, tracker, result>>

\* The task is cancelled, or the wall clock ends under the call: the adapter's
\* completed attempts go with it and the reservation is given back.
Abandon(t) ==
    /\ GivesUp(t)
    /\ reserved' = reserved \ {t}
    /\ lock' = [k \in Keys |-> IF lock[k] = t THEN NoTask ELSE lock[k]]
    /\ UNCHANGED <<durable, sold, up, index, booked, busy, tracker, result>>

Cancel(t) ==
    /\ Running
    /\ pc[t] \in {"queued", "calling", "answered", "failing"}
    /\ Abandon(t)
    /\ Upset("cancel")

\* An answer that is in when the timer fires is still taken.
TimeOut(t) ==
    /\ Running /\ expired /\ pc[t] = "calling"
    /\ Abandon(t)
    /\ UNCHANGED upsets

Expire ==
    /\ Running
    /\ Upset("expiry")
    /\ UNCHANGED <<durable, sold, up, index, booked, reserved, lock, busy, tracker, calls>>

(* ---- booking, without an await ------------------------------------------- *)
Settles(t) ==
    /\ up = "up" /\ pc[t] \in {"answered", "failing"}
    /\ busy \in {t, NoTask}

\* _account_provider_attempts: usage_once, then the budget; the first attempt
\* takes the reservation with it.
BookAttempt(t) ==
    /\ Settles(t)
    /\ completed[t] # <<>>
    /\ UsageOnce(Head(completed[t]))
    /\ Count(t, Head(completed[t]))
    /\ completed' = [completed EXCEPT ![t] = Tail(@)]
    /\ result' = [result EXCEPT ![t] = Head(completed[t])]
    /\ busy' = t
    /\ UNCHANGED <<torn, cache, saved, sold, up, lock, tracker, pc, want, tries, upsets>>

\* Mutant of FinishCall: the response is cached before its attempt is booked.
FinishBeforeBooking(t) ==
    /\ Settles(t) /\ pc[t] = "answered"
    /\ completed[t] # <<>>
    /\ cache' = [cache EXCEPT ![want[t]] = Last(completed[t])]
    /\ result' = [result EXCEPT ![t] = Last(completed[t])]
    /\ tracker' = Bind(want[t], Last(completed[t]))
    /\ lock' = [lock EXCEPT ![want[t]] = NoTask]
    /\ busy' = NoTask
    /\ pc' = [pc EXCEPT ![t] = "done"]
    /\ tries' = [tries EXCEPT ![t] = 0]
    /\ UNCHANGED <<rows, torn, saved, sold, up, index, booked, reserved, want, completed, upsets>>

\* ModelCallStore.persist keeps an answer that is there.
Persisted(t) == IF cache[want[t]] # 0 THEN cache[want[t]] ELSE result[t]

\* The response is cached, and the tracker binds it to its request.
FinishCall(t) ==
    /\ Settles(t) /\ pc[t] = "answered"
    /\ completed[t] = <<>>
    /\ cache' = [cache EXCEPT ![want[t]] = Persisted(t)]
    /\ result' = [result EXCEPT ![t] = Persisted(t)]
    /\ tracker' = Bind(want[t], Persisted(t))
    /\ lock' = [lock EXCEPT ![want[t]] = NoTask]
    /\ busy' = NoTask
    /\ pc' = [pc EXCEPT ![t] = "done"]
    /\ tries' = [tries EXCEPT ![t] = 0]
    /\ UNCHANGED <<rows, torn, saved, sold, up, index, booked, reserved, want, completed, upsets>>

\* Mutant of FinishFailure: the exception does not carry its completed attempts.
FinishFailureBare(t) ==
    /\ Settles(t) /\ pc[t] = "failing"
    /\ reserved' = reserved \ {t}
    /\ lock' = [lock EXCEPT ![want[t]] = NoTask]
    /\ busy' = NoTask
    /\ GivesUp(t)
    /\ result' = [result EXCEPT ![t] = 0]
    /\ UNCHANGED <<durable, sold, up, index, booked, tracker, upsets>>

\* The adapter raised: what it completed is booked, an unused reservation released.
FinishFailure(t) ==
    /\ Settles(t) /\ pc[t] = "failing"
    /\ completed[t] = <<>>
    /\ reserved' = reserved \ {t}
    /\ lock' = [lock EXCEPT ![want[t]] = NoTask]
    /\ busy' = NoTask
    /\ GivesUp(t)
    /\ result' = [result EXCEPT ![t] = 0]
    /\ UNCHANGED <<durable, sold, up, index, booked, tracker, upsets>>

Raise(t) ==
    /\ Upset("fault")
    /\ lock' = [lock EXCEPT ![want[t]] = NoTask]
    /\ busy' = NoTask
    /\ GivesUp(t)
    /\ result' = [result EXCEPT ![t] = 0]
    /\ UNCHANGED <<cache, saved, sold, up, index, tracker>>

\* The journal's append raises having written nothing, part of the row, or the
\* whole row; the call is counted in memory all the same.
BookFault(t) ==
    /\ Settles(t)
    /\ completed[t] # <<>>
    /\ Count(t, Head(completed[t]))
    /\ \/ UNCHANGED <<rows, torn>>
       \/ torn' = TRUE /\ UNCHANGED rows
       \/ rows' = Journalled(Head(completed[t])) /\ UNCHANGED torn
    /\ Raise(t)

\* The response file cannot be written: it stays booked and answers nothing.
CacheFault(t) ==
    /\ Settles(t) /\ pc[t] = "answered"
    /\ completed[t] = <<>>
    /\ Raise(t)
    /\ UNCHANGED <<rows, torn, booked, reserved>>

\* The research stage hands an answer on and its next scheduler write carries the binding.
Collect(t) ==
    /\ Running /\ pc[t] = "done"
    /\ pc' = [pc EXCEPT ![t] = "idle"]
    /\ want' = [want EXCEPT ![t] = NoKey]
    /\ result' = [result EXCEPT ![t] = 0]
    /\ saved' = Saved(tracker)
    /\ UNCHANGED <<rows, torn, cache, sold, up, index, booked, reserved, lock, busy, tracker,
                   tries, completed, upsets>>

(* ---- process ------------------------------------------------------------- *)
Crash ==
    /\ up = "up"
    /\ Upset("crash")
    /\ up' = "down"
    /\ index' = {} /\ booked' = {} /\ reserved' = {}
    /\ lock' = [k \in Keys |-> NoTask] /\ busy' = NoTask
    /\ tracker' = EmptyTracker(0)
    /\ pc' = [t \in Tasks |-> "idle"] /\ want' = [t \in Tasks |-> NoKey]
    /\ tries' = [t \in Tasks |-> 0] /\ completed' = [t \in Tasks |-> <<>>]
    /\ result' = [t \in Tasks |-> 0]
    /\ UNCHANGED <<durable, sold>>

\* A prompt-only replay archives the research generation and starts an empty
\* scheduler over the same calls.
Archive ==
    /\ up = "down"
    /\ Upset("archive")
    /\ saved' = [keys |-> {}, bound |-> NoAnswers]
    /\ UNCHANGED <<rows, torn, cache, sold, up, index, booked, reserved, lock, busy, tracker, calls>>

\* Mutant of Recovered: the scheduler's own bindings are all a restart knows.
RecoveredAsSaved == saved.bound

\* accounted_request_keys: answers committed just ahead of the scheduler's state.
Recovered == [k \in Keys |-> IF k \in saved.keys /\ cache[k] \in Booked THEN cache[k] ELSE saved.bound[k]]

RestartedTracker ==
    [keys |-> saved.keys, bound |-> Recovered, credit |-> {},
     run |-> Cardinality(Bound(Recovered)) + Remaining(Booked)]

JournalReadable == ~torn /\ IsInjective(rows)

\* What stops a restart: a usage journal the strict loader rejects, a binding
\* the accounting does not know, or, in the tracker's constructor, more requests
\* than the answered ones and the budget's remaining calls.
Verdict ==
    IF ~JournalReadable THEN "corrupt"
    ELSE IF \E k \in Keys : saved.bound[k] # 0 /\ (saved.bound[k] # cache[k] \/ saved.bound[k] \notin Booked)
         THEN "mismatch"
    ELSE IF Calls(RestartedTracker) > Smallest(RestartedTracker.run, HardCalls) THEN "refused"
    ELSE "up"

Restart ==
    /\ up = "down"
    /\ up' = Verdict
    /\ IF Verdict = "up"
       THEN /\ index' = Booked /\ booked' = Booked
            /\ Checkpoint(RestartedTracker)
       ELSE UNCHANGED <<index, booked, tracker, saved>>
    /\ UNCHANGED <<rows, torn, cache, sold, reserved, lock, busy, calls, upsets>>

Step(t) ==
    \/ \E k \in Keys : RegisterKnown(t, k) \/ RegisterNew(t, k) \/ ExchangeSlot(t, k)
    \/ ReleaseRequest(t) \/ Launch(t) \/ Collect(t)
    \/ ReplayCached(t) \/ Refuse(t) \/ StartCall(t)
    \/ AttemptSucceeds(t) \/ AttemptInvalid(t) \/ AttemptBreaks(t)
    \/ Cancel(t) \/ TimeOut(t)
    \/ BookAttempt(t) \/ FinishCall(t) \/ FinishFailure(t) \/ BookFault(t) \/ CacheFault(t)

Next ==
    \/ \E t \in Tasks : Step(t)
    \/ ReserveSlot \/ ReleaseSlot \/ Expire \/ Crash \/ Archive \/ Restart

Spec == Init /\ [][Next]_vars

(* ---- properties ---------------------------------------------------------- *)
\* Concurrent calls never start more than the budget allows: the calls booked
\* and those in flight stay within maximum_calls, however answers, failures,
\* cancellations and restarts interleave. Only the further attempts of a call
\* that was admitted can go beyond it (budget.py reserve and reconcile,
\* accounting.py _account_provider_attempts).
CallCeiling ==
    Cardinality({r \in booked : sold[r].first}) + Cardinality(reserved) <= MaxCalls

\* While nothing is cancelled, fails to write or dies and the clock has not run
\* out, every attempt the provider was paid for is in the usage journal or about
\* to be booked by the call that made it: also attempts whose output was
\* rejected and those of a call that failed in the end (accounting.py 211-224).
PaidIsBooked ==
    upsets = {} =>
        1..Len(sold) = Booked \cup UNION {ToSet(completed[t]) : t \in Tasks}

\* A restart meets no binding the accounting does not know, and the tracker's
\* constructor refuses the run only when some paid response answers no request:
\* a repeated attempt, or an answer that was lost before it was cached
\* (research.py 2872-2927).
RestartExplained ==
    /\ up # "mismatch"
    /\ up = "refused" => ~(Booked \subseteq Bound(cache))

Ledger == INSTANCE CallLedger WITH
    Responses <- 1..MaxSold, NoResponse <- 0, ledger <- Booked, answer <- cache

\* The journal and the response files implement the abstract ledger: crashes,
\* torn appends and restarts included, nothing booked is forgotten and no
\* answer is used before it is booked, or ever replaced.
ImplementsLedger == Ledger!LedgerSpec

\* Whatever ends a call (an answer, a failure, a cancellation, the clock, a
\* write that raises), it leaves nothing behind that would block another call:
\* a key is locked and a call slot reserved only by a call in progress
\* (accounting.py 191-240, 353-392).
NothingLeaks ==
    /\ \A k \in Keys : lock[k] # NoTask =>
           pc[lock[k]] \in {"calling", "answered", "failing"} /\ want[lock[k]] = k
    /\ \A t \in reserved : \E k \in Keys : lock[k] = t

===============================================================================
