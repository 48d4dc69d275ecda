----------------------- MODULE CallAccountingProofs -----------------------
(***************************************************************************)
(* Proofs about CallAccounting, for all tasks, requests and bounds: types,  *)
(* locks and reservations, the call ceiling, what is paid is booked, when a *)
(* restart is refused, and that the usage journal and the response files    *)
(* are a ledger.                                                            *)
(***************************************************************************)
EXTENDS CallAccounting, FiniteSetTheorems, TLAPS

InFlight == {"calling", "answered", "failing"}

\* Where a call can stand: what it wants, the lock of its key and its
\* reservation belong together.
TaskPlace(t) ==
    /\ pc[t] # "idle" => want[t] \in Keys
    /\ pc[t] = "idle" => want[t] = NoKey
    /\ pc[t] \in InFlight => lock[want[t]] = t
    /\ pc[t] \notin InFlight => completed[t] = <<>>
    /\ t \in reserved => pc[t] \in InFlight
    /\ pc[t] = "calling" => t \in reserved /\ tries[t] < MaxAttempts
    /\ pc[t] = "answered" /\ t \in reserved => completed[t] # <<>>
    /\ pc[t] \in {"registered", "queued"} => tries[t] = 0

KeyPlace(k) == lock[k] # NoTask => pc[lock[k]] \in InFlight /\ want[lock[k]] = k

\* A process that is down holds nothing.
ProcessPlace ==
    /\ busy # NoTask => up = "up" /\ pc[busy] \in {"answered", "failing"}
    /\ up # "up" => booked = {} /\ \A t \in Tasks : pc[t] = "idle"

Places ==
    /\ \A t \in Tasks : TaskPlace(t)
    /\ \A k \in Keys : KeyPlace(k)
    /\ ProcessPlace

\* A slot that came with a paid request is still the request's.
Credit ==
    /\ tracker.credit \subseteq tracker.keys
    /\ IsFiniteSet(tracker.credit)
    /\ Cardinality(tracker.credit) <= tracker.run

(* ---- sequences and sets --------------------------------------------------- *)
\* Appending adds one element to the set of a sequence.
LEMMA AppendSet ==
    ASSUME NEW S, NEW s \in Seq(S), NEW e \in S
    PROVE  /\ Append(s, e) \in Seq(S)
           /\ Len(Append(s, e)) = Len(s) + 1
           /\ \A i \in 1..Len(s) : Append(s, e)[i] = s[i]
           /\ Append(s, e)[Len(s) + 1] = e
           /\ ToSet(Append(s, e)) = ToSet(s) \cup {e}
<1>1. DOMAIN Append(s, e) = 1..(Len(s) + 1) /\ DOMAIN s = 1..Len(s)
  OBVIOUS
<1>2. /\ Append(s, e) \in Seq(S)
      /\ Len(Append(s, e)) = Len(s) + 1
      /\ \A i \in 1..Len(s) : Append(s, e)[i] = s[i]
      /\ Append(s, e)[Len(s) + 1] = e
  OBVIOUS
<1>3. ToSet(Append(s, e)) = ToSet(s) \cup {e}
  BY <1>1, <1>2 DEF ToSet
<1> QED BY <1>2, <1>3

\* A non-empty sequence is its first element and the rest.
LEMMA HeadTailSet ==
    ASSUME NEW S, NEW s \in Seq(S), s # <<>>
    PROVE  /\ Head(s) = s[1] /\ Head(s) \in S
           /\ Tail(s) \in Seq(S) /\ Len(Tail(s)) = Len(s) - 1
           /\ \A i \in 1..Len(Tail(s)) : Tail(s)[i] = s[i + 1]
           /\ 1 \in DOMAIN s
           /\ ToSet(s) = {Head(s)} \cup ToSet(Tail(s))
<1>1. /\ Head(s) = s[1] /\ Head(s) \in S
      /\ Tail(s) \in Seq(S) /\ Len(Tail(s)) = Len(s) - 1
      /\ \A i \in 1..Len(Tail(s)) : Tail(s)[i] = s[i + 1]
      /\ Len(s) \in Nat /\ Len(s) >= 1
      /\ DOMAIN s = 1..Len(s) /\ DOMAIN Tail(s) = 1..Len(Tail(s))
  OBVIOUS
<1>2. ToSet(s) \subseteq {Head(s)} \cup ToSet(Tail(s))
  <2> SUFFICES ASSUME NEW i \in 1..Len(s) PROVE s[i] \in {Head(s)} \cup ToSet(Tail(s))
    BY <1>1 DEF ToSet
  <2>1. CASE i = 1
    BY <1>1, <2>1
  <2>2. CASE i # 1
    <3>1. i - 1 \in 1..Len(Tail(s)) /\ Tail(s)[i - 1] = s[i]
      BY <1>1, <2>2
    <3> QED BY <1>1, <3>1 DEF ToSet
  <2> QED BY <2>1, <2>2
<1>3. {Head(s)} \cup ToSet(Tail(s)) \subseteq ToSet(s)
  <2>1. ASSUME NEW i \in 1..Len(Tail(s)) PROVE Tail(s)[i] \in ToSet(s)
    <3>1. i + 1 \in DOMAIN s /\ Tail(s)[i] = s[i + 1]
      BY <1>1
    <3> QED BY <3>1 DEF ToSet
  <2>2. Head(s) \in ToSet(s)
    BY <1>1 DEF ToSet
  <2> QED BY <1>1, <2>1, <2>2 DEF ToSet
<1> QED BY <1>1, <1>2, <1>3

LEMMA AppendSale ==
    ASSUME NEW s \in Seq(1..MaxSold), NEW e \in 1..MaxSold
    PROVE  ToSet(Append(s, e)) = ToSet(s) \cup {e}
<1> DEFINE S == 1..MaxSold
<1>1. s \in Seq(S) /\ e \in S
  OBVIOUS
<1> HIDE DEF S
<1> QED BY <1>1, AppendSet

\* The set of a sequence holds what the sequence does.
LEMMA SetOfSeq == ASSUME NEW S, NEW s \in Seq(S) PROVE ToSet(s) \subseteq S
BY DEF ToSet

(* ---- the tracker ---------------------------------------------------------- *)
\* What each change of the tracker makes of it.
LEMMA BindIs ==
    ASSUME TypeOK, NEW k \in Keys, NEW r \in Response
    PROVE  /\ Bind(k, r) \in Tracker
           /\ Bind(k, r).keys = tracker.keys
           /\ Bind(k, r).bound = [tracker.bound EXCEPT ![k] = r]
           /\ Bind(k, r).run = tracker.run
           /\ Bind(k, r).credit = tracker.credit
<1>1. [tracker.bound EXCEPT ![k] = r] \in [Keys -> Response]
  BY DEF TypeOK, Tracker
<1>2. Bind(k, r) = [tracker EXCEPT !.bound = [tracker.bound EXCEPT ![k] = r]]
  BY DEF Bind, TypeOK, Tracker
<1> QED BY <1>1, <1>2 DEF TypeOK, Tracker

LEMMA ReleasedIs ==
    ASSUME TypeOK, NEW k \in Keys
    PROVE  /\ Released(k).keys = tracker.keys \ {k}
           /\ Released(k).bound = tracker.bound
           /\ Released(k).run = IF k \in tracker.credit THEN tracker.run - 1 ELSE tracker.run
           /\ Released(k).credit = tracker.credit \ {k}
           /\ Released(k).run \in Nat => Released(k) \in Tracker
BY DEF Released, TypeOK, Tracker

LEMMA AdmitIs ==
    ASSUME TypeOK, NEW k \in Keys
    PROVE  /\ Admit(k) \in Tracker
           /\ Admit(k).keys = tracker.keys \cup {k}
           /\ Admit(k).bound = tracker.bound
           /\ Admit(k).run = IF Accounted(k) THEN tracker.run + 1 ELSE tracker.run
           /\ Admit(k).credit = IF Accounted(k) THEN tracker.credit \cup {k} ELSE tracker.credit
<1>0. /\ tracker.keys \cup {k} \in SUBSET (Keys \cup {Slot})
      /\ tracker.credit \cup {k} \in SUBSET Keys /\ tracker.run + 1 \in Nat
  BY DEF TypeOK, Tracker
<1>1. CASE Accounted(k)
  <2>1. Admit(k) = [tracker EXCEPT !.keys = tracker.keys \cup {k}, !.run = tracker.run + 1,
                                   !.credit = tracker.credit \cup {k}]
    BY <1>1 DEF Admit
  <2>2. tracker \in Tracker
    BY DEF TypeOK
  <2>3. Admit(k) \in Tracker
    BY <1>0, <2>1, <2>2 DEF Tracker
  <2>4. /\ Admit(k).keys = tracker.keys \cup {k} /\ Admit(k).bound = tracker.bound
        /\ Admit(k).run = tracker.run + 1 /\ Admit(k).credit = tracker.credit \cup {k}
    BY <2>1, <2>2 DEF Tracker
  <2> QED BY <1>1, <2>3, <2>4
<1>2. CASE ~Accounted(k)
  <2>1. Admit(k) = [tracker EXCEPT !.keys = tracker.keys \cup {k}]
    BY <1>2 DEF Admit
  <2>2. tracker \in Tracker
    BY DEF TypeOK
  <2>3. Admit(k) \in Tracker
    BY <1>0, <2>1, <2>2 DEF Tracker
  <2>4. /\ Admit(k).keys = tracker.keys \cup {k} /\ Admit(k).bound = tracker.bound
        /\ Admit(k).run = tracker.run /\ Admit(k).credit = tracker.credit
    BY <2>1, <2>2 DEF Tracker
  <2> QED BY <1>2, <2>3, <2>4
<1> QED BY <1>1, <1>2

LEMMA ReleasedType ==
    ASSUME TypeOK, Credit, NEW k \in Keys
    PROVE  Released(k) \in Tracker
<1>2. k \in tracker.credit => tracker.run - 1 \in Nat
  <2> SUFFICES ASSUME k \in tracker.credit PROVE tracker.run - 1 \in Nat
    OBVIOUS
  <2>1. Cardinality(tracker.credit) \in Nat /\ Cardinality(tracker.credit) # 0
    BY FS_CardinalityType, FS_EmptySet DEF Credit
  <2> QED BY <2>1 DEF Credit, TypeOK, Tracker
<1> QED BY <1>2, ReleasedIs DEF TypeOK, Tracker

LEMMA SavedType ==
    ASSUME NEW tr \in Tracker
    PROVE  /\ Saved(tr) \in SavedTracker
           /\ Saved(tr).keys = tr.keys /\ Saved(tr).bound = tr.bound
BY DEF Saved, Tracker, SavedTracker

LEMMA EmptyTrackerType ==
    ASSUME NEW n \in Nat
    PROVE  EmptyTracker(n) \in Tracker
BY CallAssumption DEF EmptyTracker, Tracker, NoAnswers, Response

LEMMA RestartedType == TypeOK => RestartedTracker \in Tracker
<1> SUFFICES ASSUME TypeOK PROVE RestartedTracker \in Tracker
  OBVIOUS
<1>1. Recovered \in [Keys -> Response]
  BY DEF Recovered, TypeOK, SavedTracker
<1>f. IsFiniteSet(0..MaxSold)
  BY FS_Interval, CallAssumption
<1>2. Booked \subseteq 1..MaxSold /\ IsFiniteSet(Booked)
  <2>1. Booked \subseteq 1..MaxSold
    BY SetOfSeq DEF TypeOK, Booked
  <2>2. Booked \in SUBSET (0..MaxSold)
    BY <2>1, CallAssumption
  <2> QED BY <1>f, <2>1, <2>2, FS_Subset
<1>3. IsFiniteSet(Bound(Recovered))
  <2>1. Bound(Recovered) \in SUBSET (0..MaxSold)
    BY <1>1 DEF Bound, Response
  <2> QED BY <1>f, <2>1, FS_Subset
<1>4. Cardinality(Bound(Recovered)) \in Nat /\ Remaining(Booked) \in Nat
  BY <1>2, <1>3, FS_CardinalityType, CallAssumption DEF Remaining
<1> QED BY <1>1, <1>4 DEF RestartedTracker, Tracker, TypeOK, SavedTracker

(* ---- types ---------------------------------------------------------------- *)
LEMMA TypeInit == Init => TypeOK
<1> SUFFICES ASSUME Init PROVE TypeOK
  OBVIOUS
<1>1. EmptyTracker(MaxCalls) \in Tracker
  BY EmptyTrackerType, CallAssumption
<1>2. saved \in SavedTracker /\ cache \in [Keys -> Response] /\ 0 \in Response
  BY CallAssumption DEF Init, SavedTracker, NoAnswers, Response
<1>3. <<>> \in Seq(1..MaxSold) /\ <<>> \in Seq([key : Keys, first : BOOLEAN]) /\ Len(<<>>) = 0
  OBVIOUS
<1>4. tries \in [Tasks -> 0..MaxAttempts] /\ completed \in [Tasks -> Seq(1..MaxSold)]
  BY <1>3, CallAssumption DEF Init
<1>5. /\ lock \in [Keys -> Tasks \cup {NoTask}] /\ want \in [Tasks -> Keys \cup {NoKey}]
      /\ result \in [Tasks -> Response]
      /\ pc \in [Tasks -> {"idle", "registered", "queued", "calling", "answered", "failing", "done"}]
  BY <1>2 DEF Init
<1>6. tracker \in Tracker /\ rows \in Seq(1..MaxSold)
      /\ sold \in Seq([key : Keys, first : BOOLEAN]) /\ Len(sold) <= MaxSold
  BY <1>1, <1>3, CallAssumption DEF Init
<1> QED BY <1>2, <1>4, <1>5, <1>6 DEF Init, TypeOK

LEMMA ResponseType == 0 \in Response /\ 1..MaxSold \subseteq Response
BY CallAssumption DEF Response

\* Booking a response keeps the journal and the counters in their types.
LEMMA BookingType ==
    ASSUME TypeOK, NEW t \in Tasks, NEW r \in 1..MaxSold
    PROVE  /\ Journalled(r) \in Seq(1..MaxSold)
           /\ index \cup {r} \subseteq 1..MaxSold /\ booked \cup {r} \subseteq 1..MaxSold
           /\ reserved \ {t} \subseteq Tasks
BY AppendSet DEF Journalled, TypeOK

LEMMA UpsetType == ASSUME TypeOK, NEW kind \in Upsets, Upset(kind) PROVE upsets' \subseteq Upsets
BY DEF TypeOK, Upset

LEMMA TypeNext == TypeOK /\ Places /\ Credit /\ [Next]_vars => TypeOK'
<1> SUFFICES ASSUME TypeOK, Places, Credit, [Next]_vars PROVE TypeOK'
  OBVIOUS
<1>0. TypeOK /\ Places /\ 0 \in Response /\ 1..MaxSold \subseteq Response
  BY ResponseType
<1> USE CallAssumption, <1>0 DEF durable, calls
<1>a. ASSUME NEW t \in Tasks, NEW k \in Keys, RegisterKnown(t, k) PROVE TypeOK'
  BY <1>a DEF RegisterKnown, Asks, TypeOK
<1>b. ASSUME NEW t \in Tasks, NEW k \in Keys, RegisterNew(t, k) PROVE TypeOK'
  <2>1. tracker' \in Tracker /\ saved' \in SavedTracker
    BY <1>b, AdmitIs, SavedType DEF RegisterNew, Checkpoint
  <2> QED BY <1>b, <2>1 DEF RegisterNew, Asks, TypeOK
<1>c. ASSUME NEW t \in Tasks, NEW k \in Keys, ExchangeSlot(t, k) PROVE TypeOK'
  <2>1. (tracker.keys \ {Slot}) \cup {k} \in SUBSET (Keys \cup {Slot})
    BY DEF TypeOK, Tracker
  <2>2. tracker' \in Tracker /\ saved' \in SavedTracker
    <3>1. tracker' = [tracker EXCEPT !.keys = (tracker.keys \ {Slot}) \cup {k}] /\ saved' = Saved(tracker')
      BY <1>c DEF ExchangeSlot, Checkpoint
    <3>2. tracker' \in Tracker
      <4>1. tracker \in Tracker
        BY DEF TypeOK
      <4> QED BY <2>1, <3>1, <4>1 DEF Tracker
    <3> QED BY <3>1, <3>2, SavedType
  <2> QED BY SMTT(30), <1>c, <2>2 DEF ExchangeSlot, Asks, TypeOK
<1>d. CASE ReserveSlot
  <2>1. tracker.keys \cup {Slot} \in SUBSET (Keys \cup {Slot})
    BY DEF TypeOK, Tracker
  <2>2. tracker' \in Tracker /\ saved' \in SavedTracker
    <3>1. tracker' = [tracker EXCEPT !.keys = tracker.keys \cup {Slot}] /\ saved' = Saved(tracker')
      BY <1>d DEF ReserveSlot, Checkpoint
    <3>2. tracker' \in Tracker
      <4>1. tracker \in Tracker
        BY DEF TypeOK
      <4> QED BY <2>1, <3>1, <4>1 DEF Tracker
    <3> QED BY <3>1, <3>2, SavedType
  <2> QED BY <1>d, <2>2 DEF ReserveSlot, TypeOK
<1>e. CASE ReleaseSlot
  <2>1. tracker.keys \ {Slot} \in SUBSET (Keys \cup {Slot})
    BY DEF TypeOK, Tracker
  <2>2. tracker' \in Tracker /\ saved' \in SavedTracker
    <3>1. tracker' = [tracker EXCEPT !.keys = tracker.keys \ {Slot}] /\ saved' = Saved(tracker')
      BY <1>e DEF ReleaseSlot, Checkpoint
    <3>2. tracker' \in Tracker
      <4>1. tracker \in Tracker
        BY DEF TypeOK
      <4> QED BY <2>1, <3>1, <4>1 DEF Tracker
    <3> QED BY <3>1, <3>2, SavedType
  <2> QED BY <1>e, <2>2 DEF ReleaseSlot, TypeOK
<1>f. ASSUME NEW t \in Tasks, ReleaseRequest(t) PROVE TypeOK'
  <2>1. want[t] \in Keys
    BY <1>f DEF ReleaseRequest, Places, TaskPlace
  <2>2. tracker' \in Tracker /\ saved' \in SavedTracker
    BY <1>f, <2>1, ReleasedType, SavedType DEF ReleaseRequest, Checkpoint
  <2> QED BY <1>f, <2>2 DEF ReleaseRequest, TypeOK
<1>g. ASSUME NEW t \in Tasks, Launch(t) PROVE TypeOK'
  BY <1>g DEF Launch, TypeOK
<1>h. ASSUME NEW t \in Tasks, Collect(t) PROVE TypeOK'
  BY <1>h, SavedType DEF Collect, TypeOK
<1>i. ASSUME NEW t \in Tasks, ReplayCached(t) PROVE TypeOK'
  <2>1. want[t] \in Keys /\ cache[want[t]] \in Response /\ cache[want[t]] \in 1..MaxSold
    BY <1>i DEF ReplayCached, Enters, Places, TaskPlace, TypeOK, Response
  <2>2. tracker' \in Tracker
    BY <1>i, <2>1, BindIs DEF ReplayCached
  <2> QED BY <1>i, <2>1, <2>2, BookingType DEF ReplayCached, UsageOnce, Count, TypeOK
<1>G. ASSUME NEW t \in Tasks, GivesUp(t)
      PROVE  /\ pc' \in [Tasks -> {"idle", "registered", "queued", "calling", "answered", "failing", "done"}]
             /\ want' \in [Tasks -> Keys \cup {NoKey}] /\ tries' \in [Tasks -> 0..MaxAttempts]
             /\ completed' \in [Tasks -> Seq(1..MaxSold)]
  BY <1>G DEF GivesUp, TypeOK
<1>j. ASSUME NEW t \in Tasks, Refuse(t) PROVE TypeOK'
  BY <1>j, <1>G DEF Refuse, TypeOK
<1>k. ASSUME NEW t \in Tasks, StartCall(t) PROVE TypeOK'
  BY <1>k DEF StartCall, TypeOK
<1>l. ASSUME NEW t \in Tasks, Sell(t), pc[t] # "idle"
      PROVE  /\ sold' \in Seq([key : Keys, first : BOOLEAN]) /\ Len(sold') <= MaxSold
             /\ completed' \in [Tasks -> Seq(1..MaxSold)]
  <2>1. [key |-> want[t], first |-> completed[t] = <<>>] \in [key : Keys, first : BOOLEAN]
    BY <1>l DEF Places, TaskPlace
  <2>2. Len(sold) + 1 \in 1..MaxSold
    BY <1>l DEF Sell, TypeOK
  <2>3. Append(completed[t], Len(sold) + 1) \in Seq(1..MaxSold)
    BY <2>2, AppendSet DEF TypeOK
  <2>4. sold' \in Seq([key : Keys, first : BOOLEAN]) /\ Len(sold') = Len(sold) + 1
    BY <1>l, <2>1, AppendSet DEF Sell, TypeOK
  <2> QED BY <1>l, <2>2, <2>3, <2>4 DEF Sell, TypeOK
<1>m. ASSUME NEW t \in Tasks, AttemptSucceeds(t) PROVE TypeOK'
  BY <1>l, <1>m DEF AttemptSucceeds, AttemptStep, TypeOK
<1>n. ASSUME NEW t \in Tasks, pc[t] = "calling", RetryOrStop(t)
      PROVE  /\ tries' \in [Tasks -> 0..MaxAttempts]
             /\ pc' \in [Tasks -> {"idle", "registered", "queued", "calling", "answered", "failing", "done"}]
  <2>1. tries[t] + 1 \in 0..MaxAttempts
    BY <1>n DEF Places, TaskPlace, TypeOK
  <2> QED BY <1>n, <2>1 DEF RetryOrStop, TypeOK
<1>o. ASSUME NEW t \in Tasks, AttemptInvalid(t) PROVE TypeOK'
  BY <1>l, <1>n, <1>o DEF AttemptInvalid, AttemptStep, TypeOK
<1>p. ASSUME NEW t \in Tasks, AttemptBreaks(t) PROVE TypeOK'
  BY <1>n, <1>p DEF AttemptBreaks, AttemptStep, TypeOK
<1>q. ASSUME NEW t \in Tasks, Abandon(t), upsets' \subseteq Upsets PROVE TypeOK'
  BY <1>q, <1>G DEF Abandon, TypeOK
<1>r. ASSUME NEW t \in Tasks, Cancel(t) PROVE TypeOK'
  BY <1>r, <1>q, UpsetType DEF Cancel, Upsets
<1>s. ASSUME NEW t \in Tasks, TimeOut(t) PROVE TypeOK'
  BY <1>s, <1>q DEF TimeOut, TypeOK
<1>t. CASE Expire
  <2>1. upsets' \subseteq Upsets
    BY <1>t, UpsetType DEF Expire, Upsets
  <2> QED BY <1>t, <2>1 DEF Expire, TypeOK
<1>u. ASSUME NEW t \in Tasks, BookAttempt(t) PROVE TypeOK'
  <2>1. Head(completed[t]) \in 1..MaxSold /\ Tail(completed[t]) \in Seq(1..MaxSold)
    BY <1>u, HeadTailSet DEF BookAttempt, TypeOK
  <2> QED BY <1>u, <2>1, BookingType DEF BookAttempt, UsageOnce, Count, TypeOK
<1>v. ASSUME NEW t \in Tasks, FinishCall(t) PROVE TypeOK'
  <2>1. want[t] \in Keys /\ Persisted(t) \in Response
    BY <1>v DEF FinishCall, Settles, Places, TaskPlace, Persisted, TypeOK
  <2>2. tracker' \in Tracker
    BY <1>v, <2>1, BindIs DEF FinishCall
  <2> QED BY <1>v, <2>1, <2>2 DEF FinishCall, TypeOK
<1>w. ASSUME NEW t \in Tasks, FinishFailure(t) PROVE TypeOK'
  BY <1>w, <1>G DEF FinishFailure, TypeOK
<1>x. ASSUME NEW t \in Tasks, BookFault(t) PROVE TypeOK'
  <2>1. Head(completed[t]) \in 1..MaxSold
    BY <1>x, HeadTailSet DEF BookFault, TypeOK
  <2>2. upsets' \subseteq Upsets
    BY <1>x, UpsetType DEF BookFault, Raise, Upsets
  <2>3. rows' \in Seq(1..MaxSold) /\ torn' \in BOOLEAN
    <3>1. Journalled(Head(completed[t])) \in Seq(1..MaxSold)
      BY <2>1, BookingType
    <3> QED BY <1>x, <3>1 DEF BookFault, TypeOK
  <2>4. booked' \subseteq 1..MaxSold /\ reserved' \subseteq Tasks
    BY <1>x, <2>1, BookingType DEF BookFault, Count
  <2> QED BY <1>x, <1>G, <2>2, <2>3, <2>4 DEF BookFault, Raise, TypeOK
<1>y. ASSUME NEW t \in Tasks, CacheFault(t) PROVE TypeOK'
  <2>1. upsets' \subseteq Upsets
    BY <1>y, UpsetType DEF CacheFault, Raise, Upsets
  <2> QED BY <1>y, <1>G, <2>1 DEF CacheFault, Raise, TypeOK
<1>z. CASE Crash
  <2>1. upsets' \subseteq Upsets
    BY <1>z, UpsetType DEF Crash, Upsets
  <2>2. tracker' \in Tracker
    BY <1>z, EmptyTrackerType DEF Crash
  <2> QED BY <1>z, <2>1, <2>2 DEF Crash, TypeOK
<1>A. CASE Archive
  <2>1. upsets' \subseteq Upsets
    BY <1>A, UpsetType DEF Archive, Upsets
  <2>2. saved' \in SavedTracker
    BY <1>A DEF Archive, SavedTracker, NoAnswers
  <2> QED BY <1>A, <2>1, <2>2 DEF Archive, TypeOK
<1>B. CASE Restart
  <2>1. Verdict \in {"corrupt", "mismatch", "refused", "up"}
    BY DEF Verdict
  <2>2. Booked \subseteq 1..MaxSold
    BY SetOfSeq DEF Booked, TypeOK
  <2>3. tracker' \in Tracker /\ saved' \in SavedTracker
    BY <1>B, RestartedType, SavedType DEF Restart, Checkpoint, TypeOK
  <2>4. index' \subseteq 1..MaxSold /\ booked' \subseteq 1..MaxSold
    BY <1>B, <2>2 DEF Restart, TypeOK
  <2> QED BY <1>B, <2>1, <2>3, <2>4 DEF Restart, TypeOK
<1>C. CASE UNCHANGED vars
  BY <1>C DEF vars, TypeOK
<1> QED
  BY <1>a, <1>b, <1>c, <1>d, <1>e, <1>f, <1>g, <1>h, <1>i, <1>j, <1>k, <1>m, <1>o, <1>p,
     <1>r, <1>s, <1>t, <1>u, <1>v, <1>w, <1>x, <1>y, <1>z, <1>A, <1>B, <1>C DEF Next, Step
(* ---- places and credit ----------------------------------------------------- *)
LEMMA PlacesInit == Init => Places
BY CallAssumption DEF Init, Places, TaskPlace, KeyPlace, ProcessPlace, InFlight

Elsewhere(t) ==
    \A u \in Tasks \ {t} :
        /\ pc'[u] = pc[u] /\ want'[u] = want[u]
        /\ completed'[u] = completed[u] /\ tries'[u] = tries[u]
        /\ u \in reserved' <=> u \in reserved

LocksOf(t) ==
    \A k \in Keys :
        /\ lock'[k] = lock[k] \/ (lock[k] \in {t, NoTask} /\ lock'[k] \in {t, NoTask})
        /\ lock'[k] = t => pc'[t] \in InFlight /\ want'[t] = k

\* A step of one task keeps the others where they are.
LEMMA OneTaskMoves ==
    ASSUME TypeOK, Places, NEW t \in Tasks, up = "up", up' = "up",
           Elsewhere(t), LocksOf(t), TaskPlace(t)',
           busy' = NoTask \/ (busy' = t /\ pc'[t] \in {"answered", "failing"})
    PROVE  Places'
<1>1. ASSUME NEW u \in Tasks PROVE TaskPlace(u)'
  <2>1. CASE u = t
    BY <2>1
  <2>2. CASE u # t
    <3>1. /\ pc'[u] = pc[u] /\ want'[u] = want[u]
          /\ completed'[u] = completed[u] /\ tries'[u] = tries[u]
          /\ u \in reserved' <=> u \in reserved
      BY <2>2 DEF Elsewhere
    <3>2. pc[u] \in InFlight => lock[want[u]] = u /\ lock'[want[u]] = u
      <4> SUFFICES ASSUME pc[u] \in InFlight
                   PROVE  lock[want[u]] = u /\ lock'[want[u]] = u
        OBVIOUS
      <4>1. want[u] \in Keys /\ lock[want[u]] = u
        BY DEF Places, TaskPlace, InFlight
      <4>2. u # NoTask
        BY CallAssumption
      <4> QED BY <2>2, <4>1, <4>2 DEF LocksOf
    <3>3. TaskPlace(u)
      BY DEF Places
    <3> QED BY <3>1, <3>2, <3>3 DEF TaskPlace
  <2> QED BY <2>1, <2>2
<1>2. ASSUME NEW k \in Keys PROVE KeyPlace(k)'
  <2> SUFFICES ASSUME lock'[k] # NoTask PROVE pc'[lock'[k]] \in InFlight /\ want'[lock'[k]] = k
    BY DEF KeyPlace
  <2>1. CASE lock'[k] = t
    BY <2>1 DEF LocksOf
  <2>2. CASE lock'[k] # t
    <3>1. lock'[k] = lock[k] /\ lock[k] \in Tasks \ {t}
      BY <2>2 DEF TypeOK, LocksOf
    <3>2. pc[lock[k]] \in InFlight /\ want[lock[k]] = k
      BY <3>1 DEF Places, KeyPlace
    <3> QED BY <3>1, <3>2 DEF Elsewhere
  <2> QED BY <2>1, <2>2
<1>3. ProcessPlace'
  BY DEF ProcessPlace
<1> QED BY <1>1, <1>2, <1>3 DEF Places

LEMMA PlacesNext == TypeOK /\ Places /\ [Next]_vars => Places'
<1> SUFFICES ASSUME TypeOK, Places, [Next]_vars PROVE Places'
  OBVIOUS
<1>0. /\ pc \in [Tasks -> {"idle", "registered", "queued", "calling", "answered", "failing", "done"}]
      /\ want \in [Tasks -> Keys \cup {NoKey}] /\ tries \in [Tasks -> 0..MaxAttempts]
      /\ completed \in [Tasks -> Seq(1..MaxSold)]
      /\ lock \in [Keys -> Tasks \cup {NoTask}] /\ reserved \subseteq Tasks
      /\ busy \in Tasks \cup {NoTask}
  BY DEF TypeOK
<1>1. ASSUME NEW t \in Tasks
      PROVE  TaskPlace(t) /\ (\A k \in Keys : lock[k] = t => pc[t] \in InFlight /\ want[t] = k)
  BY CallAssumption DEF Places, KeyPlace
<1> USE CallAssumption, <1>0 DEF durable, calls, InFlight, Running
<1>a. ASSUME NEW t \in Tasks, NEW k \in Keys, Asks(t, k) PROVE Places'
  <2>p. TaskPlace(t) /\ \A key \in Keys : lock[key] = t => pc[t] \in InFlight /\ want[t] = key
    BY <1>1
  <2>1. Elsewhere(t)
    BY <1>a DEF Elsewhere, Asks
  <2>2. LocksOf(t)
    BY <2>p, <1>a DEF LocksOf, TaskPlace, Asks
  <2>3. TaskPlace(t)'
    BY <2>p, <1>a DEF TaskPlace, Asks
  <2>4. busy' = NoTask \/ (busy' = t /\ pc'[t] \in {"answered", "failing"})
    BY <1>a DEF Asks
  <2>5. up = "up" /\ up' = "up"
    BY <1>a DEF Asks
  <2> QED BY <2>1, <2>2, <2>3, <2>4, <2>5, OneTaskMoves
<1>b. CASE ReserveSlot \/ ReleaseSlot \/ Expire \/ Archive \/ UNCHANGED vars
  BY <1>b DEF ReserveSlot, ReleaseSlot, Expire, Archive, vars, Places, TaskPlace, KeyPlace,
              ProcessPlace
<1>c. ASSUME NEW t \in Tasks, ReleaseRequest(t) PROVE Places'
  <2>p. TaskPlace(t) /\ \A k \in Keys : lock[k] = t => pc[t] \in InFlight /\ want[t] = k
    BY <1>1
  <2>1. Elsewhere(t)
    BY <1>c DEF Elsewhere, ReleaseRequest
  <2>2. LocksOf(t)
    BY <2>p, <1>c DEF LocksOf, TaskPlace, ReleaseRequest
  <2>3. TaskPlace(t)'
    BY <2>p, <1>c DEF TaskPlace, ReleaseRequest
  <2>4. busy' = NoTask \/ (busy' = t /\ pc'[t] \in {"answered", "failing"})
    BY <1>c DEF ReleaseRequest
  <2>5. up = "up" /\ up' = "up"
    BY <1>c DEF ReleaseRequest
  <2> QED BY <2>1, <2>2, <2>3, <2>4, <2>5, OneTaskMoves
<1>d. ASSUME NEW t \in Tasks, Launch(t) PROVE Places'
  <2>p. TaskPlace(t) /\ \A k \in Keys : lock[k] = t => pc[t] \in InFlight /\ want[t] = k
    BY <1>1
  <2>1. Elsewhere(t)
    BY <1>d DEF Elsewhere, Launch
  <2>2. LocksOf(t)
    BY <2>p, <1>d DEF LocksOf, TaskPlace, Launch
  <2>3. TaskPlace(t)'
    BY <2>p, <1>d DEF TaskPlace, Launch
  <2>4. busy' = NoTask \/ (busy' = t /\ pc'[t] \in {"answered", "failing"})
    BY <1>d DEF Launch
  <2>5. up = "up" /\ up' = "up"
    BY <1>d DEF Launch
  <2> QED BY <2>1, <2>2, <2>3, <2>4, <2>5, OneTaskMoves
<1>e. ASSUME NEW t \in Tasks, Collect(t) PROVE Places'
  <2>p. TaskPlace(t) /\ \A k \in Keys : lock[k] = t => pc[t] \in InFlight /\ want[t] = k
    BY <1>1
  <2>1. Elsewhere(t)
    BY <1>e DEF Elsewhere, Collect
  <2>2. LocksOf(t)
    BY <2>p, <1>e DEF LocksOf, TaskPlace, Collect
  <2>3. TaskPlace(t)'
    BY <2>p, <1>e DEF TaskPlace, Collect
  <2>4. busy' = NoTask \/ (busy' = t /\ pc'[t] \in {"answered", "failing"})
    BY <1>e DEF Collect
  <2>5. up = "up" /\ up' = "up"
    BY <1>e DEF Collect
  <2> QED BY <2>1, <2>2, <2>3, <2>4, <2>5, OneTaskMoves
<1>f. ASSUME NEW t \in Tasks, ReplayCached(t) PROVE Places'
  <2>p. TaskPlace(t) /\ \A k \in Keys : lock[k] = t => pc[t] \in InFlight /\ want[t] = k
    BY <1>1
  <2>1. Elsewhere(t)
    BY <1>f DEF Elsewhere, ReplayCached, Enters, Count
  <2>2. LocksOf(t)
    BY <2>p, <1>f DEF LocksOf, TaskPlace, ReplayCached, Enters, Count
  <2>3. TaskPlace(t)'
    BY <2>p, <1>f DEF TaskPlace, ReplayCached, Enters, Count
  <2>4. busy' = NoTask \/ (busy' = t /\ pc'[t] \in {"answered", "failing"})
    BY <1>f DEF ReplayCached, Enters, Count
  <2>5. up = "up" /\ up' = "up"
    BY <1>f DEF ReplayCached, Enters, Count
  <2> QED BY <2>1, <2>2, <2>3, <2>4, <2>5, OneTaskMoves
<1>g. ASSUME NEW t \in Tasks, Refuse(t) PROVE Places'
  <2>p. TaskPlace(t) /\ \A k \in Keys : lock[k] = t => pc[t] \in InFlight /\ want[t] = k
    BY <1>1
  <2>1. Elsewhere(t)
    BY <1>g DEF Elsewhere, Refuse, Enters, GivesUp
  <2>2. LocksOf(t)
    BY <2>p, <1>g DEF LocksOf, TaskPlace, Refuse, Enters, GivesUp
  <2>3. TaskPlace(t)'
    BY <2>p, <1>g DEF TaskPlace, Refuse, Enters, GivesUp
  <2>4. busy' = NoTask \/ (busy' = t /\ pc'[t] \in {"answered", "failing"})
    BY <1>g DEF Refuse, Enters, GivesUp
  <2>5. up = "up" /\ up' = "up"
    BY <1>g DEF Refuse, Enters, GivesUp
  <2> QED BY <2>1, <2>2, <2>3, <2>4, <2>5, OneTaskMoves
<1>h. ASSUME NEW t \in Tasks, StartCall(t) PROVE Places'
  <2>p. TaskPlace(t) /\ \A k \in Keys : lock[k] = t => pc[t] \in InFlight /\ want[t] = k
    BY <1>1
  <2>1. Elsewhere(t)
    BY <1>h DEF Elsewhere, StartCall, Enters
  <2>2. LocksOf(t)
    BY <2>p, <1>h DEF LocksOf, TaskPlace, StartCall, Enters
  <2>3. TaskPlace(t)'
    BY <2>p, <1>h DEF TaskPlace, StartCall, Enters
  <2>4. busy' = NoTask \/ (busy' = t /\ pc'[t] \in {"answered", "failing"})
    BY <1>h DEF StartCall, Enters
  <2>5. up = "up" /\ up' = "up"
    BY <1>h DEF StartCall, Enters
  <2> QED BY <2>1, <2>2, <2>3, <2>4, <2>5, OneTaskMoves
<1>i. ASSUME NEW t \in Tasks, AttemptSucceeds(t) PROVE Places'
  <2>0. completed'[t] # <<>>
    <3>1. Len(sold) + 1 \in 1..MaxSold /\ completed[t] \in Seq(1..MaxSold)
      BY <1>i DEF AttemptSucceeds, Sell, TypeOK
    <3>2. completed'[t] = Append(completed[t], Len(sold) + 1)
      BY <1>i DEF AttemptSucceeds, Sell
    <3>3. Len(completed'[t]) = Len(completed[t]) + 1
      BY <3>1, <3>2, AppendSet
    <3> QED BY <3>1, <3>3
  <2>p. TaskPlace(t) /\ \A k \in Keys : lock[k] = t => pc[t] \in InFlight /\ want[t] = k
    BY <1>1
  <2>1. Elsewhere(t)
    BY <1>i DEF Elsewhere, AttemptSucceeds, AttemptStep, Sell
  <2>2. LocksOf(t)
    BY <2>p, <1>i DEF LocksOf, TaskPlace, AttemptSucceeds, AttemptStep, Sell
  <2>3. TaskPlace(t)'
    BY <2>p, <2>0, <1>i DEF TaskPlace, AttemptSucceeds, AttemptStep, Sell
  <2>4. busy' = NoTask \/ (busy' = t /\ pc'[t] \in {"answered", "failing"})
    BY <1>i DEF AttemptSucceeds, AttemptStep, Sell
  <2>5. up = "up" /\ up' = "up"
    BY <1>i DEF AttemptSucceeds, AttemptStep, Sell
  <2> QED BY <2>1, <2>2, <2>3, <2>4, <2>5, OneTaskMoves
<1>j. ASSUME NEW t \in Tasks, AttemptInvalid(t) PROVE Places'
  <2>p. TaskPlace(t) /\ \A k \in Keys : lock[k] = t => pc[t] \in InFlight /\ want[t] = k
    BY <1>1
  <2>1. Elsewhere(t)
    BY <1>j DEF Elsewhere, AttemptInvalid, AttemptStep, Sell, RetryOrStop
  <2>2. LocksOf(t)
    BY <2>p, <1>j DEF LocksOf, TaskPlace, AttemptInvalid, AttemptStep, Sell, RetryOrStop
  <2>3. TaskPlace(t)'
    BY <2>p, <1>j DEF TaskPlace, AttemptInvalid, AttemptStep, Sell, RetryOrStop
  <2>4. busy' = NoTask \/ (busy' = t /\ pc'[t] \in {"answered", "failing"})
    BY <1>j DEF AttemptInvalid, AttemptStep, Sell, RetryOrStop
  <2>5. up = "up" /\ up' = "up"
    BY <1>j DEF AttemptInvalid, AttemptStep, Sell, RetryOrStop
  <2> QED BY <2>1, <2>2, <2>3, <2>4, <2>5, OneTaskMoves
<1>k. ASSUME NEW t \in Tasks, AttemptBreaks(t) PROVE Places'
  <2>p. TaskPlace(t) /\ \A k \in Keys : lock[k] = t => pc[t] \in InFlight /\ want[t] = k
    BY <1>1
  <2>1. Elsewhere(t)
    BY <1>k DEF Elsewhere, AttemptBreaks, AttemptStep, RetryOrStop
  <2>2. LocksOf(t)
    BY <2>p, <1>k DEF LocksOf, TaskPlace, AttemptBreaks, AttemptStep, RetryOrStop
  <2>3. TaskPlace(t)'
    BY <2>p, <1>k DEF TaskPlace, AttemptBreaks, AttemptStep, RetryOrStop
  <2>4. busy' = NoTask \/ (busy' = t /\ pc'[t] \in {"answered", "failing"})
    BY <1>k DEF AttemptBreaks, AttemptStep, RetryOrStop
  <2>5. up = "up" /\ up' = "up"
    BY <1>k DEF AttemptBreaks, AttemptStep, RetryOrStop
  <2> QED BY <2>1, <2>2, <2>3, <2>4, <2>5, OneTaskMoves
<1>l. ASSUME NEW t \in Tasks, Running, pc[t] # "idle", Abandon(t) PROVE Places'
  <2>p. TaskPlace(t) /\ \A k \in Keys : lock[k] = t => pc[t] \in InFlight /\ want[t] = k
    BY <1>1
  <2>1. Elsewhere(t)
    BY <1>l DEF Elsewhere, Abandon, GivesUp
  <2>2. LocksOf(t)
    BY <2>p, <1>l DEF LocksOf, TaskPlace, Abandon, GivesUp
  <2>3. TaskPlace(t)'
    BY <2>p, <1>l DEF TaskPlace, Abandon, GivesUp
  <2>4. busy' = NoTask \/ (busy' = t /\ pc'[t] \in {"answered", "failing"})
    BY <1>l DEF Abandon, GivesUp
  <2>5. up = "up" /\ up' = "up"
    BY <1>l DEF Abandon, GivesUp
  <2> QED BY <2>1, <2>2, <2>3, <2>4, <2>5, OneTaskMoves
<1>m. ASSUME NEW t \in Tasks, BookAttempt(t) PROVE Places'
  <2>p. TaskPlace(t) /\ \A k \in Keys : lock[k] = t => pc[t] \in InFlight /\ want[t] = k
    BY <1>1
  <2>1. Elsewhere(t)
    BY <1>m DEF Elsewhere, BookAttempt, Settles, Count
  <2>2. LocksOf(t)
    BY <2>p, <1>m DEF LocksOf, TaskPlace, BookAttempt, Settles, Count
  <2>3. TaskPlace(t)'
    BY <2>p, <1>m DEF TaskPlace, BookAttempt, Settles, Count
  <2>4. busy' = NoTask \/ (busy' = t /\ pc'[t] \in {"answered", "failing"})
    BY <1>m DEF BookAttempt, Settles, Count
  <2>5. up = "up" /\ up' = "up"
    BY <1>m DEF BookAttempt, Settles, Count
  <2> QED BY <2>1, <2>2, <2>3, <2>4, <2>5, OneTaskMoves
<1>n. ASSUME NEW t \in Tasks, Settles(t), reserved' = reserved \ {t},
             lock' = [lock EXCEPT ![want[t]] = NoTask], busy' = NoTask,
             GivesUp(t), UNCHANGED up
      PROVE Places'
  <2>p. TaskPlace(t) /\ \A k \in Keys : lock[k] = t => pc[t] \in InFlight /\ want[t] = k
    BY <1>1
  <2>1. Elsewhere(t)
    BY <1>n DEF Elsewhere, Settles, GivesUp
  <2>2. LocksOf(t)
    BY <2>p, <1>n DEF LocksOf, TaskPlace, Settles, GivesUp
  <2>3. TaskPlace(t)'
    BY <2>p, <1>n DEF TaskPlace, Settles, GivesUp
  <2>4. busy' = NoTask \/ (busy' = t /\ pc'[t] \in {"answered", "failing"})
    BY <1>n DEF Settles, GivesUp
  <2>5. up = "up" /\ up' = "up"
    BY <1>n DEF Settles, GivesUp
  <2> QED BY <2>1, <2>2, <2>3, <2>4, <2>5, OneTaskMoves
<1>o. ASSUME NEW t \in Tasks, FinishCall(t) PROVE Places'
  <2>p. TaskPlace(t) /\ \A k \in Keys : lock[k] = t => pc[t] \in InFlight /\ want[t] = k
    BY <1>1
  <2>1. Elsewhere(t)
    BY <1>o DEF Elsewhere, FinishCall, Settles
  <2>2. LocksOf(t)
    BY <2>p, <1>o DEF LocksOf, TaskPlace, FinishCall, Settles
  <2>3. TaskPlace(t)'
    BY <2>p, <1>o DEF TaskPlace, FinishCall, Settles
  <2>4. busy' = NoTask \/ (busy' = t /\ pc'[t] \in {"answered", "failing"})
    BY <1>o DEF FinishCall, Settles
  <2>5. up = "up" /\ up' = "up"
    BY <1>o DEF FinishCall, Settles
  <2> QED BY <2>1, <2>2, <2>3, <2>4, <2>5, OneTaskMoves
<1>p. CASE Crash
  BY <1>p DEF Crash, Places, TaskPlace, KeyPlace, ProcessPlace
<1>q. CASE Restart
  BY <1>q DEF Restart, Places, TaskPlace, KeyPlace, ProcessPlace
<1>r. ASSUME NEW t \in Tasks, CacheFault(t) PROVE Places'
  <2>1. reserved' = reserved \ {t}
    BY <1>1, <1>r DEF CacheFault, Settles, TaskPlace
  <2> QED BY <1>n, <1>r, <2>1 DEF CacheFault, Raise
<1>s. ASSUME NEW t \in Tasks, FinishFailure(t) \/ BookFault(t) PROVE Places'
  BY <1>n, <1>s DEF FinishFailure, BookFault, Count, Raise
<1>t. ASSUME NEW t \in Tasks, Step(t) PROVE Places'
  BY <1>a, <1>c, <1>d, <1>e, <1>f, <1>g, <1>h, <1>i, <1>j, <1>k, <1>l, <1>m, <1>o, <1>r, <1>s, <1>t
     DEF Step, RegisterKnown, RegisterNew, ExchangeSlot, Cancel, TimeOut
<1> QED BY <1>b, <1>p, <1>q, <1>t DEF Next
LEMMA CreditInit == Init => Credit
BY FS_EmptySet, CallAssumption DEF Init, Credit, EmptyTracker

\* A tracker whose credit and run stay and whose keys lose no credited request.
LEMMA CreditStays ==
    ASSUME Credit, tracker'.credit = tracker.credit, tracker'.run = tracker.run,
           tracker.credit \subseteq tracker'.keys
    PROVE  Credit'
BY DEF Credit

LEMMA CreditNext == TypeOK /\ Places /\ Credit /\ [Next]_vars => Credit'
<1> SUFFICES ASSUME TypeOK, Places, Credit, [Next]_vars PROVE Credit'
  OBVIOUS
<1>0. /\ tracker \in Tracker /\ tracker.credit \subseteq Keys /\ tracker.credit \subseteq tracker.keys
      /\ tracker.run \in Nat /\ Slot \notin Keys
  BY CallAssumption DEF TypeOK, Tracker, Credit
<1>1. ASSUME NEW t \in Tasks, NEW k \in Keys, RegisterNew(t, k) PROVE Credit'
  <2>1. tracker' = Admit(k) /\ k \notin tracker.keys
    BY <1>1 DEF RegisterNew, Checkpoint
  <2>2. CASE Accounted(k)
    <3>1. /\ tracker'.keys = tracker.keys \cup {k} /\ tracker'.run = tracker.run + 1
          /\ tracker'.credit = tracker.credit \cup {k}
      BY <2>1, <2>2, AdmitIs
    <3>2. IsFiniteSet(tracker'.credit) /\ Cardinality(tracker'.credit) = Cardinality(tracker.credit) + 1
      BY <1>0, <2>1, <3>1, FS_AddElement DEF Credit
    <3>3. Cardinality(tracker.credit) \in Nat
      BY FS_CardinalityType DEF Credit
    <3> QED BY <1>0, <3>1, <3>2, <3>3 DEF Credit
  <2>3. CASE ~Accounted(k)
    <3>1. /\ tracker'.keys = tracker.keys \cup {k} /\ tracker'.run = tracker.run
          /\ tracker'.credit = tracker.credit
      BY <2>1, <2>3, AdmitIs
    <3> QED BY <1>0, <3>1, CreditStays
  <2> QED BY <2>2, <2>3
<1>2. ASSUME NEW t \in Tasks, ReleaseRequest(t) PROVE Credit'
  <2>1. want[t] \in Keys /\ tracker' = Released(want[t])
    BY <1>2 DEF ReleaseRequest, Checkpoint, Places, TaskPlace
  <2>2. /\ tracker'.keys = tracker.keys \ {want[t]}
        /\ tracker'.run = IF want[t] \in tracker.credit THEN tracker.run - 1 ELSE tracker.run
        /\ tracker'.credit = tracker.credit \ {want[t]}
    BY <2>1, ReleasedIs
  <2>3. /\ IsFiniteSet(tracker'.credit)
        /\ Cardinality(tracker'.credit) = IF want[t] \in tracker.credit
                                          THEN Cardinality(tracker.credit) - 1
                                          ELSE Cardinality(tracker.credit)
    BY <2>2, FS_RemoveElement DEF Credit
  <2>4. Cardinality(tracker.credit) \in Nat
    BY FS_CardinalityType DEF Credit
  <2> QED BY <1>0, <2>2, <2>3, <2>4 DEF Credit
<1>3. ASSUME NEW ks, tracker.credit \subseteq ks, tracker' = [tracker EXCEPT !.keys = ks] PROVE Credit'
  <2>1. tracker'.credit = tracker.credit /\ tracker'.run = tracker.run /\ tracker'.keys = ks
    BY <1>0, <1>3 DEF Tracker
  <2> QED BY <1>3, <2>1, CreditStays
<1>4. ASSUME NEW t \in Tasks, NEW k \in Keys, ExchangeSlot(t, k) PROVE Credit'
  <2>1. tracker.credit \subseteq (tracker.keys \ {Slot}) \cup {k}
    BY <1>0
  <2>2. tracker' = [tracker EXCEPT !.keys = (tracker.keys \ {Slot}) \cup {k}]
    BY <1>4 DEF ExchangeSlot, Checkpoint
  <2> QED BY <1>3, <2>1, <2>2
<1>5. CASE ReserveSlot
  <2>1. tracker' = [tracker EXCEPT !.keys = tracker.keys \cup {Slot}]
    BY <1>5 DEF ReserveSlot, Checkpoint
  <2> QED BY <1>0, <1>3, <2>1
<1>6. CASE ReleaseSlot
  <2>1. tracker' = [tracker EXCEPT !.keys = tracker.keys \ {Slot}]
    BY <1>6 DEF ReleaseSlot, Checkpoint
  <2> QED BY <1>0, <1>3, <2>1
<1>7. ASSUME NEW k \in Keys, NEW r \in Response, tracker' = Bind(k, r) PROVE Credit'
  BY <1>0, <1>7, BindIs, CreditStays
<1>8. ASSUME NEW t \in Tasks, ReplayCached(t) \/ FinishCall(t) PROVE Credit'
  <2>1. want[t] \in Keys /\ cache[want[t]] \in Response /\ Persisted(t) \in Response
    BY <1>8 DEF ReplayCached, FinishCall, Enters, Settles, Places, TaskPlace, TypeOK, Persisted
  <2> QED BY <1>7, <1>8, <2>1 DEF ReplayCached, FinishCall
<1>9. CASE Crash
  BY <1>9, FS_EmptySet DEF Crash, EmptyTracker, Credit
<1>10. CASE Restart
  <2>1. CASE Verdict = "up"
    <3>1. tracker' = RestartedTracker
      BY <1>10, <2>1 DEF Restart, Checkpoint
    <3>2. RestartedTracker.run \in Nat
      BY RestartedType DEF Tracker
    <3>3. tracker'.credit = {}
      BY <3>1 DEF RestartedTracker
    <3> QED BY <3>1, <3>2, <3>3, FS_EmptySet DEF Credit
  <2>2. CASE Verdict # "up"
    BY <1>10, <2>2 DEF Restart, Credit
  <2> QED BY <2>1, <2>2
<1>11. ASSUME UNCHANGED tracker PROVE Credit'
  BY <1>11 DEF Credit
<1>12. ASSUME NEW t \in Tasks, Step(t) PROVE Credit'
  BY <1>1, <1>2, <1>4, <1>8, <1>11, <1>12
     DEF Step, RegisterKnown, Launch, Collect, Refuse, StartCall, AttemptSucceeds, AttemptInvalid,
         AttemptBreaks, AttemptStep, Cancel, TimeOut, Abandon, BookAttempt, FinishFailure,
         BookFault, CacheFault, Raise
<1> QED BY <1>5, <1>6, <1>9, <1>10, <1>11, <1>12 DEF Next, Expire, Archive, vars

BaseInv == TypeOK /\ Places /\ Credit

LEMMA BaseNext == BaseInv /\ [Next]_vars => BaseInv'
BY TypeNext, PlacesNext, CreditNext DEF BaseInv

LEMMA BaseSafe == Spec => []BaseInv
<1>1. Init => BaseInv
  BY TypeInit, PlacesInit, CreditInit DEF BaseInv
<1> QED BY <1>1, BaseNext, PTL DEF Spec

\* The types of the accounting, whatever fails or dies.
THEOREM CallTypes == Spec => []TypeOK
<1>1. BaseInv => TypeOK
  BY DEF BaseInv
<1> QED BY <1>1, BaseSafe, PTL

\* No call leaves a lock or a reservation behind, however it ends
\* (accounting.py 191-240, 353-392).
THEOREM CallsLeakNothing == Spec => []NothingLeaks
<1>1. BaseInv => NothingLeaks
  <2> SUFFICES ASSUME BaseInv PROVE NothingLeaks
    OBVIOUS
  <2>1. ASSUME NEW k \in Keys, lock[k] # NoTask
        PROVE  pc[lock[k]] \in {"calling", "answered", "failing"} /\ want[lock[k]] = k
    BY <2>1 DEF BaseInv, Places, KeyPlace, InFlight
  <2>2. ASSUME NEW t \in reserved PROVE \E k \in Keys : lock[k] = t
    <3>1. t \in Tasks
      BY DEF BaseInv, TypeOK
    <3>2. TaskPlace(t)
      BY <3>1 DEF BaseInv, Places
    <3>3. pc[t] \in InFlight /\ want[t] \in Keys /\ lock[want[t]] = t
      BY <3>2 DEF TaskPlace, InFlight
    <3> QED BY <3>3
  <2> QED BY <2>1, <2>2 DEF NothingLeaks
<1> QED BY <1>1, BaseSafe, PTL
(* ---- sales, books and answers ---------------------------------------------- *)
\* What a call has bought and not yet booked is its own, and only its first
\* attempt came with the reservation; a result in hand is booked.
Purchase(t) ==
    /\ \A i \in 1..Len(completed[t]) :
         /\ completed[t][i] \in 1..Len(sold)
         /\ sold[completed[t][i]].key = want[t]
         /\ sold[completed[t][i]].first => i = 1 /\ t \in reserved
    /\ result[t] # 0 =>
         /\ pc[t] \in {"answered", "failing", "done"}
         /\ pc[t] # "done" => busy = t
         /\ result[t] \in Booked /\ sold[result[t]].key = want[t]
    /\ pc[t] = "answered" => completed[t] # <<>> \/ result[t] # 0

\* Only what was sold is booked, and what a process counts includes the journal.
Books ==
    /\ Booked \subseteq 1..Len(sold) /\ booked \subseteq 1..Len(sold)
    /\ index \subseteq Booked
    /\ up = "up" => Booked \subseteq booked

\* An answer is booked and its own request's; the tracker and the snapshot bind
\* a request to its answer or to nothing.
AnswerOf(k) ==
    /\ cache[k] # 0 => cache[k] \in Booked /\ sold[cache[k]].key = k
    /\ tracker.bound[k] \in {0, cache[k]} /\ saved.bound[k] \in {0, cache[k]}

Sales == (\A t \in Tasks : Purchase(t)) /\ Books /\ (\A k \in Keys : AnswerOf(k))
LEMMA SalesInit == Init => Sales
<1> SUFFICES ASSUME Init PROVE Sales
  OBVIOUS
<1>1. ToSet(<<>>) = {} /\ Len(<<>>) = 0
  BY DEF ToSet
<1>2. \A t \in Tasks : Purchase(t)
  BY <1>1 DEF Init, Purchase
<1>3. Books
  BY <1>1 DEF Init, Books, Booked
<1>4. \A k \in Keys : AnswerOf(k)
  BY DEF Init, AnswerOf, NoAnswers, EmptyTracker
<1> QED BY <1>2, <1>3, <1>4 DEF Sales

\* What was sold and what was booked stays.
Grown ==
    /\ Len(sold) <= Len(sold')
    /\ \A r \in 1..Len(sold) : sold'[r] = sold[r]
    /\ Booked \subseteq Booked'

\* A step of one task keeps what the others have bought.
LEMMA OneTaskBuys ==
    ASSUME TypeOK, TypeOK', Sales, NEW t \in Tasks, Elsewhere(t), busy \in {t, NoTask}, Grown,
           \A u \in Tasks \ {t} : result'[u] = result[u],
           Purchase(t)'
    PROVE  \A u \in Tasks : Purchase(u)'
<1> SUFFICES ASSUME NEW u \in Tasks, u # t PROVE Purchase(u)'
  OBVIOUS
<1>1. /\ pc'[u] = pc[u] /\ want'[u] = want[u] /\ completed'[u] = completed[u]
      /\ u \in reserved' <=> u \in reserved
      /\ result'[u] = result[u]
  BY DEF Elsewhere
<1>2. Purchase(u)
  BY DEF Sales
<1>3. Len(sold) \in Nat /\ Len(sold') \in Nat
  BY SMTT(30) DEF TypeOK
<1>4. ASSUME NEW i \in 1..Len(completed'[u])
      PROVE  /\ completed'[u][i] \in 1..Len(sold')
             /\ sold'[completed'[u][i]].key = want'[u]
             /\ sold'[completed'[u][i]].first => i = 1 /\ u \in reserved'
  <2>1. /\ completed[u][i] \in 1..Len(sold)
        /\ sold[completed[u][i]].key = want[u]
        /\ sold[completed[u][i]].first => i = 1 /\ u \in reserved
    BY <1>1, <1>2, <1>4 DEF Purchase
  <2>2. sold'[completed[u][i]] = sold[completed[u][i]]
    BY <2>1 DEF Grown
  <2>3. completed[u][i] \in 1..Len(sold')
    BY <1>3, <2>1 DEF Grown
  <2> QED BY <1>1, <2>1, <2>2, <2>3
<1>5. ASSUME result'[u] # 0
      PROVE  /\ pc'[u] \in {"answered", "failing", "done"}
             /\ pc'[u] # "done" => busy' = u
             /\ result'[u] \in Booked' /\ sold'[result'[u]].key = want'[u]
  <2>1. /\ pc[u] \in {"answered", "failing", "done"}
        /\ pc[u] # "done" => busy = u
        /\ result[u] \in Booked /\ sold[result[u]].key = want[u]
    BY <1>1, <1>2, <1>5 DEF Purchase
  <2>2. pc[u] = "done"
    BY <2>1, CallAssumption
  <2>3. result[u] \in 1..Len(sold)
    BY <2>1 DEF Sales, Books
  <2>4. sold'[result[u]] = sold[result[u]] /\ result[u] \in Booked'
    BY <2>1, <2>3 DEF Grown
  <2> QED BY <1>1, <2>1, <2>2, <2>4
<1>6. pc'[u] = "answered" => completed'[u] # <<>> \/ result'[u] # 0
  BY <1>1, <1>2 DEF Purchase
<1> QED BY <1>4, <1>5, <1>6 DEF Purchase

\* No new answer, and no binding that was not there.
LEMMA AnswersStand ==
    ASSUME Sales, Grown, cache' = cache,
           \A k \in Keys : /\ tracker'.bound[k] \in {0, cache[k], tracker.bound[k], saved.bound[k]}
                           /\ saved'.bound[k] \in {0, cache[k], tracker.bound[k], saved.bound[k]}
    PROVE  \A k \in Keys : AnswerOf(k)'
<1> SUFFICES ASSUME NEW k \in Keys PROVE AnswerOf(k)'
  OBVIOUS
<1>1. AnswerOf(k)
  BY DEF Sales
<1>2. cache[k] # 0 => cache[k] \in 1..Len(sold)
  BY <1>1 DEF AnswerOf, Sales, Books
<1>3. cache[k] # 0 => sold'[cache[k]] = sold[cache[k]] /\ cache[k] \in Booked'
  BY <1>1, <1>2 DEF Grown, AnswerOf
<1> QED BY <1>1, <1>3 DEF AnswerOf

\* A step that sells, books and answers nothing.
LEMMA QuietStep ==
    ASSUME TypeOK, TypeOK', Sales, NEW t \in Tasks, Elsewhere(t), busy \in {t, NoTask},
           UNCHANGED <<rows, sold, cache, index, booked, result, up>>,
           result[t] = 0, pc'[t] # "answered", completed'[t] = completed[t],
           completed[t] = <<>> \/ (want'[t] = want[t] /\ reserved' = reserved),
           \A k \in Keys : tracker'.bound[k] = tracker.bound[k] /\ saved'.bound[k] \in {saved.bound[k], tracker.bound[k]}
    PROVE  Sales'
<1>1. Grown
  <2>1. Len(sold) \in Nat
    BY DEF TypeOK
  <2> QED BY <2>1 DEF Grown, Booked
<1>2. Purchase(t)'
  <2>1. Purchase(t)
    BY DEF Sales
  <2>2. CASE completed[t] = <<>>
    <3>1. Len(completed'[t]) = 0
      BY <2>2
    <3> QED BY <3>1 DEF Purchase
  <2>3. CASE want'[t] = want[t] /\ reserved' = reserved
    BY <2>1, <2>3 DEF Purchase
  <2> QED BY <2>2, <2>3
<1>3. \A u \in Tasks : Purchase(u)'
  BY <1>1, <1>2, OneTaskBuys
<1>4. Books'
  BY DEF Sales, Books, Booked
<1>5. \A k \in Keys : AnswerOf(k)'
  BY <1>1, AnswersStand
<1> QED BY <1>3, <1>4, <1>5 DEF Sales


\* A task's step is its own.
LEMMA StepElsewhere ==
    ASSUME TypeOK, NEW t \in Tasks, Step(t)
    PROVE  Elsewhere(t) /\ busy \in {t, NoTask} /\ up = "up" /\ up' = "up"
<1>0. /\ pc \in [Tasks -> {"idle", "registered", "queued", "calling", "answered", "failing", "done"}]
      /\ want \in [Tasks -> Keys \cup {NoKey}] /\ tries \in [Tasks -> 0..MaxAttempts]
      /\ completed \in [Tasks -> Seq(1..MaxSold)] /\ reserved \subseteq Tasks
  BY DEF TypeOK
<1> USE <1>0 DEF durable, calls, Running, Elsewhere
<1>1. ASSUME NEW k \in Keys, RegisterKnown(t, k) \/ RegisterNew(t, k) \/ ExchangeSlot(t, k)
      PROVE  Elsewhere(t) /\ busy \in {t, NoTask} /\ up = "up" /\ up' = "up"
  BY <1>1 DEF RegisterKnown, RegisterNew, ExchangeSlot, Asks
<1>2. CASE ReleaseRequest(t) \/ Launch(t) \/ Collect(t)
  BY <1>2 DEF ReleaseRequest, Launch, Collect
<1>3. CASE ReplayCached(t)
  BY <1>3 DEF ReplayCached, Enters, Count
<1>4. CASE Refuse(t) \/ StartCall(t)
  BY <1>4 DEF Refuse, StartCall, Enters, GivesUp
<1>5. CASE AttemptSucceeds(t)
  BY <1>5 DEF AttemptSucceeds, AttemptStep, Sell
<1>6. CASE AttemptInvalid(t) \/ AttemptBreaks(t)
  BY <1>6 DEF AttemptInvalid, AttemptBreaks, AttemptStep, Sell, RetryOrStop
<1>7. CASE Cancel(t) \/ TimeOut(t)
  BY <1>7 DEF Cancel, TimeOut, Abandon, GivesUp
<1>8. CASE BookAttempt(t) \/ FinishCall(t) \/ FinishFailure(t)
  BY <1>8 DEF BookAttempt, FinishCall, FinishFailure, Settles, Count, GivesUp
<1>9. CASE BookFault(t) \/ CacheFault(t)
  BY <1>9 DEF BookFault, CacheFault, Settles, Count, Raise, GivesUp
<1> QED BY <1>1, <1>2, <1>3, <1>4, <1>5, <1>6, <1>7, <1>8, <1>9 DEF Step

\* A response is in the journal once it has been written there, again or not.
LEMMA JournalledSet ==
    ASSUME TypeOK, Books, NEW r \in 1..MaxSold
    PROVE  ToSet(Journalled(r)) = Booked \cup {r}
<1>1. CASE r \in index
  BY <1>1 DEF Journalled, Books, Booked
<1>2. CASE r \notin index
  <2>1. Journalled(r) = Append(rows, r) /\ rows \in Seq(1..MaxSold)
    BY <1>2 DEF Journalled, TypeOK
  <2> QED BY <2>1, AppendSale DEF Booked
<1> QED BY <1>1, <1>2

\* A call without attempts and result has bought nothing.
LEMMA NothingBought ==
    ASSUME NEW t \in Tasks, completed'[t] = <<>>, result'[t] = 0, pc'[t] # "answered"
    PROVE  Purchase(t)'
<1>1. Len(completed'[t]) = 0
  OBVIOUS
<1> QED BY <1>1 DEF Purchase

\* A result is in hand only inside the booking section or after it.
LEMMA NoResult ==
    ASSUME TypeOK, Sales, NEW t \in Tasks, busy = NoTask, pc[t] # "done"
    PROVE  result[t] = 0
<1>1. Purchase(t) /\ t # NoTask
  BY CallAssumption DEF Sales
<1> QED BY <1>1 DEF Purchase

\* A call ends without an answer: it may have booked one more response.
LEMMA CallEnds ==
    ASSUME TypeOK, TypeOK', Sales, NEW t \in Tasks, Elsewhere(t), busy \in {t, NoTask},
           GivesUp(t), result' = [result EXCEPT ![t] = 0], UNCHANGED <<sold, cache, index, tracker, saved, up>>,
           \/ UNCHANGED <<rows, booked>>
           \/ \E r \in 1..Len(sold) : /\ booked' = booked \cup {r}
                                      /\ rows' \in {rows, Journalled(r)}
    PROVE  Sales'
<1>0. Len(sold) \in Nat /\ Len(sold) <= MaxSold
  BY DEF TypeOK
<1>1. Booked' = Booked \/ \E r \in booked' : Booked' = Booked \cup {r}
  <2>1. CASE UNCHANGED <<rows, booked>>
    BY <2>1 DEF Booked
  <2>2. ASSUME NEW r \in 1..Len(sold), booked' = booked \cup {r}, rows' \in {rows, Journalled(r)}
        PROVE  Booked' = Booked \/ Booked' = Booked \cup {r}
    <3>1. r \in 1..MaxSold /\ Books
      BY <1>0, CallAssumption DEF Sales
    <3> QED BY <2>2, <3>1, JournalledSet, <1>0, CallAssumption DEF Booked
  <2> QED BY <2>1, <2>2
<1>2. Grown
  BY <1>0, <1>1 DEF Grown
<1>3. Purchase(t)'
  <2>1. completed'[t] = <<>> /\ result'[t] = 0 /\ pc'[t] = "idle"
    BY DEF GivesUp, TypeOK
  <2> QED BY <2>1, NothingBought
<1>4. \A u \in Tasks : Purchase(u)'
  <2>1. \A u \in Tasks \ {t} : result'[u] = result[u]
    BY DEF TypeOK
  <2> QED BY <1>2, <1>3, <2>1, OneTaskBuys
<1>5. Books'
  <2>1. Books
    BY DEF Sales
  <2>2. booked' \subseteq 1..Len(sold') /\ booked \subseteq booked'
    BY <2>1 DEF Books
  <2> QED BY <1>1, <2>1, <2>2 DEF Books
<1>6. \A k \in Keys : AnswerOf(k)'
  BY <1>2, AnswersStand
<1> QED BY <1>4, <1>5, <1>6 DEF Sales

\* An attempt is sold: the call's own, and the first one only comes with its reservation.
LEMMA SaleStep ==
    ASSUME TypeOK, TypeOK', Places, Sales, NEW t \in Tasks, AttemptStep(t), Sell(t), Elsewhere(t)
    PROVE  Sales'
<1>0. /\ Len(sold) \in Nat /\ completed[t] \in Seq(1..MaxSold) /\ t # NoTask
      /\ sold \in Seq([key : Keys, first : BOOLEAN]) /\ Len(sold) + 1 \in 1..MaxSold
  BY SMTT(30), CallAssumption DEF TypeOK, Sell
<1>1. /\ busy = NoTask /\ pc[t] = "calling" /\ up = "up"
      /\ want'[t] = want[t] /\ result' = result /\ result[t] = 0
      /\ UNCHANGED <<rows, cache, saved, index, booked, reserved, tracker, up>>
  BY <1>0, NoResult DEF AttemptStep, Running, durable
<1>2. want[t] \in Keys /\ t \in reserved
  BY <1>1 DEF Places, TaskPlace
<1>3. /\ Len(sold') = Len(sold) + 1
      /\ \A r \in 1..Len(sold) : sold'[r] = sold[r]
      /\ sold'[Len(sold) + 1] = [key |-> want[t], first |-> completed[t] = <<>>]
  <2>1. [key |-> want[t], first |-> completed[t] = <<>>] \in [key : Keys, first : BOOLEAN]
    BY <1>2
  <2>2. sold' = Append(sold, [key |-> want[t], first |-> completed[t] = <<>>])
    BY DEF Sell
  <2> QED BY <1>0, <2>1, <2>2, AppendSet
<1>4. /\ completed'[t] = Append(completed[t], Len(sold) + 1)
      /\ Len(completed'[t]) = Len(completed[t]) + 1
      /\ \A i \in 1..Len(completed[t]) : completed'[t][i] = completed[t][i]
      /\ completed'[t][Len(completed[t]) + 1] = Len(sold) + 1
  <2>1. completed'[t] = Append(completed[t], Len(sold) + 1)
    BY DEF Sell, TypeOK
  <2> QED BY <1>0, <2>1, AppendSet
<1>5. Grown
  BY <1>0, <1>1, <1>3 DEF Grown, Booked
<1>6. Purchase(t)'
  <2>1. ASSUME NEW i \in 1..Len(completed'[t])
        PROVE  /\ completed'[t][i] \in 1..Len(sold')
               /\ sold'[completed'[t][i]].key = want'[t]
               /\ sold'[completed'[t][i]].first => i = 1 /\ t \in reserved'
    <3>1. CASE i = Len(completed[t]) + 1
      <4>1. completed'[t][i] = Len(sold) + 1
        BY <1>4, <3>1
      <4>2. /\ sold'[Len(sold) + 1].key = want[t]
            /\ sold'[Len(sold) + 1].first => completed[t] = <<>>
        <5>1. /\ [key |-> want[t], first |-> completed[t] = <<>>].key = want[t]
              /\ [key |-> want[t], first |-> completed[t] = <<>>].first = (completed[t] = <<>>)
          OBVIOUS
        <5> QED BY <1>3, <5>1, Zenon
      <4>3. completed[t] = <<>> => i = 1
        BY <3>1
      <4> QED BY <1>0, <1>1, <1>2, <1>3, <4>1, <4>2, <4>3
    <3>2. CASE i # Len(completed[t]) + 1
      <4>1. i \in 1..Len(completed[t])
        BY <1>0, <1>4, <3>2
      <4>2. Purchase(t)
        BY DEF Sales
      <4>3. /\ completed[t][i] \in 1..Len(sold)
            /\ sold[completed[t][i]].key = want[t]
            /\ sold[completed[t][i]].first => i = 1 /\ t \in reserved
        BY <4>1, <4>2 DEF Purchase
      <4>4. completed'[t][i] = completed[t][i] /\ sold'[completed[t][i]] = sold[completed[t][i]]
        BY <1>3, <1>4, <4>1, <4>3
      <4> QED BY <1>0, <1>1, <1>3, <4>3, <4>4
    <3> QED BY <3>1, <3>2
  <2>2. result'[t] = 0 /\ completed'[t] # <<>>
    BY <1>0, <1>1, <1>4
  <2> QED BY <2>1, <2>2 DEF Purchase
<1>7. \A u \in Tasks : Purchase(u)'
  BY <1>1, <1>5, <1>6, OneTaskBuys
<1>8. Books'
  <2>1. Books /\ 1..Len(sold) \subseteq 1..Len(sold')
    BY <1>0, <1>3 DEF Sales
  <2> QED BY <1>1, <2>1 DEF Books, Booked
<1>9. \A k \in Keys : AnswerOf(k)'
  BY <1>1, <1>5, AnswersStand
<1> QED BY <1>7, <1>8, <1>9 DEF Sales

\* The first attempt not yet booked is booked.
LEMMA BookStep ==
    ASSUME TypeOK, TypeOK', Sales, NEW t \in Tasks, BookAttempt(t), Elsewhere(t)
    PROVE  Sales'
<1>r DEFINE r == Head(completed[t])
<1>0. /\ Len(sold) \in Nat /\ Len(sold) <= MaxSold /\ completed[t] \in Seq(1..MaxSold) /\ completed[t] # <<>>
  BY DEF TypeOK, BookAttempt
<1>1. /\ r = completed[t][1] /\ Len(completed[t]) \in Nat /\ Len(completed[t]) >= 1
      /\ Tail(completed[t]) \in Seq(1..MaxSold)
      /\ Len(Tail(completed[t])) = Len(completed[t]) - 1
      /\ \A i \in 1..Len(Tail(completed[t])) : Tail(completed[t])[i] = completed[t][i + 1]
  <2>1. /\ r = completed[t][1]
        /\ Tail(completed[t]) \in Seq(1..MaxSold)
        /\ Len(Tail(completed[t])) = Len(completed[t]) - 1
        /\ \A i \in 1..Len(Tail(completed[t])) : Tail(completed[t])[i] = completed[t][i + 1]
    BY <1>0, HeadTailSet
  <2>2. Len(completed[t]) \in Nat /\ Len(completed[t]) >= 1
    BY <1>0
  <2> QED BY <2>1, <2>2
<1>2. Purchase(t) /\ Books
  BY DEF Sales
<1>3. r \in 1..Len(sold) /\ sold[r].key = want[t]
  <2>1. 1 \in 1..Len(completed[t])
    BY <1>1
  <2> QED BY <1>1, <1>2, <2>1 DEF Purchase
<1>4. /\ UNCHANGED <<cache, saved, sold, up, tracker, pc, want>>
      /\ rows' = Journalled(r) /\ index' = index \cup {r} /\ booked' = booked \cup {r}
      /\ completed'[t] = Tail(completed[t]) /\ result'[t] = r /\ busy' = t
      /\ pc[t] \in {"answered", "failing"} /\ busy \in {t, NoTask}
      /\ \A u \in Tasks \ {t} : result'[u] = result[u]
  BY DEF BookAttempt, UsageOnce, Count, Settles, TypeOK
<1>5. Booked' = Booked \cup {r}
  <2>1. r \in 1..MaxSold
    BY <1>0, <1>3, CallAssumption
  <2> QED BY <1>2, <1>4, <2>1, JournalledSet DEF Booked
<1>6. Grown
  BY <1>0, <1>4, <1>5 DEF Grown
<1>7. Purchase(t)'
  <2>1. ASSUME NEW i \in 1..Len(completed'[t])
        PROVE  /\ completed'[t][i] \in 1..Len(sold')
               /\ sold'[completed'[t][i]].key = want'[t]
               /\ sold'[completed'[t][i]].first => i = 1 /\ t \in reserved'
    <3>1. /\ i + 1 \in 1..Len(completed[t]) /\ i + 1 # 1
          /\ completed'[t][i] = completed[t][i + 1]
      BY <1>1, <1>4
    <3>2. /\ completed[t][i + 1] \in 1..Len(sold)
          /\ sold[completed[t][i + 1]].key = want[t]
          /\ ~sold[completed[t][i + 1]].first
      BY <1>2, <3>1 DEF Purchase
    <3> QED BY <1>4, <3>1, <3>2
  <2>2. /\ pc'[t] \in {"answered", "failing", "done"}
        /\ pc'[t] # "done" => busy' = t
        /\ result'[t] \in Booked' /\ sold'[result'[t]].key = want'[t]
    BY <1>3, <1>4, <1>5
  <2>3. result'[t] # 0
    BY <1>0, <1>3, <1>4
  <2> QED BY <2>1, <2>2, <2>3 DEF Purchase
<1>8. \A u \in Tasks : Purchase(u)'
  BY <1>4, <1>6, <1>7, OneTaskBuys
<1>9. Books'
  BY <1>2, <1>3, <1>4, <1>5 DEF Books
<1>10. \A k \in Keys : AnswerOf(k)'
  BY <1>4, <1>6, AnswersStand
<1> QED BY <1>8, <1>9, <1>10 DEF Sales

\* The request of a call is answered: by the response in hand, or by the answer there was.
LEMMA FinishStep ==
    ASSUME TypeOK, TypeOK', Places, Sales, NEW t \in Tasks, FinishCall(t), Elsewhere(t)
    PROVE  Sales' /\ Persisted(t) \in Booked /\ sold[Persisted(t)].key = want[t]
<1>0. /\ Len(sold) \in Nat /\ want[t] \in Keys /\ result[t] \in Response /\ Persisted(t) \in Response
  BY DEF TypeOK, FinishCall, Settles, Places, TaskPlace, Persisted
<1>1. Purchase(t) /\ Books /\ \A k \in Keys : AnswerOf(k)
  BY DEF Sales
<1>2. /\ pc[t] = "answered" /\ completed[t] = <<>> /\ pc' = [pc EXCEPT ![t] = "done"]
      /\ UNCHANGED <<rows, saved, sold, up, index, booked, want, completed>>
      /\ cache' = [cache EXCEPT ![want[t]] = Persisted(t)]
      /\ result' = [result EXCEPT ![t] = Persisted(t)]
      /\ tracker' = Bind(want[t], Persisted(t)) /\ busy \in {t, NoTask}
  BY DEF FinishCall, Settles
<1>3. result[t] # 0 /\ result[t] \in Booked /\ sold[result[t]].key = want[t]
  BY <1>1, <1>2 DEF Purchase
<1>4. /\ Persisted(t) \in Booked /\ sold[Persisted(t)].key = want[t] /\ Persisted(t) # 0
      /\ cache[want[t]] # 0 => Persisted(t) = cache[want[t]]
  BY <1>0, <1>1, <1>3 DEF Persisted, AnswerOf
<1>5. Grown
  BY <1>0, <1>2 DEF Grown, Booked
<1>6. pc'[t] = "done" /\ result'[t] = Persisted(t) /\ Len(completed'[t]) = 0
      /\ (\A u \in Tasks \ {t} : result'[u] = result[u])
  BY <1>2 DEF TypeOK
<1>7. Booked' = Booked
  BY <1>2 DEF Booked
<1>8. Purchase(t)'
  BY <1>2, <1>4, <1>6, <1>7 DEF Purchase
<1>9. \A u \in Tasks : Purchase(u)'
  BY <1>2, <1>5, <1>6, <1>8, OneTaskBuys
<1>10. Books'
  BY <1>1, <1>2, <1>7 DEF Books
<1>11. ASSUME NEW k \in Keys PROVE AnswerOf(k)'
  <2>1. tracker'.bound = [tracker.bound EXCEPT ![want[t]] = Persisted(t)] /\ tracker.bound \in [Keys -> Response]
    <3>1. tracker'.bound = [tracker.bound EXCEPT ![want[t]] = Persisted(t)]
      BY <1>0, <1>2, BindIs
    <3>2. tracker.bound \in [Keys -> Response]
      BY DEF TypeOK, Tracker
    <3> QED BY <3>1, <3>2
  <2>2. AnswerOf(k)
    BY <1>1
  <2>3. CASE k = want[t]
    <3>1. cache'[k] = Persisted(t) /\ tracker'.bound[k] = Persisted(t)
      BY <1>2, <2>1, <2>3 DEF TypeOK
    <3>2. saved'.bound[k] \in {0, Persisted(t)}
      BY <1>2, <1>4, <2>2, <2>3 DEF AnswerOf
    <3> QED BY <1>2, <1>4, <1>7, <2>3, <3>1, <3>2 DEF AnswerOf
  <2>4. CASE k # want[t]
    <3>1. cache'[k] = cache[k] /\ tracker'.bound[k] = tracker.bound[k]
      BY <1>2, <2>1, <2>4 DEF TypeOK
    <3> QED BY <1>2, <1>7, <2>2, <3>1 DEF AnswerOf
  <2> QED BY <2>3, <2>4
<1> QED BY <1>4, <1>9, <1>10, <1>11 DEF Sales

\* A request is answered from the cache, and the answer booked if this process has not seen it.
LEMMA ReplayStep ==
    ASSUME TypeOK, TypeOK', Places, Sales, NEW t \in Tasks, ReplayCached(t), Elsewhere(t)
    PROVE  Sales' /\ Booked' = Booked /\ cache[want[t]] \in booked
<1>r DEFINE r == cache[want[t]]
<1>0. /\ Len(sold) \in Nat /\ Len(sold) <= MaxSold /\ want[t] \in Keys /\ up = "up" /\ pc[t] = "queued"
      /\ busy = NoTask
  BY DEF TypeOK, ReplayCached, Enters, Running, Places, TaskPlace
<1>1. Purchase(t) /\ Books /\ \A k \in Keys : AnswerOf(k)
  BY DEF Sales
<1>2. r # 0 /\ r \in Booked /\ sold[r].key = want[t]
  BY <1>0, <1>1 DEF AnswerOf, ReplayCached
<1>3. /\ r \in 1..Len(sold) /\ r \in booked /\ r \in 1..MaxSold /\ r \in Response
  <2>1. r \in 1..Len(sold) /\ r \in booked
    BY <1>0, <1>1, <1>2 DEF Books
  <2> QED BY <1>0, <2>1, CallAssumption DEF Response
<1>4. /\ rows' = Journalled(r) /\ index' = index \cup {r} /\ booked' = booked \cup {r}
      /\ result' = [result EXCEPT ![t] = r] /\ tracker' = Bind(want[t], r)
      /\ pc' = [pc EXCEPT ![t] = "done"]
      /\ UNCHANGED <<cache, saved, sold, up, want, completed>>
  BY DEF ReplayCached, UsageOnce, Count
<1>5. Booked' = Booked
  <2>1. ToSet(Journalled(r)) = Booked \cup {r}
    BY <1>1, <1>3, JournalledSet
  <2>2. Booked' = ToSet(Journalled(r))
    BY <1>4 DEF Booked
  <2> QED BY <1>2, <2>1, <2>2
<1>6. Grown
  BY <1>0, <1>4, <1>5 DEF Grown
<1>7. /\ pc'[t] = "done" /\ result'[t] = r /\ \A u \in Tasks \ {t} : result'[u] = result[u]
  BY <1>4 DEF TypeOK
<1>8. completed'[t] = <<>> /\ Len(completed'[t]) = 0
  <2>1. completed[t] = <<>>
    BY <1>0 DEF Places, TaskPlace, InFlight
  <2> QED BY <1>4, <2>1
<1>9. Purchase(t)'
  BY <1>2, <1>4, <1>5, <1>7, <1>8 DEF Purchase
<1>10. \A u \in Tasks : Purchase(u)'
  BY <1>0, <1>6, <1>7, <1>9, OneTaskBuys
<1>11. Books'
  BY <1>1, <1>2, <1>3, <1>4, <1>5 DEF Books
<1>12. \A k \in Keys : AnswerOf(k)'
  <2>1. tracker'.bound = [tracker.bound EXCEPT ![want[t]] = r] /\ tracker.bound \in [Keys -> Response]
    <3>1. tracker'.bound = [tracker.bound EXCEPT ![want[t]] = r]
      BY <1>0, <1>3, <1>4, BindIs
    <3>2. tracker.bound \in [Keys -> Response]
      BY DEF TypeOK, Tracker
    <3> QED BY <3>1, <3>2
  <2>2. \A k \in Keys : tracker'.bound[k] \in {0, cache[k], tracker.bound[k], saved.bound[k]}
    BY <2>1
  <2> QED BY <1>4, <1>6, <2>2, AnswersStand
<1> QED BY <1>3, <1>5, <1>10, <1>11, <1>12 DEF Sales

\* A restart reads the books; what it binds was bound or is a booked answer.
LEMMA RestartStep ==
    ASSUME TypeOK, TypeOK', Places, Sales, Restart
    PROVE  Sales'
<1>0. Len(sold) \in Nat /\ Len(sold) <= MaxSold
  BY DEF TypeOK
<1>1. UNCHANGED <<rows, cache, sold, completed, result, want, pc, reserved, busy>> /\ up = "down"
  BY DEF Restart, calls
<1>2. Grown /\ Booked' = Booked
  BY <1>0, <1>1 DEF Grown, Booked
<1>3. \A t \in Tasks : Purchase(t)'
  <2> SUFFICES ASSUME NEW t \in Tasks PROVE Purchase(t)'
    OBVIOUS
  <2>1. Purchase(t)
    BY DEF Sales
  <2> QED BY <1>1, <1>2, <2>1 DEF Purchase
<1>4. Books'
  <2>1. Books
    BY DEF Sales
  <2>2. CASE Verdict = "up"
    <3>1. index' = Booked /\ booked' = Booked
      BY <2>2 DEF Restart
    <3> QED BY <1>1, <1>2, <2>1, <3>1 DEF Books
  <2>3. CASE Verdict # "up"
    <3>1. UNCHANGED <<index, booked>> /\ up' # "up"
      BY <2>3 DEF Restart
    <3> QED BY <1>1, <1>2, <2>1, <3>1 DEF Books
  <2> QED BY <2>2, <2>3
<1>5. \A k \in Keys : AnswerOf(k)'
  <2>1. ASSUME NEW k \in Keys
        PROVE  /\ tracker'.bound[k] \in {0, cache[k], tracker.bound[k], saved.bound[k]}
               /\ saved'.bound[k] \in {0, cache[k], tracker.bound[k], saved.bound[k]}
    <3>1. CASE Verdict = "up"
      <4>1. tracker' = RestartedTracker /\ saved' = Saved(RestartedTracker)
        BY <3>1 DEF Restart, Checkpoint
      <4>2. tracker'.bound = Recovered /\ saved'.bound = Recovered
        BY <4>1 DEF RestartedTracker, Saved
      <4>3. Recovered[k] \in {cache[k], saved.bound[k]}
        BY DEF Recovered
      <4> QED BY <4>2, <4>3
    <3>2. CASE Verdict # "up"
      BY <3>2 DEF Restart
    <3> QED BY <3>1, <3>2
  <2> QED BY <1>1, <1>2, <2>1, AnswersStand
<1> QED BY <1>3, <1>4, <1>5 DEF Sales

LEMMA CrashStep ==
    ASSUME TypeOK, Sales, Crash
    PROVE  Sales'
<1>1. /\ UNCHANGED <<rows, torn, cache, saved, sold>> /\ up' = "down" /\ index' = {} /\ booked' = {}
      /\ tracker' = EmptyTracker(0)
      /\ \A t \in Tasks : pc'[t] = "idle" /\ completed'[t] = <<>> /\ result'[t] = 0
  BY DEF Crash, durable
<1>2. \A t \in Tasks : Purchase(t)'
  BY <1>1, NothingBought
<1>3. Books'
  BY <1>1 DEF Sales, Books, Booked
<1>4. Len(sold) \in Nat
  BY DEF TypeOK
<1>5. Grown
  BY <1>1, <1>4 DEF Grown, Booked
<1>6. \A k \in Keys : tracker'.bound[k] = 0
  BY <1>1 DEF EmptyTracker, NoAnswers
<1>7. \A k \in Keys : AnswerOf(k)'
  BY <1>1, <1>5, <1>6, AnswersStand
<1> QED BY <1>2, <1>3, <1>7 DEF Sales

\* The steps that leave the calls, the books and the answers alone.
LEMMA AsideStep ==
    ASSUME TypeOK, Sales, UNCHANGED <<rows, cache, sold, up, index, booked, reserved, busy, calls>>,
           \A k \in Keys : tracker'.bound[k] = tracker.bound[k] /\ saved'.bound[k] \in {0, saved.bound[k], tracker.bound[k]}
    PROVE  Sales'
<1>0. Len(sold) \in Nat
  BY DEF TypeOK
<1>1. Grown /\ Booked' = Booked
  BY <1>0 DEF Grown, Booked
<1>2. \A t \in Tasks : Purchase(t)'
  <2> SUFFICES ASSUME NEW t \in Tasks PROVE Purchase(t)'
    OBVIOUS
  <2>1. Purchase(t)
    BY DEF Sales
  <2> QED BY <1>1, <2>1 DEF Purchase, calls
<1>3. Books'
  BY <1>1 DEF Sales, Books
<1>4. \A k \in Keys : AnswerOf(k)'
  BY <1>1, AnswersStand
<1> QED BY <1>2, <1>3, <1>4 DEF Sales

LEMMA SalesNext == BaseInv /\ BaseInv' /\ Sales /\ [Next]_vars => Sales'
<1> SUFFICES ASSUME BaseInv, BaseInv', Sales, [Next]_vars PROVE Sales'
  OBVIOUS
<1>0. TypeOK /\ TypeOK' /\ Places /\ Places'
  BY DEF BaseInv
<1>t. tracker \in Tracker /\ saved \in SavedTracker
  BY <1>0 DEF TypeOK
<1>1. ASSUME NEW t \in Tasks, Step(t) PROVE Sales'
  <2>0. Elsewhere(t) /\ busy \in {t, NoTask} /\ up = "up" /\ up' = "up"
    BY <1>0, <1>1, StepElsewhere
  <2>p. TaskPlace(t) /\ Purchase(t) /\ t # NoTask
    BY <1>0, CallAssumption DEF Places, Sales
  <2>1. ASSUME NEW k \in Keys, RegisterKnown(t, k) \/ RegisterNew(t, k) \/ ExchangeSlot(t, k) PROVE Sales'
    <3>1. Asks(t, k)
      BY <2>1 DEF RegisterKnown, RegisterNew, ExchangeSlot
    <3>2. /\ UNCHANGED <<rows, sold, cache, index, booked, result, up>>
          /\ pc[t] = "idle" /\ pc'[t] = "registered" /\ completed' = completed
          /\ busy = NoTask
      BY <1>0, <3>1 DEF Asks, TypeOK, Running
    <3>3. result[t] = 0 /\ completed[t] = <<>>
      BY <1>0, <2>p, <3>2, NoResult DEF TaskPlace, InFlight
    <3>4. tracker'.bound = tracker.bound /\ saved'.bound \in {saved.bound, tracker.bound}
      <4>1. CASE RegisterKnown(t, k)
        BY <4>1 DEF RegisterKnown
      <4>2. CASE RegisterNew(t, k)
        BY <1>0, <4>2, AdmitIs DEF RegisterNew, Checkpoint, Saved
      <4>3. CASE ExchangeSlot(t, k)
        <5>1. tracker' = [tracker EXCEPT !.keys = (tracker.keys \ {Slot}) \cup {k}] /\ saved' = Saved(tracker')
          BY <4>3 DEF ExchangeSlot, Checkpoint
        <5>2. tracker'.bound = tracker.bound
          BY <1>t, <5>1 DEF Tracker
        <5> QED BY <5>1, <5>2 DEF Saved
      <4> QED BY <2>1, <4>1, <4>2, <4>3
    <3> QED BY <1>0, <2>0, <3>2, <3>3, <3>4, QuietStep
  <2>2. CASE ReleaseRequest(t)
    <3>1. /\ UNCHANGED <<rows, sold, cache, index, booked, result, up>>
          /\ pc[t] = "registered" /\ pc'[t] = "idle" /\ completed' = completed
          /\ busy = NoTask /\ tracker' = Released(want[t]) /\ saved' = Saved(tracker')
      BY <1>0, <2>2 DEF ReleaseRequest, Checkpoint, TypeOK, Running
    <3>2. result[t] = 0 /\ completed[t] = <<>> /\ want[t] \in Keys
      BY <1>0, <2>p, <3>1, NoResult DEF TaskPlace, InFlight
    <3>3. tracker'.bound = tracker.bound /\ saved'.bound = tracker.bound
      BY <1>0, <3>1, <3>2, ReleasedIs DEF Saved
    <3> QED BY <1>0, <2>0, <3>1, <3>2, <3>3, QuietStep
  <2>3. CASE Launch(t) \/ Refuse(t)
    <3>1. /\ UNCHANGED <<rows, sold, cache, index, booked, result, up, tracker, saved>>
          /\ pc[t] \in {"registered", "queued"} /\ pc'[t] \in {"queued", "idle"}
          /\ busy = NoTask /\ completed'[t] \in {completed[t], <<>>}
      BY <1>0, <2>3 DEF Launch, Refuse, Enters, GivesUp, durable, TypeOK, Running
    <3>2. result[t] = 0 /\ completed[t] = <<>>
      BY <1>0, <2>p, <3>1, NoResult DEF TaskPlace, InFlight
    <3> QED BY <1>0, <2>0, <3>1, <3>2, QuietStep
  <2>4. CASE StartCall(t)
    <3>1. /\ UNCHANGED <<rows, sold, cache, index, booked, result, up, tracker, saved, completed>>
          /\ pc[t] = "queued" /\ pc'[t] = "calling" /\ busy = NoTask
      BY <1>0, <2>4 DEF StartCall, Enters, durable, TypeOK, Running
    <3>2. result[t] = 0 /\ completed[t] = <<>>
      BY <1>0, <2>p, <3>1, NoResult DEF TaskPlace, InFlight
    <3> QED BY <1>0, <2>0, <3>1, <3>2, QuietStep
  <2>5. CASE AttemptBreaks(t)
    <3>1. /\ UNCHANGED <<rows, sold, cache, index, booked, result, up, tracker, saved, completed, want, reserved>>
          /\ pc[t] = "calling" /\ pc'[t] \in {"calling", "failing"} /\ busy = NoTask
      BY <1>0, <2>5 DEF AttemptBreaks, AttemptStep, RetryOrStop, durable, TypeOK, Running
    <3>2. result[t] = 0
      BY <1>0, <3>1, NoResult
    <3> QED BY <1>0, <2>0, <3>1, <3>2, QuietStep
  <2>6. CASE AttemptSucceeds(t) \/ AttemptInvalid(t)
    BY <1>0, <2>0, <2>6, SaleStep DEF AttemptSucceeds, AttemptInvalid
  <2>7. CASE Cancel(t) \/ TimeOut(t)
    <3>1. /\ UNCHANGED <<rows, sold, cache, index, booked, result, up, tracker, saved>>
          /\ GivesUp(t) /\ busy = NoTask /\ pc[t] # "done"
      BY <2>7 DEF Cancel, TimeOut, Abandon, durable, Running
    <3>2. result[t] = 0
      BY <1>0, <3>1, NoResult
    <3>3. result' = [result EXCEPT ![t] = 0]
      BY <1>0, <3>1, <3>2 DEF TypeOK
    <3> QED BY <1>0, <2>0, <3>1, <3>3, CallEnds
  <2>8. CASE Collect(t)
    <3>1. /\ UNCHANGED <<rows, sold, cache, index, booked, up, tracker, completed>>
          /\ pc[t] = "done" /\ pc'[t] = "idle" /\ result'[t] = 0 /\ saved' = Saved(tracker)
          /\ \A u \in Tasks \ {t} : result'[u] = result[u]
      BY <1>0, <2>8 DEF Collect, TypeOK
    <3>2. completed'[t] = <<>>
      BY <2>p, <3>1 DEF TaskPlace, InFlight
    <3>3. Len(sold) \in Nat
      BY <1>0 DEF TypeOK
    <3>4. Grown /\ Booked' = Booked
      BY <3>1, <3>3 DEF Grown, Booked
    <3>5. \A u \in Tasks : Purchase(u)'
      BY <1>0, <2>0, <3>1, <3>2, <3>4, NothingBought, OneTaskBuys
    <3>6. Books'
      BY <3>1, <3>4 DEF Sales, Books
    <3>7. saved'.bound = tracker.bound
      BY <3>1 DEF Saved
    <3>8. \A k \in Keys : AnswerOf(k)'
      BY <3>1, <3>4, <3>7, AnswersStand
    <3> QED BY <3>5, <3>6, <3>8 DEF Sales
  <2>9. CASE ReplayCached(t)
    BY <1>0, <2>0, <2>9, ReplayStep
  <2>10. CASE BookAttempt(t)
    BY <1>0, <2>0, <2>10, BookStep
  <2>11. CASE FinishCall(t)
    BY <1>0, <2>0, <2>11, FinishStep
  <2>12. CASE FinishFailure(t)
    BY <1>0, <2>0, <2>12, CallEnds DEF FinishFailure, durable
  <2>13. CASE BookFault(t)
    <3>1. /\ GivesUp(t) /\ result' = [result EXCEPT ![t] = 0]
          /\ UNCHANGED <<cache, saved, sold, up, index, tracker>>
          /\ completed[t] # <<>> /\ completed[t] \in Seq(1..MaxSold)
          /\ booked' = booked \cup {Head(completed[t])}
          /\ rows' \in {rows, Journalled(Head(completed[t]))}
      BY <1>0, <2>13 DEF BookFault, Raise, Count, TypeOK
    <3>2. Head(completed[t]) = completed[t][1] /\ 1 \in 1..Len(completed[t])
      BY <3>1, HeadTailSet
    <3>3. Head(completed[t]) \in 1..Len(sold)
      BY <2>p, <3>2 DEF Purchase
    <3> QED BY <1>0, <2>0, <3>1, <3>3, CallEnds
  <2>14. CASE CacheFault(t)
    <3>1. /\ GivesUp(t) /\ result' = [result EXCEPT ![t] = 0]
          /\ UNCHANGED <<rows, booked, cache, saved, sold, up, index, tracker>>
      BY <2>14 DEF CacheFault, Raise
    <3> QED BY <1>0, <2>0, <3>1, CallEnds
  <2> QED
    BY <1>1, <2>1, <2>2, <2>3, <2>4, <2>5, <2>6, <2>7, <2>8, <2>9, <2>10, <2>11, <2>12, <2>13, <2>14
       DEF Step
<1>2. CASE ReserveSlot \/ ReleaseSlot
  <2>1. /\ UNCHANGED <<rows, cache, sold, up, index, booked, reserved, busy, calls>>
        /\ \E ks : tracker' = [tracker EXCEPT !.keys = ks]
        /\ saved' = Saved(tracker')
    BY <1>2 DEF ReserveSlot, ReleaseSlot, Checkpoint
  <2>2. tracker'.bound = tracker.bound /\ saved'.bound = tracker.bound
    BY <1>t, <2>1 DEF Saved, Tracker
  <2> QED BY <1>0, <2>1, <2>2, AsideStep
<1>3. CASE Archive
  <2>1. /\ UNCHANGED <<rows, cache, sold, up, index, booked, reserved, busy, calls, tracker>>
        /\ \A k \in Keys : saved'.bound[k] = 0
    BY <1>3 DEF Archive, NoAnswers
  <2> QED BY <1>0, <2>1, AsideStep
<1>4. CASE Expire \/ UNCHANGED vars
  BY <1>0, <1>4, AsideStep DEF Expire, vars, durable
<1>5. CASE Crash
  BY <1>0, <1>5, CrashStep
<1>6. CASE Restart
  BY <1>0, <1>6, RestartStep
<1> QED BY <1>1, <1>2, <1>3, <1>4, <1>5, <1>6 DEF Next

FullInv == BaseInv /\ Sales

LEMMA FullSafe == Spec => []FullInv
<1>1. Init => FullInv
  BY TypeInit, PlacesInit, CreditInit, SalesInit DEF FullInv, BaseInv
<1>2. FullInv /\ [Next]_vars => FullInv'
  BY BaseNext, SalesNext DEF FullInv
<1> QED BY <1>1, <1>2, PTL DEF Spec

(* ---- what a step books ------------------------------------------------------ *)
\* The step books the call's first open attempt, in memory and mostly in the journal.
BooksNext(t) ==
    /\ completed[t] # <<>>
    /\ booked' = booked \cup {Head(completed[t])}
    /\ Booked' \in {Booked, Booked \cup {Head(completed[t])}}
    /\ reserved' = reserved \ {t}
    /\ UNCHANGED <<sold, cache>>

\* The step books nothing new.
BooksNothing(t) ==
    /\ booked' = booked /\ Booked' = Booked
    /\ reserved' \in {reserved, reserved \ {t}} \/ StartCall(t)
    /\ Len(sold) <= Len(sold') /\ \A r \in 1..Len(sold) : sold'[r] = sold[r]
    /\ cache' = cache \/ FinishCall(t)

LEMMA OpenAttempt ==
    ASSUME FullInv, NEW t \in Tasks, completed[t] # <<>>
    PROVE  LET r == Head(completed[t])
           IN  /\ r \in 1..Len(sold) /\ r \in 1..MaxSold
               /\ sold[r].first => t \in reserved
               /\ ToSet(Journalled(r)) = Booked \cup {r}
               /\ ToSet(completed[t]) = {r} \cup ToSet(Tail(completed[t]))
<1>1. completed[t] \in Seq(1..MaxSold) /\ TypeOK /\ Books /\ Purchase(t)
  BY DEF FullInv, BaseInv, TypeOK, Sales
<1>2. /\ Head(completed[t]) = completed[t][1]
      /\ Head(completed[t]) \in 1..MaxSold
      /\ ToSet(completed[t]) = {Head(completed[t])} \cup ToSet(Tail(completed[t]))
  BY <1>1, HeadTailSet
<1>3. 1 \in 1..Len(completed[t])
  BY <1>1
<1> QED BY <1>1, <1>2, <1>3, JournalledSet DEF Purchase

LEMMA StepBooks ==
    ASSUME FullInv, NEW t \in Tasks, Step(t)
    PROVE  BooksNext(t) \/ BooksNothing(t)
<1>0. TypeOK /\ Places /\ Sales /\ Len(sold) \in Nat
  BY DEF FullInv, BaseInv, TypeOK
<1>1. ASSUME UNCHANGED <<rows, booked, sold, cache>>, reserved' \in {reserved, reserved \ {t}} \/ StartCall(t)
      PROVE  BooksNothing(t)
  BY <1>0, <1>1 DEF BooksNothing, Booked
<1>2. ASSUME NEW k \in Keys, RegisterKnown(t, k) \/ RegisterNew(t, k) \/ ExchangeSlot(t, k)
      PROVE  BooksNothing(t)
  BY <1>1, <1>2 DEF RegisterKnown, RegisterNew, ExchangeSlot, Asks
<1>3. CASE ReleaseRequest(t) \/ Launch(t) \/ Collect(t) \/ Refuse(t) \/ StartCall(t)
  BY <1>1, <1>3 DEF ReleaseRequest, Launch, Collect, Refuse, StartCall, durable
<1>4. CASE ReplayCached(t)
  <2>2. want[t] \in Keys /\ up = "up" /\ cache[want[t]] # 0
    BY <1>0, <1>4 DEF ReplayCached, Enters, Running, Places, TaskPlace
  <2>3. AnswerOf(want[t]) /\ Books
    BY <1>0, <2>2 DEF Sales
  <2>4. cache[want[t]] \in Booked /\ cache[want[t]] \in booked /\ cache[want[t]] \in 1..MaxSold
    <3>1. cache[want[t]] \in Booked /\ cache[want[t]] \in booked
      BY <2>2, <2>3 DEF AnswerOf, Books
    <3>2. Booked \subseteq 1..MaxSold
      BY <1>0, SetOfSeq DEF TypeOK, Booked
    <3> QED BY <3>1, <3>2
  <2>5. rows' = Journalled(cache[want[t]]) /\ booked' = booked \cup {cache[want[t]]}
        /\ reserved' = reserved \ {t} /\ UNCHANGED <<sold, cache>>
    BY <1>4 DEF ReplayCached, UsageOnce, Count
  <2>6. Booked' = Booked /\ booked' = booked
    BY <1>0, <2>3, <2>4, <2>5, JournalledSet DEF Booked
  <2> QED BY <1>0, <2>5, <2>6 DEF BooksNothing
<1>5. CASE AttemptBreaks(t)
  BY <1>1, <1>5 DEF AttemptBreaks, AttemptStep, durable
<1>6. CASE AttemptSucceeds(t) \/ AttemptInvalid(t)
  <2>1. UNCHANGED <<rows, booked, reserved, cache>> /\ Sell(t) /\ pc[t] = "calling"
    BY <1>6 DEF AttemptSucceeds, AttemptInvalid, AttemptStep, durable
  <2>2. [key |-> want[t], first |-> completed[t] = <<>>] \in [key : Keys, first : BOOLEAN]
    BY <1>0, <2>1 DEF Places, TaskPlace
  <2>3. sold' = Append(sold, [key |-> want[t], first |-> completed[t] = <<>>])
    BY <2>1 DEF Sell
  <2>4. Len(sold') = Len(sold) + 1 /\ \A r \in 1..Len(sold) : sold'[r] = sold[r]
    BY <1>0, <2>2, <2>3, AppendSet DEF TypeOK
  <2> QED BY <1>0, <2>1, <2>4 DEF BooksNothing, Booked
<1>7. CASE Cancel(t) \/ TimeOut(t)
  BY <1>1, <1>7 DEF Cancel, TimeOut, Abandon, durable
<1>8. CASE BookAttempt(t)
  <2>1. /\ completed[t] # <<>> /\ booked' = booked \cup {Head(completed[t])}
        /\ rows' = Journalled(Head(completed[t])) /\ reserved' = reserved \ {t}
        /\ UNCHANGED <<sold, cache>>
    BY <1>8 DEF BookAttempt, UsageOnce, Count
  <2> QED BY <2>1, OpenAttempt DEF BooksNext, Booked
<1>9. CASE FinishCall(t)
  BY <1>0, <1>9 DEF FinishCall, BooksNothing, Booked
<1>10. CASE FinishFailure(t)
  BY <1>1, <1>10 DEF FinishFailure, durable
<1>11. CASE BookFault(t)
  <2>1. /\ completed[t] # <<>> /\ booked' = booked \cup {Head(completed[t])}
        /\ rows' \in {rows, Journalled(Head(completed[t]))} /\ reserved' = reserved \ {t}
        /\ UNCHANGED <<sold, cache>>
    BY <1>11 DEF BookFault, Count, Raise
  <2> QED BY <2>1, OpenAttempt DEF BooksNext, Booked
<1>12. CASE CacheFault(t)
  BY <1>1, <1>12 DEF CacheFault, Raise
<1> QED
  BY <1>2, <1>3, <1>4, <1>5, <1>6, <1>7, <1>8, <1>9, <1>10, <1>11, <1>12 DEF Step

(* ---- the ledger -------------------------------------------------------------- *)
LEMMA LedgerInit == Init => Ledger!LedgerInit
BY DEF Init, Ledger!LedgerInit, Booked, ToSet, NoAnswers

LEMMA LedgerStep == FullInv /\ FullInv' /\ [Next]_vars => [Ledger!LedgerNext]_(Ledger!ledgerVars)
<1> SUFFICES ASSUME FullInv, FullInv', [Next]_vars
             PROVE  [Ledger!LedgerNext]_(Ledger!ledgerVars)
  OBVIOUS
<1>0. TypeOK /\ TypeOK' /\ Places /\ Sales
  BY DEF FullInv, BaseInv
<1>1. ASSUME Booked' = Booked, cache' = cache PROVE [Ledger!LedgerNext]_(Ledger!ledgerVars)
  BY <1>1 DEF Ledger!ledgerVars
<1>2. ASSUME NEW t \in Tasks, Step(t) PROVE [Ledger!LedgerNext]_(Ledger!ledgerVars)
  <2>1. CASE BooksNext(t)
    <3>1. Head(completed[t]) \in 1..MaxSold
      BY <2>1, OpenAttempt DEF BooksNext
    <3>2. CASE Booked' = Booked
      BY <1>1, <2>1, <3>2 DEF BooksNext
    <3>3. CASE Booked' # Booked
      <4>1. Ledger!Book(Head(completed[t]))
        BY <2>1, <3>3 DEF BooksNext, Ledger!Book
      <4> QED BY <3>1, <4>1 DEF Ledger!LedgerNext
    <3> QED BY <3>2, <3>3
  <2>2. CASE BooksNothing(t) /\ FinishCall(t)
    <3>0. Elsewhere(t)
      BY <1>0, <1>2, StepElsewhere
    <3>1. Persisted(t) \in Booked /\ sold[Persisted(t)].key = want[t]
      BY <1>0, <2>2, <3>0, FinishStep
    <3>2. want[t] \in Keys /\ Persisted(t) \in 1..MaxSold /\ cache' = [cache EXCEPT ![want[t]] = Persisted(t)]
      <4>1. Booked \subseteq 1..MaxSold
        BY <1>0, SetOfSeq DEF TypeOK, Booked
      <4> QED BY <1>0, <2>2, <3>1, <4>1 DEF FinishCall, Settles, Places, TaskPlace
    <3>3. CASE cache[want[t]] # 0
      <4>1. cache' = cache
        BY <1>0, <3>2, <3>3 DEF Persisted, TypeOK
      <4> QED BY <1>1, <2>2, <4>1 DEF BooksNothing
    <3>4. CASE cache[want[t]] = 0
      <4>1. \A other \in Keys : cache[other] # Persisted(t)
        <5> SUFFICES ASSUME NEW other \in Keys, cache[other] = Persisted(t) PROVE FALSE
          OBVIOUS
        <5>1. cache[other] # 0 /\ AnswerOf(other)
          BY <1>0, <3>2 DEF Sales
        <5>2. other = want[t]
          BY <3>1, <5>1 DEF AnswerOf
        <5> QED BY <3>4, <5>1, <5>2
      <4>2. Ledger!Answer(want[t], Persisted(t))
        BY <2>2, <3>1, <3>2, <3>4, <4>1 DEF BooksNothing, Ledger!Answer
      <4> QED BY <3>2, <4>2 DEF Ledger!LedgerNext
    <3> QED BY <3>3, <3>4
  <2> QED BY <1>1, <1>2, <2>1, <2>2, StepBooks DEF BooksNothing
<1>3. CASE ReserveSlot \/ ReleaseSlot \/ Expire \/ Archive \/ Crash \/ Restart \/ UNCHANGED vars
  BY <1>1, <1>3 DEF ReserveSlot, ReleaseSlot, Expire, Archive, Crash, Restart, vars, durable, Booked
<1> QED BY <1>2, <1>3 DEF Next

\* Crashes, torn appends, cancellations and restarts included, the usage journal
\* and the response files are a ledger: nothing booked is forgotten, an answer
\* was booked before it was used, no request gets a second answer and no
\* response answers two requests (accounting.py 191-240, 298-392).
THEOREM CallsImplementLedger == Spec => ImplementsLedger
BY FullSafe, LedgerInit, LedgerStep, PTL DEF Spec, ImplementsLedger, Ledger!LedgerSpec

(* ---- the ceiling -------------------------------------------------------------- *)
\* The responses of a set that were their call's first.
Firsts(S) == {r \in S : sold[r].first}

\* What is in the journal bounds what a restart counts.
Ceiling ==
    /\ IsFiniteSet(reserved)
    /\ Cardinality(Firsts(booked)) + Cardinality(reserved) <= MaxCalls
    /\ Cardinality(Firsts(Booked)) <= MaxCalls

LEMMA SoldFinite == ASSUME NEW S \in SUBSET (1..MaxSold) PROVE IsFiniteSet(S) /\ Cardinality(S) \in Nat
<1>1. IsFiniteSet(1..MaxSold)
  BY FS_Interval, CallAssumption
<1> QED BY <1>1, FS_Subset, FS_CardinalityType

\* Both counts of firsts, of sets that only hold what is sold.
LEMMA CountedFirsts ==
    ASSUME FullInv
    PROVE  /\ booked \in SUBSET (1..Len(sold)) /\ Booked \in SUBSET (1..Len(sold))
           /\ booked \in SUBSET (1..MaxSold) /\ Booked \in SUBSET (1..MaxSold)
           /\ Cardinality(Firsts(booked)) \in Nat /\ Cardinality(Firsts(Booked)) \in Nat
<1>1. Len(sold) \in Nat /\ Len(sold) <= MaxSold /\ Books
  BY DEF FullInv, BaseInv, TypeOK, Sales
<1>2. /\ booked \in SUBSET (1..Len(sold)) /\ Booked \in SUBSET (1..Len(sold))
      /\ booked \in SUBSET (1..MaxSold) /\ Booked \in SUBSET (1..MaxSold)
  BY <1>1, CallAssumption DEF Books
<1>3. Firsts(booked) \in SUBSET (1..MaxSold) /\ Firsts(Booked) \in SUBSET (1..MaxSold)
  BY <1>2 DEF Firsts
<1> QED BY <1>2, <1>3, SoldFinite

LEMMA CeilingInit == Init => Ceiling
<1> SUFFICES ASSUME Init PROVE Ceiling
  OBVIOUS
<1>1. booked = {} /\ Booked = {} /\ reserved = {}
  BY DEF Init, Booked, ToSet
<1>2. Firsts({}) = {}
  BY DEF Firsts
<1> QED BY <1>1, <1>2, FS_EmptySet, CallAssumption DEF Ceiling

LEMMA CeilingNext == FullInv /\ FullInv' /\ Ceiling /\ [Next]_vars => Ceiling'
<1> SUFFICES ASSUME FullInv, FullInv', Ceiling, [Next]_vars PROVE Ceiling'
  OBVIOUS
<1>0. /\ TypeOK /\ Sales /\ Books /\ Len(sold) \in Nat /\ MaxCalls \in Nat
      /\ Cardinality(reserved) \in Nat /\ IsFiniteSet(reserved)
  <2>1. TypeOK /\ Sales /\ Books /\ MaxCalls \in Nat
    BY CallAssumption DEF FullInv, BaseInv, Sales
  <2>2. Len(sold) \in Nat
    BY <2>1 DEF TypeOK
  <2>3. Cardinality(reserved) \in Nat /\ IsFiniteSet(reserved)
    BY FS_CardinalityType DEF Ceiling
  <2> QED BY <2>1, <2>2, <2>3
<1>1. /\ booked \in SUBSET (1..Len(sold)) /\ Booked \in SUBSET (1..Len(sold))
      /\ booked \in SUBSET (1..MaxSold) /\ Booked \in SUBSET (1..MaxSold)
      /\ Cardinality(Firsts(booked)) \in Nat /\ Cardinality(Firsts(Booked)) \in Nat
  BY CountedFirsts
<1>2. ASSUME booked' = booked, Booked' = Booked, reserved' \subseteq reserved,
             \A r \in 1..Len(sold) : sold'[r] = sold[r]
      PROVE  Ceiling'
  <2>1. Firsts(booked)' = Firsts(booked) /\ Firsts(Booked)' = Firsts(Booked)
    BY <1>1, <1>2 DEF Firsts
  <2>2. IsFiniteSet(reserved') /\ Cardinality(reserved') <= Cardinality(reserved)
        /\ Cardinality(reserved') \in Nat
    BY <1>0, <1>2, FS_Subset, FS_CardinalityType
  <2> QED BY <1>0, <1>1, <2>1, <2>2 DEF Ceiling
<1>3. ASSUME NEW t \in Tasks, StartCall(t) PROVE Ceiling'
  <2>1. /\ booked' = booked /\ Booked' = Booked /\ sold' = sold
        /\ reserved' = reserved \cup {t} /\ SlotFree
    BY <1>3 DEF StartCall, durable, Booked
  <2>2. Firsts(booked)' = Firsts(booked) /\ Firsts(Booked)' = Firsts(Booked)
    BY <2>1 DEF Firsts
  <2>3. /\ Cardinality(Firsts(booked)) <= Cardinality(booked) /\ Cardinality(booked) \in Nat
    <3>1. IsFiniteSet(booked) /\ Cardinality(booked) \in Nat
      BY <1>1, SoldFinite
    <3>2. Firsts(booked) \subseteq booked
      BY DEF Firsts
    <3> QED BY <3>1, <3>2, FS_Subset
  <2>4. IsFiniteSet(reserved') /\ Cardinality(reserved') <= Cardinality(reserved) + 1
        /\ Cardinality(reserved') \in Nat
    <3>1. IsFiniteSet(reserved \cup {t})
          /\ Cardinality(reserved \cup {t}) = IF t \in reserved THEN Cardinality(reserved) ELSE Cardinality(reserved) + 1
      BY <1>0, FS_AddElement
    <3> QED BY <1>0, <2>1, <3>1
  <2> QED BY <1>0, <1>1, <2>1, <2>2, <2>3, <2>4 DEF SlotFree, Ceiling
<1>4. ASSUME NEW t \in Tasks, BooksNext(t), up = "up" PROVE Ceiling'
  <2>a DEFINE r == Head(completed[t])
  <2>1. /\ r \in 1..Len(sold) /\ r \in 1..MaxSold /\ (sold[r].first => t \in reserved)
        /\ sold' = sold /\ booked' = booked \cup {r} /\ Booked' \in {Booked, Booked \cup {r}}
        /\ reserved' = reserved \ {t}
    BY <1>4, OpenAttempt DEF BooksNext
  <2>2. Booked \subseteq booked
    BY <1>0, <1>4 DEF Books
  <2>f. IsFiniteSet(Firsts(booked))
    <3>1. Firsts(booked) \in SUBSET (1..MaxSold)
      BY <1>1 DEF Firsts
    <3> QED BY <3>1, SoldFinite
  <2>3. Cardinality(Firsts(booked)') + Cardinality(reserved') <= MaxCalls
        /\ IsFiniteSet(reserved') /\ IsFiniteSet(Firsts(booked)')
        /\ Cardinality(Firsts(booked)') \in Nat /\ Cardinality(reserved') \in Nat
    <3>1. CASE sold[r].first
      <4>1. Firsts(booked)' = Firsts(booked) \cup {r}
        BY <2>1, <3>1 DEF Firsts
      <4>2. IsFiniteSet(Firsts(booked)') /\ Cardinality(Firsts(booked)') <= Cardinality(Firsts(booked)) + 1
            /\ Cardinality(Firsts(booked)') \in Nat
        <5>1. IsFiniteSet(Firsts(booked) \cup {r})
              /\ Cardinality(Firsts(booked) \cup {r}) =
                   IF r \in Firsts(booked) THEN Cardinality(Firsts(booked)) ELSE Cardinality(Firsts(booked)) + 1
          BY <2>f, FS_AddElement
        <5> QED BY <1>1, <4>1, <5>1
      <4>3. IsFiniteSet(reserved') /\ Cardinality(reserved') = Cardinality(reserved) - 1
            /\ Cardinality(reserved') \in Nat
        <5>1. IsFiniteSet(reserved \ {t}) /\ Cardinality(reserved \ {t}) = Cardinality(reserved) - 1
          BY <1>0, <2>1, <3>1, FS_RemoveElement
        <5> QED BY <2>1, <5>1, FS_CardinalityType
      <4> QED BY <1>0, <1>1, <4>2, <4>3 DEF Ceiling
    <3>2. CASE ~sold[r].first
      <4>1. Firsts(booked)' = Firsts(booked)
        BY <2>1, <3>2 DEF Firsts
      <4>2. IsFiniteSet(reserved') /\ Cardinality(reserved') <= Cardinality(reserved)
            /\ Cardinality(reserved') \in Nat
        <5>1. reserved' \subseteq reserved
          BY <2>1
        <5> QED BY <1>0, <5>1, FS_Subset, FS_CardinalityType
      <4> QED BY <1>0, <1>1, <2>f, <4>1, <4>2 DEF Ceiling
    <3> QED BY <3>1, <3>2
  <2>4. Cardinality(Firsts(Booked)') <= Cardinality(Firsts(booked)') /\ Cardinality(Firsts(Booked)') \in Nat
    <3>1. Firsts(Booked)' \subseteq Firsts(booked)'
      BY <2>1, <2>2 DEF Firsts
    <3> QED BY <2>3, <3>1, FS_Subset, FS_CardinalityType
  <2> QED BY <1>0, <2>3, <2>4 DEF Ceiling
<1>5. CASE Crash
  <2>1. booked' = {} /\ reserved' = {} /\ sold' = sold /\ Booked' = Booked
    BY <1>5 DEF Crash, durable, Booked
  <2>2. Firsts(booked)' = {} /\ Firsts(Booked)' = Firsts(Booked)
    BY <2>1 DEF Firsts
  <2>3. Cardinality(Firsts(booked)') = 0 /\ Cardinality(reserved') = 0 /\ IsFiniteSet(reserved')
    BY <2>1, <2>2, FS_EmptySet
  <2> QED BY <1>0, <2>2, <2>3 DEF Ceiling
<1>6. CASE Restart
  <2>1. sold' = sold /\ Booked' = Booked /\ reserved' = reserved /\ up = "down"
    BY <1>6 DEF Restart, Booked
  <2>2. reserved = {}
    <3>1. ASSUME NEW t \in reserved PROVE FALSE
      <4>1. t \in Tasks /\ TaskPlace(t) /\ pc[t] = "idle"
        BY <1>0, <2>1, <3>1 DEF FullInv, BaseInv, Places, ProcessPlace, TypeOK
      <4> QED BY <3>1, <4>1 DEF TaskPlace, InFlight
    <3> QED BY <3>1
  <2>3. booked' \in {booked, Booked}
    BY <1>6 DEF Restart
  <2>4. Cardinality(Firsts(booked)') <= MaxCalls
    <3>1. Firsts(booked)' \in {Firsts(booked), Firsts(Booked)}
      BY <2>1, <2>3 DEF Firsts
    <3>2. Cardinality(Firsts(booked)) <= MaxCalls
      BY <1>0, <1>1 DEF Ceiling
    <3> QED BY <3>1, <3>2 DEF Ceiling
  <2>5. Cardinality(reserved') = 0 /\ IsFiniteSet(reserved')
    BY <2>1, <2>2, FS_EmptySet
  <2>6. Firsts(Booked)' = Firsts(Booked)
    BY <2>1 DEF Firsts
  <2>7. Cardinality(Firsts(booked)') \in Nat
    BY <1>1, <2>1, <2>3 DEF Firsts
  <2> QED BY <2>4, <2>5, <2>6, <2>7 DEF Ceiling
<1>7. ASSUME NEW t \in Tasks, Step(t) PROVE Ceiling'
  <2>1. up = "up"
    BY <1>0, <1>7, StepElsewhere
  <2>2. CASE BooksNext(t)
    BY <1>4, <2>1, <2>2
  <2>3. CASE BooksNothing(t)
    BY <1>2, <1>3, <2>3 DEF BooksNothing
  <2> QED BY <1>7, <2>2, <2>3, StepBooks
<1>8. CASE ReserveSlot \/ ReleaseSlot \/ Expire \/ Archive \/ UNCHANGED vars
  BY <1>2, <1>8 DEF ReserveSlot, ReleaseSlot, Expire, Archive, vars, durable, Booked
<1> QED BY <1>5, <1>6, <1>7, <1>8 DEF Next

\* Concurrent calls never start more than the budget allows: the first attempts
\* counted and the calls in flight stay within maximum_calls, over crashes and
\* restarts as well (budget.py reserve and reconcile).
THEOREM CallsWithinCeiling == Spec => []CallCeiling
<1>1. Ceiling => CallCeiling
  BY DEF Ceiling, CallCeiling, Firsts
<1> QED BY <1>1, CeilingInit, CeilingNext, FullSafe, PTL DEF Spec

(* ---- paid and booked ------------------------------------------------------------ *)
AllPaid == 1..Len(sold) = Booked \cup UNION {ToSet(completed[t]) : t \in Tasks}

LEMMA PaidInit == Init => PaidIsBooked
<1> SUFFICES ASSUME Init PROVE PaidIsBooked
  OBVIOUS
<1>1. Len(sold) = 0 /\ Booked = {} /\ \A t \in Tasks : ToSet(completed[t]) = {}
  BY DEF Init, Booked, ToSet
<1> QED BY <1>1 DEF PaidIsBooked

LEMMA PaidNext == FullInv /\ FullInv' /\ PaidIsBooked /\ [Next]_vars => PaidIsBooked'
<1> SUFFICES ASSUME FullInv, FullInv', PaidIsBooked, [Next]_vars, upsets' = {}
             PROVE  AllPaid'
  BY DEF PaidIsBooked, AllPaid
<1>0. /\ TypeOK /\ TypeOK' /\ Places /\ Len(sold) \in Nat
      /\ completed \in [Tasks -> Seq(1..MaxSold)]
  <2>1. TypeOK /\ TypeOK' /\ Places
    BY DEF FullInv, BaseInv
  <2>2. Len(sold) \in Nat /\ completed \in [Tasks -> Seq(1..MaxSold)]
    BY <2>1 DEF TypeOK
  <2> QED BY <2>1, <2>2
<1>1. \A kind : ~Upset(kind)
  BY DEF Upset
<1>2. upsets = {}
  <2>1. CASE ReserveSlot \/ ReleaseSlot \/ Expire \/ Crash \/ Archive \/ Restart \/ UNCHANGED vars
    BY <1>1, <2>1 DEF ReserveSlot, ReleaseSlot, Expire, Crash, Archive, Restart, vars
  <2>2. ASSUME NEW t \in Tasks, Step(t) PROVE upsets = {}
    <3>1. ASSUME NEW k \in Keys, RegisterKnown(t, k) \/ RegisterNew(t, k) \/ ExchangeSlot(t, k)
          PROVE  upsets = {}
      BY <3>1 DEF RegisterKnown, RegisterNew, ExchangeSlot, Asks
    <3>2. CASE ReleaseRequest(t) \/ Launch(t) \/ Collect(t) \/ ReplayCached(t) \/ Refuse(t) \/ StartCall(t)
      BY <3>2 DEF ReleaseRequest, Launch, Collect, ReplayCached, Refuse, StartCall
    <3>3. CASE AttemptSucceeds(t) \/ AttemptInvalid(t) \/ AttemptBreaks(t)
      BY <3>3 DEF AttemptSucceeds, AttemptInvalid, AttemptBreaks, AttemptStep
    <3>4. CASE Cancel(t) \/ TimeOut(t) \/ BookAttempt(t) \/ FinishCall(t) \/ FinishFailure(t) \/ BookFault(t) \/ CacheFault(t)
      BY <1>1, <3>4 DEF Cancel, TimeOut, BookAttempt, FinishCall, FinishFailure, BookFault, CacheFault, Raise
    <3> QED BY <2>2, <3>1, <3>2, <3>3, <3>4 DEF Step
  <2> QED BY <2>1, <2>2 DEF Next
<1>3. AllPaid
  BY <1>2 DEF PaidIsBooked, AllPaid
<1>4. ASSUME sold' = sold, Booked' = Booked,
             \A t \in Tasks : completed'[t] = completed[t]
      PROVE  AllPaid'
  <2>1. UNION {ToSet(completed'[t]) : t \in Tasks} = UNION {ToSet(completed[t]) : t \in Tasks}
    BY <1>4
  <2> QED BY <1>3, <1>4, <2>1 DEF AllPaid
<1>5. ASSUME NEW t \in Tasks, Step(t)
      PROVE  AllPaid'
  <2>0. Elsewhere(t) /\ TaskPlace(t)
    BY <1>0, <1>5, StepElsewhere DEF Places
  <2>e. \A u \in Tasks \ {t} : completed'[u] = completed[u]
    BY <2>0 DEF Elsewhere
  <2>1. CASE AttemptSucceeds(t) \/ AttemptInvalid(t)
    <3>1. UNCHANGED rows /\ Sell(t) /\ pc[t] = "calling"
      BY <2>1 DEF AttemptSucceeds, AttemptInvalid, AttemptStep, durable
    <3>2. [key |-> want[t], first |-> completed[t] = <<>>] \in [key : Keys, first : BOOLEAN]
      BY <2>0, <3>1 DEF TaskPlace
    <3>3. Len(sold') = Len(sold) + 1
      <4>1. sold' = Append(sold, [key |-> want[t], first |-> completed[t] = <<>>])
        BY <3>1 DEF Sell
      <4> QED BY <1>0, <3>2, <4>1, AppendSet DEF TypeOK
    <3>4. ToSet(completed'[t]) = ToSet(completed[t]) \cup {Len(sold) + 1}
      <4>1. completed'[t] = Append(completed[t], Len(sold) + 1) /\ Len(sold) + 1 \in 1..MaxSold
        BY <1>0, <3>1 DEF Sell, TypeOK
      <4>2. completed[t] \in Seq(1..MaxSold)
        BY <1>0
      <4>3. ToSet(Append(completed[t], Len(sold) + 1)) = ToSet(completed[t]) \cup {Len(sold) + 1}
        BY <4>1, <4>2, AppendSale
      <4> QED BY <4>1, <4>3
    <3>5. Booked' = Booked
      BY <3>1 DEF Booked
    <3>6. 1..Len(sold') = (1..Len(sold)) \cup {Len(sold) + 1}
      BY <1>0, <3>3
    <3>7. UNION {ToSet(completed'[u]) : u \in Tasks} = {Len(sold) + 1} \cup UNION {ToSet(completed[u]) : u \in Tasks}
      BY <2>e, <3>4
    <3> QED BY <1>3, <3>5, <3>6, <3>7 DEF AllPaid
  <2>2. CASE BookAttempt(t)
    <3>1. /\ completed[t] # <<>> /\ rows' = Journalled(Head(completed[t])) /\ sold' = sold
          /\ completed'[t] = Tail(completed[t])
      BY <1>0, <2>2 DEF BookAttempt, UsageOnce, Count
    <3>2. /\ Booked' = Booked \cup {Head(completed[t])}
          /\ ToSet(completed[t]) = {Head(completed[t])} \cup ToSet(completed'[t])
      BY <3>1, OpenAttempt DEF Booked
    <3>3. {Head(completed[t])} \cup UNION {ToSet(completed'[u]) : u \in Tasks} = {Head(completed[t])} \cup UNION {ToSet(completed[u]) : u \in Tasks}
      BY <2>e, <3>2
    <3> QED BY <1>3, <3>1, <3>2, <3>3 DEF AllPaid
  <2>3. CASE ReplayCached(t)
    <3>1. sold' = sold /\ completed' = completed
      BY <2>3 DEF ReplayCached
    <3>2. Booked' = Booked
      BY <1>0, <2>0, <2>3, ReplayStep DEF FullInv
    <3> QED BY <1>4, <3>1, <3>2
  <2>4. CASE Refuse(t) \/ FinishFailure(t)
    <3>1. sold' = sold /\ rows' = rows /\ completed[t] = <<>> /\ completed'[t] = <<>>
      BY <1>0, <2>0, <2>4 DEF Refuse, FinishFailure, Enters, GivesUp, durable, TaskPlace, InFlight
    <3> QED BY <1>4, <2>e, <3>1 DEF Booked
  <2>5. ASSUME UNCHANGED <<sold, rows, completed>> PROVE AllPaid'
    BY <1>4, <2>5 DEF Booked
  <2>6. ASSUME NEW k \in Keys, RegisterKnown(t, k) \/ RegisterNew(t, k) \/ ExchangeSlot(t, k)
        PROVE  UNCHANGED <<sold, rows, completed>>
    BY <2>6 DEF RegisterKnown, RegisterNew, ExchangeSlot, Asks
  <2>7. CASE ReleaseRequest(t) \/ Launch(t) \/ Collect(t) \/ StartCall(t) \/ AttemptBreaks(t) \/ FinishCall(t)
    BY <2>5, <2>7 DEF ReleaseRequest, Launch, Collect, StartCall, AttemptBreaks, AttemptStep, FinishCall, durable
  <2>8. ~TimeOut(t)
    BY <1>2 DEF TimeOut, expired
  <2> QED BY <1>1, <1>5, <2>1, <2>2, <2>3, <2>4, <2>5, <2>6, <2>7, <2>8
             DEF Step, Cancel, BookFault, CacheFault, Raise
<1>6. CASE ReserveSlot \/ ReleaseSlot \/ Restart \/ UNCHANGED vars
  BY <1>4, <1>6 DEF ReserveSlot, ReleaseSlot, Restart, vars, durable, calls, Booked
<1> QED BY <1>1, <1>5, <1>6 DEF Next, Expire, Crash, Archive

\* Unless something is cancelled, fails to write, dies or times out, every
\* attempt that was paid for is in the journal or about to be booked by its call,
\* rejected attempts included (accounting.py 211-224).
THEOREM PaidAttemptsBooked == Spec => []PaidIsBooked
BY FullSafe, PaidInit, PaidNext, PTL DEF Spec

\* A restart never meets a binding the accounting does not know: what the
\* scheduler saved is booked and is the cached answer (research.py 2880-2895).
LEMMA BindingsKnown == Spec => [](up # "mismatch")
<1>1. Init => up # "mismatch"
  BY DEF Init
<1>2. FullInv /\ up # "mismatch" /\ [Next]_vars => (up # "mismatch")'
  <2> SUFFICES ASSUME FullInv, up # "mismatch", [Next]_vars PROVE up' # "mismatch"
    OBVIOUS
  <2>1. ASSUME NEW t \in Tasks, Step(t) PROVE up' # "mismatch"
    BY <2>1, StepElsewhere DEF FullInv, BaseInv
  <2>2. CASE Restart
    <3>1. \A k \in Keys : AnswerOf(k)
      BY DEF FullInv, Sales
    <3>2. ~ \E k \in Keys : saved.bound[k] # 0 /\ (saved.bound[k] # cache[k] \/ saved.bound[k] \notin Booked)
      BY <3>1 DEF AnswerOf
    <3> QED BY <2>2, <3>2 DEF Restart, Verdict
  <2>3. CASE ReserveSlot \/ ReleaseSlot \/ Expire \/ Archive \/ Crash \/ UNCHANGED vars
    BY <2>3 DEF ReserveSlot, ReleaseSlot, Expire, Archive, Crash, vars
  <2> QED BY <2>1, <2>2, <2>3 DEF Next
<1> QED BY <1>1, <1>2, FullSafe, PTL DEF Spec

(* ---- a refused restart --------------------------------------------------------- *)
\* The answered requests, and those of them whose slot would not be new: not
\* registered, or registered without an answer and without a slot of their own.
Cached == {k \in Keys : cache[k] # 0}
Free   == {k \in Cached : k \notin tracker.keys \/ (tracker.bound[k] = 0 /\ k \notin tracker.credit)}

\* Only registered requests are bound to an answer.
BoundKeys == /\ \A k \in Keys : saved.bound[k] # 0 => k \in saved.keys
             /\ \A k \in Keys : tracker.bound[k] # 0 => k \in tracker.keys

\* While the process is up, the registered requests fit the tracker's allowance,
\* which can still grow by one for every free answer.
Counted == /\ saved.keys = tracker.keys
           /\ Cardinality(tracker.keys) <= tracker.run
           /\ IsFiniteSet(Free) /\ tracker.run + Cardinality(Free) <= MaxCalls
           /\ \A t \in Tasks : want[t] # NoKey => want[t] \in tracker.keys

Slots == /\ IsFiniteSet(saved.keys) /\ IsFiniteSet(Cached)
         /\ Cardinality(saved.keys) <= HardCalls
         /\ Cardinality(saved.keys \cup Cached) <= MaxCalls
         /\ BoundKeys
         /\ up = "up" => Counted

\* The union of two finite sets, by what the second adds.
LEMMA UnionCount ==
    ASSUME NEW A, NEW B, IsFiniteSet(A), IsFiniteSet(B)
    PROVE  /\ IsFiniteSet(A \cup B) /\ IsFiniteSet(B \ A) /\ IsFiniteSet(A \cap B)
           /\ Cardinality(A) \in Nat /\ Cardinality(B) \in Nat
           /\ Cardinality(A \cap B) \in Nat /\ Cardinality(B \ A) \in Nat
           /\ Cardinality(A \cup B) \in Nat
           /\ Cardinality(B) = Cardinality(A \cap B) + Cardinality(B \ A)
           /\ Cardinality(A \cup B) = Cardinality(A) + Cardinality(B \ A)
<1>1. /\ IsFiniteSet(A \cup B)
      /\ Cardinality(A \cup B) = Cardinality(A) + Cardinality(B) - Cardinality(A \cap B)
  BY FS_Union
<1>2. IsFiniteSet(B \ A) /\ Cardinality(B \ A) = Cardinality(B) - Cardinality(B \cap A)
  BY FS_Difference
<1>3. IsFiniteSet(A \cap B) /\ B \cap A = A \cap B
  BY FS_Intersection
<1>4. /\ Cardinality(A) \in Nat /\ Cardinality(B) \in Nat /\ Cardinality(A \cap B) \in Nat
      /\ Cardinality(B \ A) \in Nat /\ Cardinality(A \cup B) \in Nat
  BY <1>1, <1>2, <1>3, FS_CardinalityType
<1>5. Cardinality(B \ A) = Cardinality(B) - Cardinality(A \cap B)
  BY <1>2, <1>3
<1>6. Cardinality(B) = Cardinality(A \cap B) + Cardinality(B \ A)
  BY <1>4, <1>5
<1>7. Cardinality(A \cup B) = Cardinality(A) + Cardinality(B \ A)
  BY <1>1, <1>4, <1>5
<1> QED BY <1>1, <1>2, <1>3, <1>4, <1>6, <1>7

LEMMA SlotsInit == Init => Slots
<1> SUFFICES ASSUME Init PROVE Slots
  OBVIOUS
<1>1. /\ saved.keys = {} /\ tracker.keys = {} /\ Cached = {} /\ Free = {}
      /\ saved.bound = NoAnswers /\ tracker.bound = NoAnswers /\ tracker.run = MaxCalls
      /\ \A t \in Tasks : want[t] = NoKey
  BY DEF Init, Cached, Free, EmptyTracker, NoAnswers
<1>2. {} \cup {} = {} /\ MaxCalls \in Nat /\ HardCalls \in Nat
  BY CallAssumption
<1>3. IsFiniteSet({}) /\ Cardinality({}) = 0
  BY FS_EmptySet
<1> QED BY <1>1, <1>2, <1>3 DEF Slots, BoundKeys, Counted, NoAnswers

\* While the process is up, the saved requests follow from what is counted.
KeysFit == IsFiniteSet(tracker.keys) /\ Cardinality(tracker.keys) <= HardCalls

LEMMA CountedSlots == TypeOK /\ Counted /\ BoundKeys /\ KeysFit => Slots
<1> SUFFICES ASSUME TypeOK, Counted, BoundKeys, IsFiniteSet(tracker.keys),
                    Cardinality(tracker.keys) <= HardCalls
             PROVE  Slots
  BY DEF KeysFit
<1>1. /\ tracker.run \in Nat /\ MaxCalls \in Nat
  BY CallAssumption DEF TypeOK, Tracker
<1>2. IsFiniteSet(Free) /\ Cached \subseteq tracker.keys \cup Free /\ saved.keys = tracker.keys
  BY DEF Counted, Free
<1>3. /\ IsFiniteSet(tracker.keys \cup Free) /\ IsFiniteSet(Free \ tracker.keys)
      /\ Cardinality(tracker.keys) \in Nat /\ Cardinality(Free) \in Nat
      /\ Cardinality(Free \ tracker.keys) \in Nat /\ Cardinality(tracker.keys \cup Free) \in Nat
      /\ Cardinality(tracker.keys \cup Free) = Cardinality(tracker.keys) + Cardinality(Free \ tracker.keys)
  BY <1>2, UnionCount
<1>4. Cardinality(Free \ tracker.keys) <= Cardinality(Free)
  BY <1>2, FS_Subset
<1>5. Cardinality(tracker.keys \cup Free) <= MaxCalls
  BY <1>1, <1>3, <1>4 DEF Counted
<1>6. IsFiniteSet(Cached)
  BY <1>2, <1>3, FS_Subset
<1>7. tracker.keys \cup Cached \subseteq tracker.keys \cup Free
  BY <1>2
<1>8. /\ IsFiniteSet(tracker.keys \cup Cached)
      /\ Cardinality(tracker.keys \cup Cached) <= Cardinality(tracker.keys \cup Free)
  BY <1>3, <1>7, FS_Subset
<1>9. Cardinality(tracker.keys \cup Cached) \in Nat
  BY <1>8, FS_CardinalityType
<1>10. Cardinality(saved.keys \cup Cached) <= MaxCalls
  BY <1>1, <1>2, <1>3, <1>5, <1>8, <1>9
<1> QED BY <1>2, <1>6, <1>10 DEF Slots

\* A step of a running process that changes the requests, the allowance or the
\* answers: what is left to show of it.
LEMMA CountedStep ==
    ASSUME TypeOK', BoundKeys', up' = "up",
           saved'.keys = tracker'.keys, IsFiniteSet(tracker'.keys),
           Cardinality(tracker'.keys) <= HardCalls, Cardinality(tracker'.keys) <= tracker'.run,
           IsFiniteSet(Free'), tracker'.run + Cardinality(Free') <= MaxCalls,
           \A t \in Tasks : want'[t] # NoKey => want'[t] \in tracker'.keys
    PROVE  Slots'
<1>1. Counted'
  BY DEF Counted
<1>2. KeysFit'
  BY DEF KeysFit
<1> QED BY <1>1, <1>2, CountedSlots, PTL

\* Nothing but what the tasks ask for changes, and they ask for less.
LEMMA SlotsStay ==
    ASSUME Slots, UNCHANGED <<tracker, cache, up>>, saved'.keys = saved.keys,
           \A k \in Keys : saved'.bound[k] \in {saved.bound[k], tracker.bound[k]},
           up = "up" \/ saved' = saved,
           \A t \in Tasks : want'[t] # NoKey => want'[t] = want[t] \/ want'[t] \in tracker.keys
    PROVE  Slots'
<1>1. Cached' = Cached /\ Free' = Free
  BY DEF Cached, Free
<1>2. BoundKeys'
  BY DEF Slots, BoundKeys, Counted
<1>3. up = "up" => Counted'
  BY <1>1 DEF Slots, Counted
<1> QED BY <1>1, <1>2, <1>3 DEF Slots

\* The parts of the invariant that a running process rests on.
LEMMA RunningSlots ==
    ASSUME TypeOK, Slots, up = "up"
    PROVE  /\ Counted /\ BoundKeys
           /\ IsFiniteSet(tracker.keys) /\ IsFiniteSet(Free) /\ IsFiniteSet(Cached)
           /\ Cardinality(tracker.keys) \in Nat /\ Cardinality(Free) \in Nat
           /\ tracker.run \in Nat /\ MaxCalls \in Nat /\ HardCalls \in Nat
           /\ Cardinality(tracker.keys) <= HardCalls
           /\ Cardinality(tracker.keys) <= tracker.run
           /\ tracker.run + Cardinality(Free) <= MaxCalls
           /\ tracker \in Tracker /\ saved \in SavedTracker
           /\ tracker.keys \subseteq Keys \cup {Slot} /\ Slot \notin Keys
<1>1. /\ Counted /\ BoundKeys /\ IsFiniteSet(tracker.keys) /\ IsFiniteSet(Free) /\ IsFiniteSet(Cached)
      /\ Cardinality(tracker.keys) <= HardCalls
      /\ Cardinality(tracker.keys) <= tracker.run
      /\ tracker.run + Cardinality(Free) <= MaxCalls
  BY DEF Slots, Counted
<1>2. Cardinality(tracker.keys) \in Nat /\ Cardinality(Free) \in Nat
  BY <1>1, FS_CardinalityType
<1> QED BY <1>1, <1>2, CallAssumption DEF TypeOK, Tracker

\* A request that is registered: with a new slot, or with the one it paid for.
LEMMA RegisterSlots ==
    ASSUME TypeOK, TypeOK', Credit, Books, \A k \in Keys : AnswerOf(k), Slots,
           NEW t \in Tasks, NEW k \in Keys, RegisterNew(t, k)
    PROVE  Slots'
<1>1. /\ up = "up" /\ up' = "up" /\ cache' = cache /\ k \notin tracker.keys
      /\ tracker' = Admit(k) /\ saved' = Saved(Admit(k)) /\ MayAdmit(k)
      /\ want' = [want EXCEPT ![t] = k]
  BY DEF RegisterNew, Asks, Checkpoint, Running
<1>2. /\ Counted /\ BoundKeys
      /\ IsFiniteSet(tracker.keys) /\ IsFiniteSet(Free) /\ IsFiniteSet(Cached)
      /\ Cardinality(tracker.keys) \in Nat /\ Cardinality(Free) \in Nat
      /\ tracker.run \in Nat /\ MaxCalls \in Nat /\ HardCalls \in Nat
      /\ Cardinality(tracker.keys) <= HardCalls
      /\ Cardinality(tracker.keys) <= tracker.run
      /\ tracker.run + Cardinality(Free) <= MaxCalls
      /\ tracker \in Tracker /\ saved \in SavedTracker
      /\ tracker.keys \subseteq Keys \cup {Slot} /\ Slot \notin Keys
  BY <1>1, RunningSlots
<1>3. /\ tracker' \in Tracker
      /\ tracker'.keys = tracker.keys \cup {k}
      /\ tracker'.bound = tracker.bound
      /\ tracker'.run = IF Accounted(k) THEN tracker.run + 1 ELSE tracker.run
      /\ tracker'.credit = IF Accounted(k) THEN tracker.credit \cup {k} ELSE tracker.credit
  BY <1>1, AdmitIs
<1>4. saved'.keys = tracker'.keys /\ saved'.bound = tracker'.bound
  BY <1>1, <1>3, SavedType
<1>5. /\ IsFiniteSet(tracker'.keys)
      /\ Cardinality(tracker'.keys) = Cardinality(tracker.keys) + 1
  <2>1. /\ IsFiniteSet(tracker.keys \cup {k})
        /\ Cardinality(tracker.keys \cup {k}) = IF k \in tracker.keys THEN Cardinality(tracker.keys)
                                                ELSE Cardinality(tracker.keys) + 1
    BY <1>2, FS_AddElement
  <2> QED BY <1>1, <1>3, <2>1
<1>6. BoundKeys'
  BY <1>2, <1>3, <1>4 DEF BoundKeys
<1>7. want \in [Tasks -> Keys \cup {NoKey}]
  BY DEF TypeOK
<1>8. \A u \in Tasks : want'[u] # NoKey => want'[u] \in tracker'.keys
  BY <1>1, <1>2, <1>3, <1>7 DEF Counted
<1>9. HardAllows(tracker) /\ (~Accounted(k) => Cardinality(tracker.keys) + 1 <= tracker.run)
  BY <1>1 DEF MayAdmit, CanCall, Calls
<1>10. Cardinality(tracker'.keys) <= HardCalls
  BY <1>5, <1>9 DEF HardAllows, Calls
<1>11. CASE Accounted(k)
  <2>1. k \in Free
    BY <1>1, <1>11 DEF Free, Cached, Accounted
  <2>2. Free' = Free \ {k}
    BY <1>1, <1>2, <1>3, <1>11 DEF Free, Cached, BoundKeys
  <2>3. IsFiniteSet(Free') /\ Cardinality(Free') = Cardinality(Free) - 1
    BY <1>2, <2>1, <2>2, FS_RemoveElement
  <2>4. tracker'.run = tracker.run + 1
    BY <1>3, <1>11
  <2>5. tracker'.run + Cardinality(Free') <= MaxCalls /\ Cardinality(tracker'.keys) <= tracker'.run
    BY <1>2, <1>5, <2>3, <2>4
  <2> QED BY <1>1, <1>4, <1>5, <1>6, <1>8, <1>10, <2>3, <2>5, CountedStep
<1>12. CASE ~Accounted(k)
  <2>1. cache[k] = 0
    BY <1>1, <1>12 DEF Accounted, Books, AnswerOf
  <2>2. Free' = Free
    BY <1>1, <1>3, <1>12, <2>1 DEF Free, Cached
  <2>3. tracker'.run = tracker.run /\ tracker'.run + Cardinality(Free') <= MaxCalls
    BY <1>2, <1>3, <1>12, <2>2
  <2>4. Cardinality(tracker'.keys) <= tracker'.run
    BY <1>5, <1>9, <1>12, <2>3
  <2>5. IsFiniteSet(Free')
    BY <1>2, <2>2
  <2> QED BY <1>1, <1>4, <1>5, <1>6, <1>8, <1>10, <2>3, <2>4, <2>5, CountedStep
<1> QED BY <1>11, <1>12

\* A registered request that is given up: its slot goes, and what it paid for is
\* free again.
LEMMA ReleaseSlots ==
    ASSUME TypeOK, TypeOK', Places, Credit, Slots, NEW t \in Tasks, ReleaseRequest(t)
    PROVE  Slots'
<1> DEFINE k == want[t]
<1>1. /\ up = "up" /\ up' = "up" /\ cache' = cache /\ k \in tracker.keys /\ tracker.bound[k] = 0
      /\ tracker' = Released(k) /\ saved' = Saved(Released(k))
      /\ want' = [want EXCEPT ![t] = NoKey] /\ pc[t] = "registered"
      /\ \A other \in Tasks \ {t} : want[other] # k
  BY DEF ReleaseRequest, Checkpoint, Running
<1>2. /\ Counted /\ BoundKeys
      /\ IsFiniteSet(tracker.keys) /\ IsFiniteSet(Free) /\ IsFiniteSet(Cached)
      /\ Cardinality(tracker.keys) \in Nat /\ Cardinality(Free) \in Nat
      /\ tracker.run \in Nat /\ MaxCalls \in Nat /\ HardCalls \in Nat
      /\ Cardinality(tracker.keys) <= HardCalls
      /\ Cardinality(tracker.keys) <= tracker.run
      /\ tracker.run + Cardinality(Free) <= MaxCalls
      /\ tracker \in Tracker /\ saved \in SavedTracker
      /\ tracker.keys \subseteq Keys \cup {Slot} /\ Slot \notin Keys
  BY <1>1, RunningSlots
<1>3. k \in Keys
  BY <1>1 DEF Places, TaskPlace
<1> HIDE DEF k
<1>4. /\ tracker'.keys = tracker.keys \ {k}
      /\ tracker'.bound = tracker.bound
      /\ tracker'.run = IF k \in tracker.credit THEN tracker.run - 1 ELSE tracker.run
      /\ tracker'.credit = tracker.credit \ {k}
  BY <1>1, <1>3, ReleasedIs
<1>5. saved'.keys = tracker'.keys /\ saved'.bound = tracker'.bound
  BY <1>1 DEF Saved
<1>6. IsFiniteSet(tracker'.keys) /\ Cardinality(tracker'.keys) = Cardinality(tracker.keys) - 1
  <2>1. /\ IsFiniteSet(tracker.keys \ {k})
        /\ Cardinality(tracker.keys \ {k}) = IF k \in tracker.keys THEN Cardinality(tracker.keys) - 1
                                             ELSE Cardinality(tracker.keys)
    BY <1>2, FS_RemoveElement
  <2> QED BY <1>1, <1>4, <2>1
<1>7. BoundKeys'
  BY <1>1, <1>2, <1>4, <1>5 DEF BoundKeys
<1>8. want \in [Tasks -> Keys \cup {NoKey}]
  BY DEF TypeOK
<1>9. \A u \in Tasks : want'[u] # NoKey => want'[u] \in tracker'.keys
  BY <1>1, <1>2, <1>4, <1>8 DEF Counted
<1>10. Cardinality(tracker'.keys) <= HardCalls
  BY <1>2, <1>6
<1>11. CASE k \in tracker.credit
  <2>1. Free' \subseteq Free \cup {k}
    BY <1>1, <1>4 DEF Free, Cached
  <2>2. IsFiniteSet(Free \cup {k}) /\ Cardinality(Free \cup {k}) <= Cardinality(Free) + 1
    <3>1. /\ IsFiniteSet(Free \cup {k})
          /\ Cardinality(Free \cup {k}) = IF k \in Free THEN Cardinality(Free) ELSE Cardinality(Free) + 1
      BY <1>2, FS_AddElement
    <3> QED BY <1>2, <3>1
  <2>3. IsFiniteSet(Free') /\ Cardinality(Free') <= Cardinality(Free \cup {k})
    BY <2>1, <2>2, FS_Subset
  <2>4. Cardinality(Free') \in Nat /\ Cardinality(Free \cup {k}) \in Nat
    BY <2>2, <2>3, FS_CardinalityType
  <2>5. tracker'.run = tracker.run - 1
    BY <1>4, <1>11
  <2>6. tracker'.run + Cardinality(Free') <= MaxCalls /\ Cardinality(tracker'.keys) <= tracker'.run
    BY <1>2, <1>6, <2>2, <2>3, <2>4, <2>5
  <2> QED BY <1>1, <1>5, <1>6, <1>7, <1>9, <1>10, <2>3, <2>6, CountedStep
<1>12. CASE k \notin tracker.credit
  <2>1. Free' = Free
    BY <1>1, <1>4, <1>12 DEF Free, Cached
  <2>2. tracker'.run = tracker.run /\ tracker'.run + Cardinality(Free') <= MaxCalls
    BY <1>2, <1>4, <1>12, <2>1
  <2>3. Cardinality(tracker'.keys) <= tracker'.run
    BY <1>2, <1>6, <2>2
  <2>4. IsFiniteSet(Free')
    BY <1>2, <2>1
  <2> QED BY <1>1, <1>5, <1>6, <1>7, <1>9, <1>10, <2>2, <2>3, <2>4, CountedStep
<1> QED BY <1>11, <1>12

\* The other changes of the requests: the gate's placeholder is taken, given back,
\* or becomes a request.
LEMMA KeysStep ==
    ASSUME TypeOK, TypeOK', Slots, up = "up", up' = "up", cache' = cache, NEW ks,
           tracker.keys \ {Slot} \subseteq ks,
           tracker' = [tracker EXCEPT !.keys = ks], saved' = Saved(tracker'),
           IsFiniteSet(ks), Cardinality(ks) <= tracker.run, Cardinality(ks) <= HardCalls,
           \A t \in Tasks : want'[t] # NoKey => want'[t] \in ks
    PROVE  Slots'
<1>2. /\ Counted /\ BoundKeys
      /\ IsFiniteSet(tracker.keys) /\ IsFiniteSet(Free) /\ IsFiniteSet(Cached)
      /\ Cardinality(tracker.keys) \in Nat /\ Cardinality(Free) \in Nat
      /\ tracker.run \in Nat /\ MaxCalls \in Nat /\ HardCalls \in Nat
      /\ Cardinality(tracker.keys) <= HardCalls
      /\ Cardinality(tracker.keys) <= tracker.run
      /\ tracker.run + Cardinality(Free) <= MaxCalls
      /\ tracker \in Tracker /\ saved \in SavedTracker
      /\ tracker.keys \subseteq Keys \cup {Slot} /\ Slot \notin Keys
  BY RunningSlots
<1>3. /\ tracker'.keys = ks /\ tracker'.bound = tracker.bound /\ tracker'.run = tracker.run
      /\ tracker'.credit = tracker.credit
  BY <1>2 DEF Tracker
<1>4. saved'.keys = tracker'.keys /\ saved'.bound = tracker'.bound
  BY DEF Saved
<1>5. BoundKeys'
  BY <1>2, <1>3, <1>4 DEF BoundKeys
<1>6. Free' \subseteq Free
  BY <1>2, <1>3 DEF Free, Cached
<1>7. IsFiniteSet(Free') /\ Cardinality(Free') <= Cardinality(Free)
  BY <1>2, <1>6, FS_Subset
<1>8. Cardinality(Free') \in Nat
  BY <1>7, FS_CardinalityType
<1>9. tracker'.run + Cardinality(Free') <= MaxCalls
  BY <1>2, <1>3, <1>7, <1>8
<1> QED BY <1>3, <1>4, <1>5, <1>7, <1>9, CountedStep

\* An answer is bound to its request, and is free no more.
LEMMA AnswerSlots ==
    ASSUME TypeOK, TypeOK', Slots, up = "up", up' = "up", NEW k \in Keys, NEW r \in Response,
           r # 0, k \in tracker.keys, cache' = [cache EXCEPT ![k] = r],
           tracker' = Bind(k, r), saved' = saved, want' = want
    PROVE  Slots'
<1>2. /\ Counted /\ BoundKeys
      /\ IsFiniteSet(tracker.keys) /\ IsFiniteSet(Free) /\ IsFiniteSet(Cached)
      /\ Cardinality(tracker.keys) \in Nat /\ Cardinality(Free) \in Nat
      /\ tracker.run \in Nat /\ MaxCalls \in Nat /\ HardCalls \in Nat
      /\ Cardinality(tracker.keys) <= HardCalls
      /\ Cardinality(tracker.keys) <= tracker.run
      /\ tracker.run + Cardinality(Free) <= MaxCalls
      /\ tracker \in Tracker /\ saved \in SavedTracker
      /\ tracker.keys \subseteq Keys \cup {Slot} /\ Slot \notin Keys
  BY RunningSlots
<1>3. /\ tracker'.keys = tracker.keys
      /\ tracker'.bound = [tracker.bound EXCEPT ![k] = r]
      /\ tracker'.run = tracker.run
      /\ tracker'.credit = tracker.credit
  BY BindIs
<1>4. /\ tracker.bound \in [Keys -> Response] /\ cache \in [Keys -> Response]
  BY <1>2 DEF Tracker, TypeOK
<1>5. BoundKeys'
  BY <1>2, <1>3, <1>4 DEF BoundKeys
<1>6. Free' \subseteq Free
  BY <1>3, <1>4 DEF Free, Cached
<1>7. IsFiniteSet(Free') /\ Cardinality(Free') <= Cardinality(Free)
  BY <1>2, <1>6, FS_Subset
<1>8. Cardinality(Free') \in Nat
  BY <1>7, FS_CardinalityType
<1>9. tracker'.run + Cardinality(Free') <= MaxCalls
  BY <1>2, <1>3, <1>7, <1>8
<1>10. saved'.keys = tracker'.keys /\ \A t \in Tasks : want'[t] # NoKey => want'[t] \in tracker'.keys
  BY <1>2, <1>3 DEF Counted
<1>11. /\ IsFiniteSet(tracker'.keys) /\ Cardinality(tracker'.keys) <= HardCalls
       /\ Cardinality(tracker'.keys) <= tracker'.run
  BY <1>2, <1>3
<1> QED BY <1>5, <1>7, <1>9, <1>10, <1>11, CountedStep

\* An answer is the answer of one request only: as many requests are answered as
\* there are answers.
LEMMA AnswersCount ==
    ASSUME TypeOK, Slots, \A k \in Keys : AnswerOf(k), NEW K \in SUBSET Cached
    PROVE  /\ IsFiniteSet(K) /\ IsFiniteSet({cache[k] : k \in K})
           /\ Cardinality({cache[k] : k \in K}) = Cardinality(K)
<1> DEFINE A == {cache[k] : k \in K}
           f == [k \in K |-> cache[k]]
<1>1. IsFiniteSet(K)
  BY FS_Subset DEF Slots
<1>2. f \in [K -> A] /\ \A y \in A : \E k \in K : f[k] = y
  OBVIOUS
<1>3. \A j, k \in K : f[j] = f[k] => j = k
  BY DEF Cached, AnswerOf
<1>4. f \in Surjection(K, A)
  BY <1>2 DEF Surjection
<1>5. f \in Injection(K, A)
  BY <1>2, <1>3 DEF Injection, IsInjective
<1>6. f \in Bijection(K, A)
  BY <1>4, <1>5 DEF Bijection
<1>7. ExistsBijection(K, A)
  BY <1>6 DEF ExistsBijection
<1> QED BY <1>1, <1>7, FS_Bijection

\* What a restart counts: every registered request with an answer is answered again,
\* and the others with an answer are free.
LEMMA RestartCounts ==
    ASSUME TypeOK, Books, \A k \in Keys : AnswerOf(k), Slots
    PROVE  /\ Cardinality(Bound(Recovered)) = Cardinality(saved.keys \cap Cached)
           /\ \A k \in Keys : Recovered[k] # 0 <=> k \in saved.keys \cap Cached
<1>0. BoundKeys
  BY DEF Slots
<1>1. \A k \in saved.keys \cap Cached : k \in Keys /\ Recovered[k] = cache[k] /\ cache[k] # 0
  BY DEF Recovered, Cached, AnswerOf
<1>2. \A k \in Keys : Recovered[k] # 0 => k \in saved.keys \cap Cached
  BY <1>0 DEF Recovered, Cached, AnswerOf, BoundKeys
<1>3. Bound(Recovered) = {cache[k] : k \in saved.keys \cap Cached}
  BY <1>1, <1>2 DEF Bound
<1>4. saved.keys \cap Cached \in SUBSET Cached
  OBVIOUS
<1>5. Cardinality({cache[k] : k \in saved.keys \cap Cached}) = Cardinality(saved.keys \cap Cached)
  BY <1>4, AnswersCount
<1> QED BY <1>1, <1>2, <1>3, <1>5

\* The allowance of the restarted tracker, in numbers: K requests registered, of
\* them KC with an answer, C answers, N responses booked.
LEMMA Allowance ==
    ASSUME NEW KC \in Nat, NEW CK \in Nat, NEW N \in Nat, NEW C \in Nat,
           C = KC + CK, C <= N, C <= MaxCalls
    PROVE  /\ KC + (IF N >= MaxCalls THEN 0 ELSE MaxCalls - N) \in Nat
           /\ KC + (IF N >= MaxCalls THEN 0 ELSE MaxCalls - N) + CK <= MaxCalls
           /\ N = C => KC + (IF N >= MaxCalls THEN 0 ELSE MaxCalls - N) = KC + MaxCalls - C
BY CallAssumption

LEMMA RestartNumbers ==
    ASSUME TypeOK, Books, \A k \in Keys : AnswerOf(k), Slots
    PROVE  /\ RestartedTracker.run \in Nat
           /\ IsFiniteSet(Cached \ saved.keys)
           /\ RestartedTracker.run + Cardinality(Cached \ saved.keys) <= MaxCalls
           /\ Booked \subseteq Bound(cache) => Cardinality(saved.keys) <= RestartedTracker.run
<1> DEFINE KC == Cardinality(saved.keys \cap Cached)
           CK == Cardinality(Cached \ saved.keys)
           N  == Cardinality(Booked)
           C  == Cardinality(Cached)
<1>1. /\ IsFiniteSet(saved.keys) /\ IsFiniteSet(Cached)
      /\ Cardinality(saved.keys \cup Cached) <= MaxCalls /\ MaxCalls \in Nat
  BY CallAssumption DEF Slots
<1>2. /\ IsFiniteSet(saved.keys \cup Cached) /\ IsFiniteSet(Cached \ saved.keys)
      /\ IsFiniteSet(saved.keys \cap Cached)
      /\ Cardinality(saved.keys) \in Nat /\ C \in Nat /\ KC \in Nat /\ CK \in Nat
      /\ Cardinality(saved.keys \cup Cached) \in Nat
      /\ C = KC + CK
      /\ Cardinality(saved.keys \cup Cached) = Cardinality(saved.keys) + CK
  BY <1>1, UnionCount
<1>3. RestartedTracker.run = KC + Remaining(Booked)
  BY RestartCounts DEF RestartedTracker
<1>4. Booked \in SUBSET (1..MaxSold)
  BY SetOfSeq DEF TypeOK, Booked
<1>5. IsFiniteSet(Booked) /\ N \in Nat
  BY <1>4, SoldFinite
<1>6. Bound(cache) = {cache[k] : k \in Cached}
  BY DEF Bound, Cached
<1>7. /\ IsFiniteSet(Bound(cache)) /\ Cardinality(Bound(cache)) = C
  <2>1. Cached \in SUBSET Cached
    OBVIOUS
  <2>2. /\ IsFiniteSet({cache[k] : k \in Cached})
        /\ Cardinality({cache[k] : k \in Cached}) = Cardinality(Cached)
    BY <2>1, AnswersCount
  <2> QED BY <1>6, <2>2
<1>8. Bound(cache) \subseteq Booked
  BY <1>6 DEF Cached, AnswerOf
<1>9. C <= N
  BY <1>5, <1>7, <1>8, FS_Subset
<1>10. C <= Cardinality(saved.keys \cup Cached)
  BY <1>2, FS_Subset
<1>11. C <= MaxCalls
  BY <1>1, <1>2, <1>10
<1>12. Booked \subseteq Bound(cache) => N = C
  BY <1>7, <1>8
<1> HIDE DEF KC, CK, N, C
<1>13. Remaining(Booked) = IF N >= MaxCalls THEN 0 ELSE MaxCalls - N
  BY DEF Remaining, N
<1>14. /\ KC + (IF N >= MaxCalls THEN 0 ELSE MaxCalls - N) \in Nat
       /\ KC + (IF N >= MaxCalls THEN 0 ELSE MaxCalls - N) + CK <= MaxCalls
       /\ N = C => KC + (IF N >= MaxCalls THEN 0 ELSE MaxCalls - N) = KC + MaxCalls - C
  BY <1>2, <1>5, <1>9, <1>11, Allowance
<1>15. RestartedTracker.run \in Nat /\ RestartedTracker.run + CK <= MaxCalls
  BY <1>3, <1>13, <1>14
<1>16. N = C => RestartedTracker.run = KC + MaxCalls - C
  BY <1>3, <1>13, <1>14
<1>17. N = C => Cardinality(saved.keys) <= RestartedTracker.run
  BY <1>1, <1>2, <1>16
<1> QED BY <1>2, <1>12, <1>15, <1>17 DEF CK

\* A restart registers the saved requests again; a refused one had a response
\* booked that answers no request.
LEMMA RestartSlots ==
    ASSUME TypeOK, TypeOK', Places, Sales, Slots, Restart
    PROVE  /\ Slots'
           /\ up' = "refused" => ~(Booked \subseteq Bound(cache))
<1>0. /\ up = "down" /\ up' = Verdict /\ UNCHANGED <<rows, cache, want>>
      /\ Books /\ \A k \in Keys : AnswerOf(k)
  BY DEF Restart, calls, Sales
<1>1. /\ RestartedTracker.run \in Nat
      /\ IsFiniteSet(Cached \ saved.keys)
      /\ RestartedTracker.run + Cardinality(Cached \ saved.keys) <= MaxCalls
      /\ Booked \subseteq Bound(cache) => Cardinality(saved.keys) <= RestartedTracker.run
  BY <1>0, RestartNumbers
<1>2. /\ IsFiniteSet(saved.keys) /\ Cardinality(saved.keys) <= HardCalls
      /\ HardCalls \in Nat /\ BoundKeys
  BY CallAssumption DEF Slots
<1>3. Cardinality(saved.keys) \in Nat
  BY <1>2, FS_CardinalityType
<1>4. RestartedTracker.keys = saved.keys /\ Calls(RestartedTracker) = Cardinality(saved.keys)
  BY DEF RestartedTracker, Calls
<1>5. CASE Verdict = "up"
  <2>1. /\ tracker' = RestartedTracker /\ saved' = Saved(RestartedTracker)
    BY <1>0, <1>5 DEF Restart, Checkpoint
  <2>2. /\ tracker'.keys = saved.keys /\ tracker'.bound = Recovered
        /\ tracker'.run = RestartedTracker.run /\ tracker'.credit = {}
    BY <2>1 DEF RestartedTracker
  <2>3. saved'.keys = tracker'.keys /\ saved'.bound = tracker'.bound
    BY <2>1 DEF Saved
  <2>4. \A k \in Keys : Recovered[k] # 0 <=> k \in saved.keys \cap Cached
    BY <1>0, RestartCounts
  <2>5. Free' = Cached \ saved.keys
    BY <1>0, <2>2, <2>4 DEF Free, Cached
  <2>6. BoundKeys'
    BY <2>2, <2>3, <2>4 DEF BoundKeys
  <2>7. Cardinality(saved.keys) <= RestartedTracker.run
    BY <1>0, <1>1, <1>2, <1>3, <1>4, <1>5 DEF Verdict, Smallest
  <2>8. \A t \in Tasks : want'[t] = NoKey
    BY <1>0 DEF Places, ProcessPlace, TaskPlace
  <2>9. IsFiniteSet(Free') /\ tracker'.run + Cardinality(Free') <= MaxCalls
    BY <1>1, <2>2, <2>5
  <2>10. /\ IsFiniteSet(tracker'.keys) /\ Cardinality(tracker'.keys) <= HardCalls
         /\ Cardinality(tracker'.keys) <= tracker'.run
    BY <1>2, <2>2, <2>7
  <2>11. Slots'
    BY <1>0, <1>5, <2>3, <2>6, <2>8, <2>9, <2>10, CountedStep
  <2> QED BY <1>0, <1>5, <2>11
<1>6. CASE Verdict # "up"
  <2>1. UNCHANGED <<tracker, saved>>
    BY <1>6 DEF Restart
  <2>2. Cached' = Cached /\ BoundKeys'
    BY <1>0, <1>2, <2>1 DEF Cached, BoundKeys
  <2>3. Slots'
    BY <1>0, <1>6, <2>1, <2>2 DEF Slots
  <2>4. ASSUME Verdict = "refused", Booked \subseteq Bound(cache) PROVE FALSE
    <3>1. Cardinality(saved.keys) <= RestartedTracker.run
      BY <1>1, <2>4
    <3>2. Calls(RestartedTracker) > Smallest(RestartedTracker.run, HardCalls)
      BY <2>4 DEF Verdict
    <3> QED BY <1>1, <1>2, <1>3, <1>4, <3>1, <3>2 DEF Smallest
  <2> QED BY <1>0, <2>3, <2>4
<1> QED BY <1>5, <1>6

LEMMA SlotsNext == FullInv /\ FullInv' /\ Slots /\ [Next]_vars => Slots'
<1> SUFFICES ASSUME FullInv, FullInv', Slots, [Next]_vars PROVE Slots'
  OBVIOUS
<1>0. /\ TypeOK /\ TypeOK' /\ Places /\ Credit /\ Sales /\ Books /\ \A k \in Keys : AnswerOf(k)
      /\ want \in [Tasks -> Keys \cup {NoKey}] /\ tracker \in Tracker /\ saved \in SavedTracker
      /\ NoKey \notin Keys
  BY CallAssumption DEF FullInv, BaseInv, Sales, TypeOK
<1>1. ASSUME NEW t \in Tasks, Step(t) PROVE Slots'
  <2>0. up = "up" /\ up' = "up" /\ Elsewhere(t)
    BY <1>0, <1>1, StepElsewhere
  <2>1. /\ Counted /\ BoundKeys
        /\ IsFiniteSet(tracker.keys) /\ IsFiniteSet(Free) /\ IsFiniteSet(Cached)
        /\ Cardinality(tracker.keys) \in Nat /\ Cardinality(Free) \in Nat
        /\ tracker.run \in Nat /\ MaxCalls \in Nat /\ HardCalls \in Nat
        /\ Cardinality(tracker.keys) <= HardCalls
        /\ Cardinality(tracker.keys) <= tracker.run
        /\ tracker.run + Cardinality(Free) <= MaxCalls
        /\ tracker \in Tracker /\ saved \in SavedTracker
        /\ tracker.keys \subseteq Keys \cup {Slot} /\ Slot \notin Keys
    BY <1>0, <2>0, RunningSlots
  <2>2. saved.keys = tracker.keys /\ \A u \in Tasks : want[u] # NoKey => want[u] \in tracker.keys
    BY <2>1 DEF Counted
  <2>3. CASE \E k \in Keys : RegisterKnown(t, k)
    <3>1. PICK k \in Keys : RegisterKnown(t, k)
      BY <2>3
    <3>2. /\ UNCHANGED <<tracker, saved, cache, up>> /\ want' = [want EXCEPT ![t] = k]
          /\ k \in tracker.keys
      BY <3>1 DEF RegisterKnown, Asks
    <3>3. \A u \in Tasks : want'[u] # NoKey => want'[u] = want[u] \/ want'[u] \in tracker.keys
      BY <1>0, <3>2
    <3> QED BY <3>2, <3>3, SlotsStay
  <2>4. CASE \E k \in Keys : RegisterNew(t, k)
    BY <1>0, <2>4, RegisterSlots
  <2>5. CASE \E k \in Keys : ExchangeSlot(t, k)
    <3>1. PICK k \in Keys : ExchangeSlot(t, k)
      BY <2>5
    <3> DEFINE ks == (tracker.keys \ {Slot}) \cup {k}
    <3>2. /\ Slot \in tracker.keys /\ cache' = cache /\ want' = [want EXCEPT ![t] = k]
          /\ tracker' = [tracker EXCEPT !.keys = ks] /\ saved' = Saved(tracker')
      BY <3>1 DEF ExchangeSlot, Asks, Checkpoint
    <3>3. /\ IsFiniteSet(tracker.keys \ {Slot})
          /\ Cardinality(tracker.keys \ {Slot}) = IF Slot \in tracker.keys THEN Cardinality(tracker.keys) - 1
                                                  ELSE Cardinality(tracker.keys)
      BY <2>1, FS_RemoveElement
    <3>4. /\ IsFiniteSet(ks)
          /\ Cardinality(ks) = IF k \in tracker.keys \ {Slot} THEN Cardinality(tracker.keys \ {Slot})
                               ELSE Cardinality(tracker.keys \ {Slot}) + 1
      BY <3>3, FS_AddElement
    <3>5. Cardinality(ks) <= Cardinality(tracker.keys) /\ Cardinality(ks) \in Nat
      BY <2>1, <3>2, <3>3, <3>4, FS_CardinalityType
    <3>6. \A u \in Tasks : want'[u] # NoKey => want'[u] \in ks
      BY <1>0, <2>1, <2>2, <3>2 DEF TypeOK
    <3>7. tracker.keys \ {Slot} \subseteq ks /\ IsFiniteSet(ks)
      BY <3>4
    <3>8. Cardinality(ks) <= tracker.run /\ Cardinality(ks) <= HardCalls
      BY <2>1, <3>5
    <3> HIDE DEF ks
    <3> QED BY <1>0, <2>0, <3>2, <3>6, <3>7, <3>8, KeysStep
  <2>6. CASE ReleaseRequest(t)
    BY <1>0, <2>6, ReleaseSlots
  <2>7. CASE ReplayCached(t)
    <3>1. /\ pc[t] = "queued" /\ cache[want[t]] # 0 /\ cache' = cache /\ saved' = saved /\ want' = want
          /\ tracker' = Bind(want[t], cache[want[t]])
      BY <2>7 DEF ReplayCached, Enters
    <3>2. want[t] \in Keys /\ cache \in [Keys -> Response] /\ want[t] \in tracker.keys
      BY <1>0, <2>2, <3>1 DEF Places, TaskPlace, TypeOK
    <3>3. cache' = [cache EXCEPT ![want[t]] = cache[want[t]]] /\ cache[want[t]] \in Response
      BY <3>1, <3>2
    <3> QED BY <1>0, <2>0, <3>1, <3>2, <3>3, AnswerSlots
  <2>8. CASE FinishCall(t)
    <3>1. /\ pc[t] = "answered" /\ saved' = saved /\ want' = want
          /\ cache' = [cache EXCEPT ![want[t]] = Persisted(t)]
          /\ tracker' = Bind(want[t], Persisted(t))
      BY <2>8 DEF FinishCall, Settles
    <3>2. want[t] \in Keys /\ want[t] \in tracker.keys
      BY <1>0, <2>2, <3>1 DEF Places, TaskPlace
    <3>3. Persisted(t) \in Booked
      BY <1>0, <2>0, <2>8, FinishStep
    <3>4. Persisted(t) \in 1..MaxSold
      BY <1>0, <3>3, SetOfSeq DEF TypeOK, Booked
    <3>5. Persisted(t) \in Response /\ Persisted(t) # 0
      BY <3>4, ResponseType
    <3> QED BY <1>0, <2>0, <3>1, <3>2, <3>5, AnswerSlots
  <2>9. CASE Collect(t)
    <3>1. UNCHANGED <<tracker, cache, up>> /\ saved' = Saved(tracker) /\ want' = [want EXCEPT ![t] = NoKey]
      BY <2>9 DEF Collect
    <3>2. saved'.keys = saved.keys /\ saved'.bound = tracker.bound
      BY <2>2, <3>1 DEF Saved
    <3>3. \A u \in Tasks : want'[u] # NoKey => want'[u] = want[u] \/ want'[u] \in tracker.keys
      BY <1>0, <3>1
    <3> QED BY <2>0, <3>1, <3>2, <3>3, SlotsStay
  <2>10. ASSUME UNCHANGED <<tracker, saved, cache>>, want' \in {want, [want EXCEPT ![t] = NoKey]}
         PROVE  Slots'
    <3>1. \A u \in Tasks : want'[u] # NoKey => want'[u] = want[u] \/ want'[u] \in tracker.keys
      BY <1>0, <2>10
    <3> QED BY <2>0, <2>10, <3>1, SlotsStay
  <2>11. CASE Launch(t) \/ Refuse(t) \/ StartCall(t)
    BY <2>10, <2>11 DEF Launch, Refuse, StartCall, GivesUp, durable
  <2>12. CASE AttemptSucceeds(t) \/ AttemptInvalid(t) \/ AttemptBreaks(t)
    BY <2>10, <2>12 DEF AttemptSucceeds, AttemptInvalid, AttemptBreaks, AttemptStep, durable
  <2>13. CASE Cancel(t) \/ TimeOut(t)
    BY <2>10, <2>13 DEF Cancel, TimeOut, Abandon, GivesUp, durable
  <2>14. CASE BookAttempt(t) \/ FinishFailure(t) \/ BookFault(t) \/ CacheFault(t)
    BY <2>10, <2>14 DEF BookAttempt, FinishFailure, BookFault, CacheFault, Raise, GivesUp, durable
  <2> QED
    BY <1>1, <2>3, <2>4, <2>5, <2>6, <2>7, <2>8, <2>9, <2>11, <2>12, <2>13, <2>14 DEF Step
<1>2. ASSUME NEW ks, up = "up", up' = "up", cache' = cache, want' = want, tracker.keys \ {Slot} \subseteq ks,
             tracker' = [tracker EXCEPT !.keys = ks], saved' = Saved(tracker'),
             IsFiniteSet(ks), Cardinality(ks) <= tracker.run, Cardinality(ks) <= HardCalls
      PROVE  Slots'
  <2>1. Counted /\ Slot \notin Keys
    BY <1>2, CallAssumption DEF Slots
  <2>2. \A t \in Tasks : want'[t] # NoKey => want'[t] \in ks
    BY <1>0, <1>2, <2>1 DEF Counted
  <2> QED BY <1>0, <1>2, <2>2, KeysStep
<1>3. CASE ReserveSlot
  <2> DEFINE ks == tracker.keys \cup {Slot}
  <2>1. /\ up = "up" /\ up' = "up" /\ cache' = cache /\ want' = want /\ CanCall(tracker)
        /\ tracker' = [tracker EXCEPT !.keys = ks] /\ saved' = Saved(tracker') /\ Slot \notin tracker.keys
    BY <1>3 DEF ReserveSlot, Running, Checkpoint, calls
  <2>2. IsFiniteSet(tracker.keys)
    BY <2>1 DEF Slots, Counted
  <2>3. /\ IsFiniteSet(ks)
        /\ Cardinality(ks) = IF Slot \in tracker.keys THEN Cardinality(tracker.keys) ELSE Cardinality(tracker.keys) + 1
    BY <2>2, FS_AddElement
  <2>4. Cardinality(ks) <= tracker.run /\ Cardinality(ks) <= HardCalls
    BY <2>1, <2>3 DEF CanCall, HardAllows, Calls
  <2>5. tracker.keys \ {Slot} \subseteq ks
    OBVIOUS
  <2> HIDE DEF ks
  <2> QED BY <1>2, <2>1, <2>3, <2>4, <2>5
<1>4. CASE ReleaseSlot
  <2> DEFINE ks == tracker.keys \ {Slot}
  <2>1. /\ up = "up" /\ up' = "up" /\ cache' = cache /\ want' = want
        /\ tracker' = [tracker EXCEPT !.keys = ks] /\ saved' = Saved(tracker')
    BY <1>4 DEF ReleaseSlot, Running, Checkpoint, calls
  <2>2. /\ IsFiniteSet(tracker.keys) /\ Cardinality(tracker.keys) <= tracker.run
        /\ Cardinality(tracker.keys) <= HardCalls
    BY <2>1 DEF Slots, Counted
  <2>3. IsFiniteSet(ks) /\ Cardinality(ks) <= Cardinality(tracker.keys)
    BY <2>2, FS_Subset
  <2>4. Cardinality(ks) \in Nat /\ Cardinality(tracker.keys) \in Nat /\ tracker.run \in Nat /\ HardCalls \in Nat
    BY <1>0, <2>2, <2>3, FS_CardinalityType, CallAssumption DEF Tracker
  <2>5. Cardinality(ks) <= tracker.run /\ Cardinality(ks) <= HardCalls
    BY <2>2, <2>3, <2>4
  <2>6. tracker.keys \ {Slot} \subseteq ks
    OBVIOUS
  <2> HIDE DEF ks
  <2> QED BY <1>2, <2>1, <2>3, <2>5, <2>6
<1>5. CASE Expire \/ UNCHANGED vars
  BY <1>5, SlotsStay DEF Expire, vars, durable, calls
<1>6. CASE Crash
  <2>1. /\ saved' = saved /\ cache' = cache /\ up' = "down" /\ tracker' = EmptyTracker(0)
    BY <1>6 DEF Crash, durable
  <2>2. \A k \in Keys : tracker'.bound[k] = 0
    BY <2>1 DEF EmptyTracker, NoAnswers
  <2>3. Cached' = Cached /\ BoundKeys'
    BY <2>1, <2>2 DEF Slots, BoundKeys, Cached
  <2> QED BY <2>1, <2>3 DEF Slots
<1>7. CASE Archive
  <2>1. /\ cache' = cache /\ up = "down" /\ up' = "down" /\ tracker' = tracker
        /\ saved'.keys = {} /\ \A k \in Keys : saved'.bound[k] = 0
    BY <1>7 DEF Archive, NoAnswers
  <2>2. Cached' = Cached /\ BoundKeys'
    BY <2>1 DEF Slots, BoundKeys, Cached
  <2>3. /\ IsFiniteSet(saved.keys) /\ IsFiniteSet(Cached)
        /\ Cardinality(saved.keys \cup Cached) <= MaxCalls /\ MaxCalls \in Nat /\ HardCalls \in Nat
    BY CallAssumption DEF Slots
  <2>4. IsFiniteSet(saved.keys \cup Cached)
    BY <2>3, UnionCount
  <2>5. Cardinality(Cached) <= Cardinality(saved.keys \cup Cached)
    BY <2>4, FS_Subset
  <2>6. Cardinality(Cached) \in Nat /\ Cardinality(saved.keys \cup Cached) \in Nat
    BY <2>3, <2>4, FS_CardinalityType
  <2>7. saved'.keys \cup Cached' = Cached /\ Cardinality(Cached) <= MaxCalls
    BY <2>1, <2>2, <2>3, <2>5, <2>6
  <2>8. IsFiniteSet({}) /\ Cardinality({}) = 0
    BY FS_EmptySet
  <2> QED BY <2>1, <2>2, <2>3, <2>7, <2>8 DEF Slots
<1>8. CASE Restart
  BY <1>0, <1>8, RestartSlots
<1> QED BY <1>1, <1>3, <1>4, <1>5, <1>6, <1>7, <1>8 DEF Next

\* A restart is refused by the tracker's constructor only when some booked response
\* answers no request.
Explained == up = "refused" => ~(Booked \subseteq Bound(cache))

LEMMA ExplainedNext == FullInv /\ FullInv' /\ Slots /\ Explained /\ [Next]_vars => Explained'
<1> SUFFICES ASSUME FullInv, FullInv', Slots, Explained, [Next]_vars, up' = "refused"
             PROVE  ~(Booked' \subseteq Bound(cache'))
  BY DEF Explained, Bound
<1>1. CASE \E t \in Tasks : Step(t)
  BY <1>1, StepElsewhere DEF FullInv, BaseInv
<1>2. CASE ReserveSlot \/ ReleaseSlot \/ Expire \/ Crash \/ Archive
  BY <1>2 DEF ReserveSlot, ReleaseSlot, Running, Expire, Crash, Archive
<1>3. CASE Restart
  <2>1. rows' = rows /\ cache' = cache
    BY <1>3 DEF Restart
  <2>2. ~(Booked \subseteq Bound(cache))
    BY <1>3, RestartSlots DEF FullInv, BaseInv
  <2> QED BY <2>1, <2>2 DEF Booked
<1>4. CASE UNCHANGED vars
  <2>1. rows' = rows /\ cache' = cache /\ up = "refused"
    BY <1>4 DEF vars, durable
  <2> QED BY <2>1 DEF Explained, Booked
<1> QED BY <1>1, <1>2, <1>3, <1>4 DEF Next

\* A resume meets no binding the accounting does not know, and the tracker's
\* constructor refuses the run only when some paid response answers no request
\* (research.py 2872-2927).
THEOREM RestartsExplained == Spec => []RestartExplained
<1>1. Init => Explained
  BY DEF Init, Explained
<1>2. up # "mismatch" /\ Explained => RestartExplained
  BY DEF Explained, RestartExplained
<1> QED BY <1>1, <1>2, BindingsKnown, FullSafe, SlotsInit, SlotsNext, ExplainedNext, PTL DEF Spec

===========================================================================
