-------------------------- MODULE OrderDispatchCalls --------------------------
(***************************************************************************)
(* Theorems about whom the search of OrderDispatch calls, how often, and   *)
(* the follow-up calls an accepted order leaves queued.                    *)
(***************************************************************************)
EXTENDS OrderDispatchSearch

(***************************************************************************)
(* The cursor passes a worker only if she is called, or was before.  An    *)
(* old snapshot may put an old cursor back, so this is said of every copy  *)
(* of the order that may still be saved.                                   *)
(***************************************************************************)
Rung(w) ==
  CalledBefore(w) \/ \E h \in Slots : handlers[h].at = "place" /\ handlers[h].worker = w

Passed(o) == \A k \in DOMAIN o.potential : k <= o.cursor => Rung(o.potential[k])

Copies(s) == HasSnap(s) \/ s.at = "search_save"

PassedInv == Passed(order) /\ \A h \in Slots : Copies(handlers[h]) => Passed(handlers[h].snap)

LEMMA RungKept ==
  ASSUME TypeOK, RowsExist, CallsKept, "ivr" \notin Faults,
         NEW h \in Slots, NEW s, StepOf(h, s), NEW w, Rung(w)
  PROVE  Rung(w)'
<1>1. /\ handlers'[h] = s /\ \A k \in Slots \ {h} : handlers'[k] = handlers[k]
  BY Moved
<1>2. CASE CalledBefore(w)
  BY <1>2 DEF CalledBefore, CallsKept, Rung
<1>3. CASE ~CalledBefore(w)
  <2>1. PICK k \in Slots : handlers[k].at = "place" /\ handlers[k].worker = w
    BY <1>3 DEF Rung
  <2>2. CASE k # h
    BY <1>1, <2>1, <2>2 DEF Rung
  <2>3. CASE k = h
    <3>1. CallWasPlaced(h, s)
      BY <2>1, <2>3 DEF StepOf, StatusLoaded, StatusInserted, StatusSaved, StatusLost,
        CallCancelled, SearchTaken, WillingFound, SearchSaved, CallTaken, NextLoaded, NextChosen,
        NextSaved, DiscardChecked, VerdictGiven, Assigned, UpdateTaken, TaskCreated, TaskSaved,
        AcceptanceRecorded, FollowedUp, CancelAsked, TasksWereCancelled, AcceptPressed, Goes
    <3>2. PICK d : d = [worker |-> w, line |-> "ringing"]
      OBVIOUS
    <3>3. calls' = Append(calls, d) /\ d.worker = w
      BY <2>1, <2>3, <3>1, <3>2 DEF CallWasPlaced
    <3>4. Len(calls) + 1 \in DOMAIN calls' /\ calls'[Len(calls) + 1] = d
      BY <3>3 DEF TypeOK
    <3>5. QED
      BY <3>3, <3>4 DEF Rung, CalledBefore
  <2>4. QED
    BY <2>2, <2>3
<1>4. QED
  BY <1>2, <1>3

LEMMA PassedKept ==
  ASSUME \A w : Rung(w) => Rung(w)', NEW o, Passed(o), NEW p,
         p.potential = o.potential, p.cursor = o.cursor
  PROVE  Passed(p)'
  BY DEF Passed

LEMMA SmallRemainder ==
  ASSUME NEW n \in Nat, NEW i \in Nat, i < n
  PROVE  i % n = i
  OBVIOUS

\* searchCursor++ passes the worker who is about to be called, or who was called.
LEMMA NextPassed ==
  ASSUME TypeOK, RowsExist, ShapeInv, \A w : Rung(w) => Rung(w)',
         NEW h \in Slots, NEW s, StepOf(h, s), NextSaved(h, s), CanSave(handlers[h].snap),
         Passed(handlers[h].snap)
  PROVE  Passed(order)'
<1>1. /\ handlers'[h] = s /\ handlers[h].snap \in OrderRow /\ HandlerShape(handlers[h])
  BY Moved, HandlerNow DEF ShapeInv
<1>2. PICK o, q, c, n, w : /\ o = handlers[h].snap /\ q = o.potential /\ c = o.cursor
                           /\ n = Len(q) /\ w = handlers[h].worker
  OBVIOUS
<1>3. /\ q \in Seq(Workers) /\ c \in Nat /\ n \in Nat /\ DOMAIN q = 1..n
      /\ w = q[(c % n) + 1] /\ handlers[h].at \in {"next_skip", "next_take"}
  BY <1>1, <1>2 DEF NextSaved, Goes, HandlerShape, Holding, OrderRow
<1>4. order'.potential = q /\ order'.cursor = c + 1
  BY <1>1, <1>2 DEF NextSaved, OrderRow
<1>5. Rung(w)'
  <2>1. CASE handlers[h].at = "next_skip"
    <3>1. Rung(w)
      BY <1>1, <1>2, <2>1 DEF HandlerShape, Rung
    <3>2. QED
      BY <3>1
  <2>2. CASE handlers[h].at = "next_take"
    <3>1. s.at = "place" /\ s.worker = w
      BY <1>2, <2>2 DEF NextSaved, Goes
    <3>2. QED
      BY <1>1, <3>1 DEF Rung
  <2>3. QED
    BY <1>3, <2>1, <2>2
<1>6. ASSUME NEW k \in 1..n, k <= c + 1 PROVE Rung(q[k])'
  <2>1. CASE k <= c
    <3>1. Rung(q[k])
      BY <1>2, <1>3, <1>6, <2>1 DEF Passed
    <3>2. QED
      BY <3>1
  <2>2. CASE k = c + 1
    <3>1. c < n
      BY <1>3, <1>6, <2>2
    <3>2. c % n = c
      BY <1>3, <3>1, SmallRemainder
    <3>3. q[k] = w
      BY <1>3, <2>2, <3>2
    <3>4. QED
      BY <1>5, <3>3
  <2>3. QED
    BY <1>3, <1>6, <2>1, <2>2
<1>7. QED
  BY <1>3, <1>4, <1>6 DEF Passed

LEMMA StepPassed ==
  ASSUME TypeOK, RowsExist, EarlyInv, ShapeInv, PassedInv, \A w : Rung(w) => Rung(w)',
         NEW h \in Slots, NEW s, StepOf(h, s)
  PROVE  PassedInv'
<1>1. /\ handlers'[h] = s /\ \A k \in Slots \ {h} : handlers'[k] = handlers[k]
      /\ handlers[h] \in Handler /\ handlers[h].snap \in OrderRow /\ order \in OrderRow
      /\ HandlerShape(handlers[h])
  BY Moved, HandlerNow DEF ShapeInv, TypeOK
<1>2. Copies(handlers[h]) => Passed(handlers[h].snap)
  BY DEF PassedInv
<1>3. Passed(order)'
  <2>1. CASE StatusInserted(h, s)
    <3>1. order'.potential = order.potential /\ order'.cursor = order.cursor
      BY <1>1, <2>1 DEF StatusInserted, OrderRow
    <3>2. QED
      BY <3>1, PassedKept DEF PassedInv, Passed
  <2>2. CASE StatusSaved(h, s)
    <3>1. order' = handlers[h].snap /\ Copies(handlers[h])
      BY <2>2 DEF StatusSaved, Save, Goes, Copies, HasSnap
    <3>2. QED
      BY <1>2, <3>1 DEF Passed
  <2>3. CASE SearchSaved(h, s) /\ CanSave(handlers[h].snap)
    <3>1. /\ order'.potential = handlers[h].snap.potential
          /\ order'.cursor = handlers[h].snap.cursor /\ Copies(handlers[h])
      BY <1>1, <2>3 DEF SearchSaved, Goes, Copies, OrderRow
    <3>2. QED
      BY <1>2, <3>1 DEF Passed
  <2>4. CASE NextSaved(h, s) /\ CanSave(handlers[h].snap)
    <3>1. Copies(handlers[h])
      BY <2>4 DEF NextSaved, Goes, Copies, HasSnap, Holding
    <3>2. QED
      BY <1>2, <2>4, <3>1, NextPassed
  <2>5. CASE order'.potential = order.potential /\ order'.cursor = order.cursor
    BY <2>5 DEF PassedInv, Passed
  <2>6. QED
    BY <2>1, <2>2, <2>3, <2>4, <2>5, OrderFrames
<1>4. ASSUME Copies(s) PROVE Passed(s.snap)'
  <2>1. CASE s.snap = order
    BY <2>1 DEF PassedInv, Passed
  <2>2. CASE /\ s.snap.potential = handlers[h].snap.potential
             /\ s.snap.cursor = handlers[h].snap.cursor /\ Copies(handlers[h])
    BY <1>2, <2>2 DEF Passed
  <2>3. CASE StatusInserted(h, s)
    <3>1. /\ s.snap.potential = handlers[h].snap.potential
          /\ s.snap.cursor = handlers[h].snap.cursor /\ Copies(handlers[h])
      BY <1>1, <2>3 DEF StatusInserted, Goes, Copies, HasSnap, OrderRow
    <3>2. QED
      BY <2>2, <3>1
  <2>4. CASE NextChosen(h, s)
    BY <2>2, <2>4 DEF NextChosen, Goes, Copies, HasSnap, Holding
  <2>5. CASE WillingFound(h, s)
    <3>1. order.cursor = 0
      BY <2>5 DEF WillingFound, Goes, EarlyInv, Early, Seeking, Beginning
    <3>2. PICK willing \in WorkerLists : s.snap = [order EXCEPT !.potential = willing]
      BY <1>4, <2>5 DEF WillingFound, Goes, Copies, HasSnap, Holding
    <3>3. s.snap.cursor = 0 /\ s.snap.potential = willing
      BY <1>1, <3>1, <3>2 DEF OrderRow
    <3>4. willing \in Seq(Workers)
      BY DEF WorkerLists
    <3>5. \A k \in DOMAIN willing : ~(k <= 0)
      BY <3>4
    <3>6. QED
      BY <3>3, <3>5 DEF Passed
  <2>6. CASE StatusLoaded(h, s) \/ UpdateTaken(h, s) \/ NextLoaded(h, s)
    BY <1>4, <2>1, <2>6 DEF StatusLoaded, UpdateTaken, NextLoaded, Goes, Copies, HasSnap, Holding
  <2>7. CASE s = handlers[h]
    BY <1>4, <2>2, <2>7
  <2>8. QED
    BY <1>4, <2>3, <2>4, <2>5, <2>6, <2>7
    DEF StepOf, StatusSaved, StatusLost, CallCancelled, SearchTaken, SearchSaved, CallTaken,
        NextSaved, CallWasPlaced, DiscardChecked, VerdictGiven, Assigned, TaskCreated, TaskSaved,
        AcceptanceRecorded, FollowedUp, CancelAsked, TasksWereCancelled, AcceptPressed, Goes,
        Copies, HasSnap, Holding, AfterStatus
<1>5. ASSUME NEW k \in Slots, Copies(handlers'[k]), NEW o, o = handlers'[k].snap
      PROVE  Passed(o)'
  <2>1. CASE k = h
    <3>1. Copies(s) /\ o = s.snap
      BY <1>1, <1>5, <2>1
    <3>2. QED
      BY <1>4, <3>1 DEF Passed
  <2>2. CASE k # h
    <3>1. Passed(o)
      BY <1>1, <1>5, <2>2 DEF PassedInv
    <3>2. QED
      BY <3>1, PassedKept
  <2>3. QED
    BY <2>1, <2>2
<1>6. \A k \in Slots : Copies(handlers[k])' <=> Copies(handlers'[k])
  BY DEF Copies, HasSnap, Holding
<1>7. QED
  BY <1>3, <1>5, <1>6 DEF PassedInv, Passed

(***************************************************************************)
(* A search that fails after it has begun to call has passed everybody.    *)
(***************************************************************************)
Failing ==
  FailedRow \/ \E h \in Slots : AtStatus(handlers[h]) /\ handlers[h].status = "failed"

RungAll ==
  cancels = 0 /\ Begun /\ Failing =>
     \A k \in DOMAIN order.potential : Rung(order.potential[k])

\* What begins the failure of an order.
LEMMA FailingStep ==
  ASSUME TypeOK, RowsExist, ShapeInv, NEW h \in Slots, NEW s, StepOf(h, s), Failing'
  PROVE  \/ Failing
         \/ WillingFound(h, s) /\ s.at = "status_load"
         \/ NextLoaded(h, s) /\ Exhausted(order)
<1>1. /\ handlers'[h] = s /\ \A k \in Slots \ {h} : handlers'[k] = handlers[k]
  BY Moved
<1>2. CASE FailedRow'
  <2>1. CASE UNCHANGED statusLog
    BY <1>2, <2>1 DEF FailedRow, Failing
  <2>2. CASE StatusInserted(h, s)
    <3>1. PICK st : st = handlers[h].status
      OBVIOUS
    <3>2. statusLog' = Append(statusLog, st) /\ AtStatus(handlers[h])
      BY <2>2, <3>1 DEF StatusInserted, Goes, AtStatus
    <3>3. FailedRow \/ st = "failed"
      BY <1>2, <3>2 DEF FailedRow, TypeOK
    <3>4. QED
      BY <3>1, <3>2, <3>3 DEF Failing
  <2>3. QED
    BY <2>1, <2>2, Frames
<1>3. ASSUME NEW k \in Slots, AtStatus(handlers'[k]), handlers'[k].status = "failed"
      PROVE  \/ Failing
             \/ WillingFound(h, s) /\ s.at = "status_load"
             \/ NextLoaded(h, s) /\ Exhausted(order)
  <2>1. CASE k # h \/ s = handlers[h]
    BY <1>1, <1>3, <2>1 DEF Failing
  <2>2. CASE k = h /\ s # handlers[h]
    <3>1. AtStatus(s) /\ s.status = "failed"
      BY <1>1, <1>3, <2>2
    <3>2. CASE StatusLoaded(h, s) \/ StatusInserted(h, s)
      BY <3>1, <3>2 DEF StatusLoaded, StatusInserted, Goes, AtStatus, Failing
    <3>3. CASE NextLoaded(h, s) \/ WillingFound(h, s)
      BY <3>1, <3>3 DEF NextLoaded, WillingFound, Goes, AtStatus
    <3>4. QED
      BY <2>2, <3>1, <3>2, <3>3
      DEF StepOf, CallCancelled, StatusSaved, StatusLost, SearchTaken, SearchSaved, CallTaken,
          NextChosen, NextSaved, CallWasPlaced, DiscardChecked, VerdictGiven, Assigned,
          UpdateTaken, TaskCreated, TaskSaved, AcceptanceRecorded, FollowedUp, CancelAsked,
          TasksWereCancelled, AcceptPressed, Goes, AtStatus, AfterStatus
  <2>3. QED
    BY <2>1, <2>2
<1>4. \A k \in Slots : AtStatus(handlers[k])' <=> AtStatus(handlers'[k])
  BY DEF AtStatus
<1>5. QED
  BY <1>2, <1>3, <1>4 DEF Failing

LEMMA EarlyNotFailing ==
  ASSUME EarlyInv, Early
  PROVE  ~Failing
  BY DEF EarlyInv, Beginning, EarlyHandler, Failing, FailedRow, AtStatus

\* The workers found stay with an order that nobody cancels.
LEMMA PotentialStays ==
  ASSUME TypeOK, RowsExist, Settled, cancels = 0, Begun,
         NEW h \in Slots, NEW s, StepOf(h, s), ~SearchSaved(h, s)
  PROVE  order'.potential = order.potential
<1>1. handlers[h].snap \in OrderRow /\ order \in OrderRow
  BY HandlerNow DEF TypeOK
<1>2. HasSnap(handlers[h]) => handlers[h].snap.potential = order.potential
  BY DEF Settled
<1>3. CASE StatusInserted(h, s)
  BY <1>1, <1>3 DEF StatusInserted, OrderRow
<1>4. CASE StatusSaved(h, s)
  BY <1>2, <1>4 DEF StatusSaved, Save, Goes, HasSnap
<1>5. CASE NextSaved(h, s) /\ CanSave(handlers[h].snap)
  <2>1. HasSnap(handlers[h]) /\ order' = [handlers[h].snap EXCEPT !.cursor = @ + 1]
    BY <1>5 DEF NextSaved, Goes, HasSnap, Holding
  <2>2. QED
    BY <1>1, <1>2, <2>1 DEF OrderRow
<1>6. QED
  BY <1>3, <1>4, <1>5, OrderFrames

LEMMA StepRungAll ==
  ASSUME TypeOK, RowsExist, EarlyInv, ShapeInv, Settled, PassedInv, RungAll,
         MaxRetry # 0, \A w : Rung(w) => Rung(w)',
         NEW h \in Slots, NEW s, StepOf(h, s)
  PROVE  RungAll'
<1>1. SUFFICES ASSUME cancels' = 0, Begun', Failing'
               PROVE  \A k \in DOMAIN order'.potential : Rung(order.potential[k])'
  BY DEF RungAll
<1>2. cancels = 0
  BY <1>1, CancelStep
<1>3. ~SearchSaved(h, s)
  <2>1. SearchSaved(h, s) => Early
    BY DEF SearchSaved, Goes, Early, Seeking
  <2>2. SearchSaved(h, s) => ~WillingFound(h, s) /\ ~NextLoaded(h, s)
    BY DEF SearchSaved, WillingFound, NextLoaded, Goes
  <2>3. QED
    BY <1>1, <2>1, <2>2, FailingStep, EarlyNotFailing
<1>4. Begun
  BY <1>1, <1>3, BegunStep
<1>5. order'.potential = order.potential
  BY <1>2, <1>3, <1>4, PotentialStays
<1>6. ~WillingFound(h, s)
  <2>1. WillingFound(h, s) => Early
    BY DEF WillingFound, Goes, Early, Seeking
  <2>2. QED
    BY <1>4, <2>1, EarlyNotBegun
<1>7. \A k \in DOMAIN order.potential : Rung(order.potential[k])
  <2>1. CASE Failing
    BY <1>2, <1>4, <2>1 DEF RungAll
  <2>2. CASE Exhausted(order)
    <3>1. PICK q, n, c : q = order.potential /\ n = Len(q) /\ c = order.cursor
      OBVIOUS
    <3>2. n \in Nat /\ c \in Nat /\ DOMAIN q = 1..n /\ c > MaxRetry * n
      BY <2>2, <3>1 DEF Exhausted, TypeOK, OrderRow
    <3>3. MaxRetry \in Nat /\ 1 <= MaxRetry
      BY RetryAssumption
    <3>4. n * 1 <= n * MaxRetry /\ n * MaxRetry = MaxRetry * n /\ n * 1 = n
      BY <3>2, <3>3, TimesMonotonic
    <3>5. MaxRetry * n \in Nat
      BY <3>2, <3>3, TimesNatural
    <3>6. n <= c
      BY <3>2, <3>4, <3>5
    <3>7. QED
      BY <3>1, <3>2, <3>6 DEF PassedInv, Passed
  <2>3. QED
    BY <1>1, <1>6, <2>1, <2>2, FailingStep
<1>8. ASSUME NEW k \in DOMAIN order'.potential, NEW w, w = order'.potential[k] PROVE Rung(w)'
  <2>1. Rung(w)
    BY <1>5, <1>7, <1>8
  <2>2. QED
    BY <2>1
<1>9. QED
  BY <1>8 DEF Rung, CalledBefore

LEMMA NextRungAll ==
  ASSUME TypeOK, RowsExist, SearchInv, EndInv, PassedInv, RungAll, MaxRetry # 0,
         "ivr" \notin Faults, [Next]_vars, UNCHANGED ends
  PROVE  (PassedInv /\ RungAll)'
<1>1. CallsKept
  BY HistoryKept
<1>2. ASSUME NEW h \in Slots, NEW s, StepOf(h, s) PROVE (PassedInv /\ RungAll)'
  <2>1. \A w : Rung(w) => Rung(w)'
    BY <1>1, <1>2, RungKept
  <2>2. QED
    BY <1>2, <2>1, StepPassed, StepRungAll DEF SearchInv, EndInv
<1>3. ASSUME UNCHANGED <<statusLog, order, rest, handlers>>, Begun' => Begun
      PROVE  (PassedInv /\ RungAll)'
  <2>1. \A w : Rung(w) => Rung(w)'
    BY <1>1, <1>3 DEF Rung, CalledBefore, CallsKept
  <2>2. PassedInv'
    BY <1>3, <2>1 DEF PassedInv, Passed, Copies, HasSnap, Holding
  <2>3. Failing' => Failing
    BY <1>3 DEF Failing, FailedRow, AtStatus
  <2>4. RungAll'
    BY <1>3, <2>1, <2>3 DEF RungAll, rest
  <2>5. QED
    BY <2>2, <2>4
<1>4. ASSUME NEW c \in DOMAIN calls, ReceiveCall(c) \/ RejectOrder(c)
      PROVE  (PassedInv /\ RungAll)'
  BY <1>3, <1>4 DEF ReceiveCall, RejectOrder, Begun
<1>5. CASE UNCHANGED vars
  BY <1>3, <1>5 DEF vars, db, Begun, Calling
<1>6. QED
  BY <1>2, <1>4, <1>5, Steps

LEMMA InitRungAll ==
  ASSUME Init
  PROVE  PassedInv /\ RungAll
<1>1. /\ handlers = [h \in Slots |-> Idle] /\ statusLog = <<"placed">>
      /\ order.cursor = 0 /\ \A k \in DOMAIN order.potential : k \in Nat \ {0}
  <2>1. PICK free \in WorkerLists :
          order = [NoOrder EXCEPT !.statuses = {1}, !.potential = free]
    BY DEF Init
  <2>2. order.cursor = 0 /\ order.potential = free
    BY <2>1 DEF NoOrder
  <2>3. free \in Seq(Workers)
    BY DEF WorkerLists
  <2>4. \A k \in DOMAIN free : k \in Nat \ {0}
    BY <2>3
  <2>5. QED
    BY <2>2, <2>4 DEF Init
<1>2. \A h \in Slots : handlers[h].at = "idle"
  BY <1>1, IdleFields
<1>3. PassedInv
  BY <1>1, <1>2 DEF PassedInv, Passed, Copies, HasSnap, Holding
<1>4. ~Failing
  BY <1>1, <1>2 DEF Failing, FailedRow, AtStatus
<1>5. QED
  BY <1>3, <1>4 DEF RungAll

RungUntilEnd == ends = 0 => SearchInv /\ EndInv /\ PassedInv /\ RungAll

\* While the gateway answers and workers get at least one retry, an order nobody
\* cancels is, until the process ends, recorded as failed only before any call, or when
\* every worker the search found has been called or is about to be: no stale save of
\* the cursor skips one.
THEOREM FailedTheorem ==
  ASSUME "ivr" \notin Faults, MaxRetry # 0
  PROVE  Spec => []FailedAfterRingingAll
<1>1. Init => AcceptInv /\ RungUntilEnd
  BY InitAccounted, InitSearch, InitEnd, InitRungAll DEF RungUntilEnd
<1>2. TypeOK /\ RowsExist /\ AcceptInv /\ RungUntilEnd /\ [Next]_vars => (AcceptInv /\ RungUntilEnd)'
  BY NotEndedYet, NextAccounted, NextSearch, NextEnd, NextRungAll DEF RungUntilEnd
<1>3. TypeOK /\ RungUntilEnd => FailedAfterRingingAll
  <2> SUFFICES ASSUME TypeOK, RungAll, cancels = 0, FailedRow, calls # << >>,
                      NEW k \in DOMAIN order.potential
               PROVE  \/ ProposalsTo(order.potential[k]) > 0
                      \/ \E h \in Slots : handlers[h].worker = order.potential[k]
    BY DEF FailedAfterRingingAll, FailedRow, RungUntilEnd
  <2>1. PICK w : w = order.potential[k]
    OBVIOUS
  <2>2. Rung(w)
    BY <2>1 DEF RungAll, Begun, Failing
  <2>3. CASE CalledBefore(w)
    <3>1. PICK S : S = {c \in DOMAIN calls : calls[c].worker = w}
      OBVIOUS
    <3>2. IsFiniteSet(S) /\ Cardinality(S) \in Nat /\ S # {}
      BY <2>3, <3>1, FiniteRows DEF TypeOK, CalledBefore
    <3>3. Cardinality(S) # 0
      BY <3>2, FS_EmptySet
    <3>4. ProposalsTo(w) > 0
      BY <3>1, <3>2, <3>3 DEF ProposalsTo
    <3>5. QED
      BY <2>1, <3>4
  <2>4. QED
    BY <2>1, <2>2, <2>3 DEF Rung
<1>4. QED
  BY <1>1, <1>2, <1>3, TypeCorrect, PTL DEF Spec

(***************************************************************************)
(* The retry budget, while nobody presses a key and nobody cancels.  Then  *)
(* there is one chain of calls, and the cursor counts its calls.           *)
(***************************************************************************)
Unpressed == \A c \in DOMAIN calls : calls[c].line # "closed"

Calm == cancels = 0 /\ Unpressed

Alone(h) ==
  /\ ~jobs.search /\ jobs.call = 0 /\ jobs.discard = {}
  /\ \A k \in Slots \ {h} : ~Chaining(handlers[k])

NoChain ==
  /\ ~jobs.search /\ jobs.call = 0 /\ jobs.discard = {}
  /\ \A k \in Slots : ~Chaining(handlers[k])

LEMMA OneChain ==
  ASSUME TypeOK, RowsExist, ChainsBounded, Unpressed, NEW h \in Slots, Chaining(handlers[h])
  PROVE  Alone(h)
<1>1. {c \in DOMAIN calls : calls[c].line = "closed" /\ HasFlag(c, "rejected")} = {}
  BY DEF Unpressed
<1>2. PICK S : S = {k \in Slots : Searching(k)}
  OBVIOUS
<1>3. IsFiniteSet(S) /\ Cardinality(S) \in Nat /\ h \in S
  BY <1>2, BoundsAssumption, FS_Subset, FS_CardinalityType DEF Searching, Chaining, AtStatus
<1>4. Chains <= 1
  BY <1>1, FS_EmptySet DEF ChainsBounded
<1>5. PICK j, d, n : /\ j = (IF jobs.search THEN 1 ELSE 0) /\ d = Cardinality(jobs.discard)
                     /\ n = Cardinality(S)
  OBVIOUS
<1>6. j \in Nat /\ d \in Nat /\ n \in Nat /\ jobs.call \in Nat /\ j + jobs.call + d + n <= 1
  BY <1>2, <1>3, <1>4, <1>5, DiscardFinite DEF Chains, TypeOK
<1>7. n # 0
  BY <1>3, <1>5, FS_EmptySet
<1>8. j = 0 /\ d = 0 /\ jobs.call = 0 /\ n = 1
  BY <1>6, <1>7
<1>9. jobs.discard = {} /\ ~jobs.search
  <2>1. ~jobs.search
    BY <1>5, <1>8
  <2>2. IsFiniteSet(jobs.discard) /\ Cardinality(jobs.discard) = 0
    BY <1>5, <1>8, DiscardFinite
  <2>3. QED
    BY <2>1, <2>2, FS_EmptySet
<1>10. ASSUME NEW k \in Slots \ {h}, Chaining(handlers[k]) PROVE FALSE
  <2>1. k \in S \ {h}
    BY <1>2, <1>10 DEF Searching, Chaining, AtStatus
  <2>2. IsFiniteSet(S \ {h}) /\ Cardinality(S \ {h}) = Cardinality(S) - 1
    BY <1>3, FS_RemoveElement
  <2>3. Cardinality(S \ {h}) = 0
    BY <1>5, <1>8, <2>2
  <2>4. QED
    BY <2>1, <2>2, <2>3, FS_EmptySet
<1>11. QED
  BY <1>8, <1>9, <1>10 DEF Alone

\* A chain that has ended does not begin again unless a key is pressed.
LEMMA NoChainKept ==
  ASSUME TypeOK, NoChain, NEW h \in Slots, NEW s, StepOf(h, s)
  PROVE  NoChain'
<1>1. /\ handlers'[h] = s /\ \A k \in Slots \ {h} : handlers'[k] = handlers[k]
      /\ ~Chaining(handlers[h]) /\ jobs \in Jobs
  BY Moved DEF NoChain, TypeOK, Jobs
<1>3. CASE /\ jobs'.search = jobs.search /\ jobs'.call = jobs.call
           /\ jobs'.discard = jobs.discard /\ ~Chaining(s)
  <2>1. \A k \in Slots : ~Chaining(handlers'[k])
    BY <1>1, <1>3 DEF NoChain
  <2>2. QED
    BY <1>3, <2>1 DEF NoChain, Chaining, AtStatus
<1>4. CASE \/ StatusLoaded(h, s) \/ StatusInserted(h, s) \/ CallCancelled(h, s)
           \/ StatusSaved(h, s) \/ StatusLost(h, s)
  BY <1>1, <1>3, <1>4 DEF StatusLoaded, StatusInserted, CallCancelled, StatusSaved, StatusLost,
    Goes, Chaining, AtStatus, AfterStatus, db, rest
<1>5. CASE \/ Assigned(h, s) \/ UpdateTaken(h, s) \/ TaskCreated(h, s) \/ TaskSaved(h, s)
           \/ AcceptanceRecorded(h, s) \/ FollowedUp(h, s) \/ CancelAsked(h, s)
           \/ TasksWereCancelled(h, s) \/ \E c \in DOMAIN calls : AcceptPressed(h, c, s)
  <2>1. jobs'.search = jobs.search /\ jobs'.call = jobs.call /\ jobs'.discard = jobs.discard
    BY <1>1, <1>5 DEF Assigned, UpdateTaken, TaskCreated, TaskSaved, AcceptanceRecorded,
      FollowedUp, CancelAsked, TasksWereCancelled, AcceptPressed, Jobs
  <2>2. s = handlers[h] \/ ~Chaining(s)
    BY <1>5 DEF Assigned, UpdateTaken, TaskCreated, TaskSaved, AcceptanceRecorded,
      FollowedUp, CancelAsked, TasksWereCancelled, AcceptPressed, Goes, Chaining, AtStatus
  <2>3. QED
    BY <1>1, <1>3, <2>1, <2>2
<1>6. CASE \/ SearchTaken(h, s) \/ CallTaken(h, s)
           \/ \E c \in jobs.discard : DiscardChecked(h, c, s)
  BY <1>6 DEF NoChain, SearchTaken, CallTaken
<1>7. CASE \/ WillingFound(h, s) \/ SearchSaved(h, s) \/ NextLoaded(h, s) \/ NextChosen(h, s)
           \/ NextSaved(h, s) \/ CallWasPlaced(h, s) \/ VerdictGiven(h, s)
  BY <1>1, <1>7 DEF WillingFound, SearchSaved, NextLoaded, NextChosen, NextSaved, CallWasPlaced,
    VerdictGiven, Goes, Chaining, AtStatus
<1>8. QED
  BY <1>4, <1>5, <1>6, <1>7 DEF StepOf

\* Nobody is about to be assigned.
Unanswered(s) ==
  /\ s.at \notin {"assign", "task1", "task2", "task3", "respond", "follow_up"}
  /\ AtStatus(s) => s.status # "accepted"

Unassigned == Calm => pendingUpdates = 0 /\ \A h \in Slots : Unanswered(handlers[h])

LEMMA CalmStep ==
  ASSUME TypeOK, CallsKept, NEW h \in Slots, NEW s, StepOf(h, s), Calm'
  PROVE  Calm /\ ~\E c \in DOMAIN calls : AcceptPressed(h, c, s)
<1>1. cancels = 0
  BY CancelStep DEF Calm
<1>2. Unpressed
  BY DEF Calm, Unpressed, CallsKept
<1>3. ASSUME NEW c \in DOMAIN calls, AcceptPressed(h, c, s) PROVE FALSE
  <2>1. c \in DOMAIN calls' /\ calls'[c].line # "closed"
    BY DEF Calm, Unpressed, CallsKept
  <2>2. calls[c] \in [worker : Workers, line : Lines]
    BY CallTyped
  <2>3. calls'[c].line = "closed"
    BY <1>3, <2>2 DEF AcceptPressed, TypeOK
  <2>4. QED
    BY <2>1, <2>3
<1>4. QED
  BY <1>1, <1>2, <1>3 DEF Calm

LEMMA StepUnassigned ==
  ASSUME TypeOK, RowsExist, ShapeInv, Unassigned, CallsKept, NEW h \in Slots, NEW s, StepOf(h, s)
  PROVE  Unassigned'
<1>1. SUFFICES ASSUME Calm'
               PROVE  pendingUpdates' = 0 /\ \A k \in Slots : Unanswered(handlers'[k])
  BY DEF Unassigned, Unanswered, AtStatus
<1>2. Calm /\ pendingUpdates = 0 /\ Unanswered(handlers[h])
  BY <1>1, CalmStep DEF Unassigned
<1>3. /\ handlers'[h] = s /\ \A k \in Slots \ {h} : handlers'[k] = handlers[k]
  BY Moved
<1>4. pendingUpdates' = 0 /\ Unanswered(s)
  <2>1. CASE \/ StatusLoaded(h, s) \/ StatusInserted(h, s) \/ CallCancelled(h, s)
             \/ StatusSaved(h, s) \/ StatusLost(h, s)
    BY <1>2, <2>1 DEF StatusLoaded, StatusInserted, CallCancelled, StatusSaved, StatusLost,
      Goes, AfterStatus, Unanswered, AtStatus, rest
  <2>2. CASE \/ SearchTaken(h, s) \/ WillingFound(h, s) \/ SearchSaved(h, s) \/ CallTaken(h, s)
             \/ NextLoaded(h, s) \/ NextChosen(h, s) \/ NextSaved(h, s) \/ CallWasPlaced(h, s)
             \/ VerdictGiven(h, s) \/ CancelAsked(h, s) \/ TasksWereCancelled(h, s)
             \/ \E c \in jobs.discard : DiscardChecked(h, c, s)
    BY <1>2, <2>2 DEF SearchTaken, WillingFound, SearchSaved, CallTaken, NextLoaded, NextChosen,
      NextSaved, CallWasPlaced, VerdictGiven, CancelAsked, TasksWereCancelled, DiscardChecked,
      Goes, Unanswered, AtStatus, rest
  <2>3. CASE \/ Assigned(h, s) \/ UpdateTaken(h, s) \/ TaskCreated(h, s) \/ TaskSaved(h, s)
             \/ AcceptanceRecorded(h, s) \/ FollowedUp(h, s)
    BY <1>2, <2>3 DEF Assigned, UpdateTaken, TaskCreated, TaskSaved, AcceptanceRecorded,
      FollowedUp, Goes, Unanswered
  <2>4. QED
    BY <1>1, <2>1, <2>2, <2>3, CalmStep DEF StepOf
<1>5. QED
  BY <1>2, <1>3, <1>4 DEF Unassigned

\* The failure of the search ends its chain.
LEMMA StepFailureEnds ==
  ASSUME TypeOK, RowsExist, ShapeInv, ChainsBounded, Calm, Failing => NoChain,
         NEW h \in Slots, NEW s, StepOf(h, s), Failing'
  PROVE  NoChain'
<1>1. CASE Failing
  BY <1>1, NoChainKept
<1>2. CASE (WillingFound(h, s) /\ s.at = "status_load") \/ (NextLoaded(h, s) /\ Exhausted(order))
  <2>1. Chaining(handlers[h])
    BY <1>2 DEF WillingFound, NextLoaded, Goes, Chaining, AtStatus
  <2>2. Alone(h)
    BY <2>1, OneChain DEF Calm
  <2>3. /\ handlers'[h] = s /\ \A k \in Slots \ {h} : handlers'[k] = handlers[k]
    BY Moved
  <2>4. UNCHANGED jobs /\ ~Chaining(s)
    BY <1>2 DEF WillingFound, NextLoaded, Goes, Chaining, AtStatus
  <2>5. \A k \in Slots : ~Chaining(handlers'[k])
    BY <2>2, <2>3, <2>4 DEF Alone
  <2>6. QED
    BY <2>2, <2>4, <2>5 DEF Alone, NoChain, Chaining, AtStatus
<1>3. QED
  BY <1>1, <1>2, FailingStep

\* The workers found are different workers.
Distinct(q) == \A i, j \in DOMAIN q : q[i] = q[j] => i = j

DistinctInv ==
  /\ cancels = 0 /\ Begun => Distinct(order.potential)
  /\ \A h \in Slots : handlers[h].at = "search_save" => Distinct(handlers[h].snap.potential)

LEMMA StepDistinct ==
  ASSUME TypeOK, RowsExist, ShapeInv, Settled, DistinctInv, NEW h \in Slots, NEW s, StepOf(h, s)
  PROVE  DistinctInv'
<1>1. /\ handlers'[h] = s /\ \A k \in Slots \ {h} : handlers'[k] = handlers[k]
      /\ handlers[h].snap \in OrderRow /\ order \in OrderRow
  BY Moved, HandlerNow DEF TypeOK
<1>2. ASSUME cancels' = 0, Begun' PROVE Distinct(order'.potential)
  <2>1. cancels = 0
    BY <1>2, CancelStep
  <2>2. CASE SearchSaved(h, s) /\ CanSave(handlers[h].snap)
    <3>1. /\ handlers[h].at = "search_save"
          /\ order'.potential = handlers[h].snap.potential
      BY <1>1, <2>2 DEF SearchSaved, Goes, OrderRow
    <3>2. QED
      BY <3>1 DEF DistinctInv
  <2>3. CASE ~(SearchSaved(h, s) /\ CanSave(handlers[h].snap))
    <3>1. Begun
      BY <1>2, <2>3, BegunStep
    <3>2. order'.potential = order.potential
      <4>1. CASE SearchSaved(h, s)
        BY <2>3, <4>1 DEF SearchSaved
      <4>2. QED
        BY <2>1, <3>1, <4>1, PotentialStays
    <3>3. QED
      BY <2>1, <3>1, <3>2 DEF DistinctInv
  <2>4. QED
    BY <2>2, <2>3
<1>3. s.at = "search_save" => Distinct(s.snap.potential)
  <2>1. CASE WillingFound(h, s) /\ s.at = "search_save"
    <3>1. PICK willing \in WorkerLists : s.snap = [order EXCEPT !.potential = willing]
      BY <2>1 DEF WillingFound, Goes
    <3>2. s.snap.potential = willing
      BY <1>1, <3>1 DEF OrderRow
    <3>3. Distinct(willing)
      BY DEF WorkerLists, Distinct
    <3>4. QED
      BY <3>2, <3>3
  <2>2. CASE s = handlers[h]
    BY <2>2 DEF DistinctInv
  <2>3. QED
    BY <2>1, <2>2 DEF StepOf, StatusLoaded, StatusInserted, CallCancelled, StatusSaved,
      StatusLost, SearchTaken, SearchSaved, CallTaken, NextLoaded, NextChosen, NextSaved,
      CallWasPlaced, DiscardChecked, VerdictGiven, Assigned, UpdateTaken, TaskCreated, TaskSaved,
      AcceptanceRecorded, FollowedUp, CancelAsked, TasksWereCancelled, AcceptPressed, Goes,
      AfterStatus
<1>4. \A k \in Slots : handlers'[k].at = "search_save" => Distinct(handlers'[k].snap.potential)
  BY <1>1, <1>3 DEF DistinctInv
<1>5. QED
  BY <1>2, <1>4 DEF DistinctInv, Distinct

(***************************************************************************)
(* The calls to a worker, made or about to be, and how the cursor counts   *)
(* them: q whole rounds, and the first r workers once more.                *)
(***************************************************************************)
Coming(w) == \E h \in Slots : handlers[h].at = "place" /\ handlers[h].worker = w

Called(w) == ProposalsTo(w) + (IF Coming(w) THEN 1 ELSE 0)

Share(q, r, k) == q + (IF k <= r THEN 1 ELSE 0)

Tracked ==
  \E q, r \in Nat :
     /\ r <= Len(order.potential) /\ order.cursor = q * Len(order.potential) + r
     /\ \A k \in DOMAIN order.potential :
          Called(order.potential[k]) <= Share(q, r, k)

BudgetInv ==
  Calm =>
    /\ Failing => NoChain
    /\ \A w \in Workers : Called(w) <= MaxRetry + 1
    /\ ~NoChain /\ Begun =>
         Tracked /\ \A h \in Slots : Holding(handlers[h]) => handlers[h].snap.cursor = order.cursor

LEMMA CalledTyped ==
  ASSUME TypeOK, NEW w
  PROVE  ProposalsTo(w) \in Nat /\ Called(w) \in Nat
<1>1. PICK S : S = {c \in DOMAIN calls : calls[c].worker = w}
  OBVIOUS
<1>2. Cardinality(S) \in Nat
  BY <1>1, FiniteRows DEF TypeOK
<1>3. QED
  BY <1>1, <1>2 DEF Called, ProposalsTo

\* One more call in the log.
LEMMA OneMore ==
  ASSUME TypeOK, NEW w \in Workers, NEW d, d.worker = w, calls' = Append(calls, d), NEW u
  PROVE  ProposalsTo(u)' = ProposalsTo(u) + (IF u = w THEN 1 ELSE 0)
<1>1. PICK n \in Nat : n = Len(calls) /\ DOMAIN calls = 1..n
  BY DEF TypeOK
<1>2. DOMAIN calls' = 1..(n + 1) /\ calls'[n + 1] = d /\ \A c \in 1..n : calls'[c] = calls[c]
  BY <1>1 DEF TypeOK
<1>3. PICK S, T : /\ S = {c \in DOMAIN calls : calls[c].worker = u}
                  /\ T = {c \in DOMAIN calls' : calls'[c].worker = u}
  OBVIOUS
<1>4. T = IF u = w THEN S \cup {n + 1} ELSE S
  BY <1>1, <1>2, <1>3
<1>5. IsFiniteSet(S) /\ Cardinality(S) \in Nat /\ n + 1 \notin S
  BY <1>1, <1>3, FiniteRows DEF TypeOK
<1>6. Cardinality(S \cup {n + 1}) = Cardinality(S) + 1
  BY <1>5, FS_AddElement
<1>7. Cardinality(T) = Cardinality(S) + (IF u = w THEN 1 ELSE 0)
  BY <1>4, <1>5, <1>6
<1>8. QED
  BY <1>3, <1>7 DEF ProposalsTo

\* The worker whose turn it is, and the rounds before.
LEMMA Turn ==
  ASSUME NEW m \in Nat, NEW n \in Nat, n # 0, NEW q \in Nat, NEW r \in Nat, r < n,
         NEW c \in Nat, c = q * n + r, c <= m * n
  PROVE  c % n = r /\ q <= m
<1>1. PICK a, b : a = c \div n /\ b = c % n
  OBVIOUS
<1>2. a \in Nat /\ b \in Nat /\ b < n /\ c = n * a + b
  BY <1>1
<1>3. n * a \in Nat /\ n * q \in Nat /\ n * m \in Nat /\ q * n = n * q /\ m * n = n * m
  BY <1>2
<1>4. n * (a + 1) = n * a + n /\ n * (q + 1) = n * q + n /\ n * (m + 1) = n * m + n
  BY <1>2
<1>5. ~(a + 1 <= q)
  <2>1. a + 1 <= q => n * (a + 1) <= n * q
    BY <1>2, TimesMonotonic
  <2>2. QED
    BY <1>2, <1>3, <1>4, <2>1
<1>6. ~(q + 1 <= a)
  <2>1. q + 1 <= a => n * (q + 1) <= n * a
    BY <1>2, TimesMonotonic
  <2>2. QED
    BY <1>2, <1>3, <1>4, <2>1
<1>7. a = q
  BY <1>2, <1>5, <1>6
<1>8. b = r
  BY <1>2, <1>3, <1>7
<1>9. ~(m + 1 <= q)
  <2>1. m + 1 <= q => n * (m + 1) <= n * q
    BY TimesMonotonic
  <2>2. QED
    BY <1>3, <1>4, <2>1
<1>10. QED
  BY <1>1, <1>8, <1>9

\* When all have been called in a round, the next round begins.
Counts(m, n, c, q, r) == r <= n /\ c = q * n + r /\ c <= m * n

TurnOf(m, n, c, p, t) == t < n /\ c = p * n + t /\ p <= m /\ c % n = t

LEMMA NextTurn ==
  ASSUME NEW m \in Nat, NEW n \in Nat, n # 0, NEW q \in Nat, NEW r \in Nat,
         NEW c \in Nat, Counts(m, n, c, q, r)
  PROVE  \E p, t \in Nat :
            TurnOf(m, n, c, p, t) /\ \A k \in 1..n : Share(q, r, k) <= Share(p, t, k)
<1>1. CASE r < n
  <2>1. TurnOf(m, n, c, q, r)
    BY <1>1, Turn DEF TurnOf, Counts
  <2>2. \A k \in 1..n : Share(q, r, k) <= Share(q, r, k)
    BY DEF Share
  <2>3. QED
    BY <2>1, <2>2
<1>2. CASE r = n
  <2>1. (q + 1) * n = q * n + n /\ q * n \in Nat
    OBVIOUS
  <2>2. c = (q + 1) * n + 0 /\ 0 < n /\ q + 1 \in Nat
    BY <1>2, <2>1 DEF Counts
  <2>3. TurnOf(m, n, c, q + 1, 0)
    BY <2>2, Turn DEF TurnOf, Counts
  <2>4. \A k \in 1..n : Share(q, r, k) <= Share(q + 1, 0, k)
    BY <1>2 DEF Share
  <2>5. QED
    BY <2>2, <2>3, <2>4
<1>3. QED
  BY <1>1, <1>2 DEF Counts

LEMMA NeverMore ==
  ASSUME Tracked, \A u : Called(u)' <= Called(u) /\ Called(u)' \in Nat /\ Called(u) \in Nat,
         order'.potential = order.potential, order'.cursor = order.cursor,
         Len(order.potential) \in Nat
  PROVE  Tracked'
<1>1. PICK q, r \in Nat :
        /\ r <= Len(order.potential) /\ order.cursor = q * Len(order.potential) + r
        /\ \A k \in DOMAIN order.potential :
             Called(order.potential[k]) <= Share(q, r, k)
  BY DEF Tracked
<1>2. ASSUME NEW k \in DOMAIN order'.potential, NEW u, u = order'.potential[k]
      PROVE  Called(u)' <= Share(q, r, k)
  <2>1. Called(u) <= Share(q, r, k)
    BY <1>1, <1>2
  <2>2. PICK b \in Nat : b = Share(q, r, k)
    BY DEF Share
  <2>3. Called(u)' <= Called(u) /\ Called(u)' \in Nat /\ Called(u) \in Nat
    OBVIOUS
  <2>4. QED
    BY <2>1, <2>2, <2>3
<1>3. PICK o : o = order'
  OBVIOUS
<1>4. \A k \in DOMAIN o.potential : Called(o.potential[k])' <= Share(q, r, k)
  BY <1>2, <1>3
<1>5. r <= Len(o.potential) /\ o.cursor = q * Len(o.potential) + r
  BY <1>1, <1>3
<1>6. QED
  BY <1>3, <1>4, <1>5 DEF Tracked

\* A step that chooses nobody makes nobody's calls more.
LEMMA CalledKept ==
  ASSUME TypeOK, RowsExist, CallsKept, Uncancelled, ChainsBounded, Calm, Calm',
         NEW h \in Slots, NEW s, StepOf(h, s), s.at # "place" \/ s = handlers[h], NEW u
  PROVE  Called(u)' <= Called(u) /\ Called(u)' \in Nat /\ Called(u) \in Nat
<1>1. /\ handlers'[h] = s /\ \A k \in Slots \ {h} : handlers'[k] = handlers[k]
      /\ NotCancelling(handlers[h]) /\ HandlerRows(handlers[h])
  BY Moved, HandlerNow DEF Uncancelled, Calm
<1>2. ProposalsTo(u) \in Nat /\ Called(u) \in Nat
  BY CalledTyped
<1>3. Coming(u)' => Coming(u)
  BY <1>1 DEF Coming
<1>4. CASE UNCHANGED calls
  <2>1. ProposalsTo(u)' = ProposalsTo(u)
    BY <1>4 DEF ProposalsTo
  <2>2. QED
    BY <1>2, <1>3, <2>1 DEF Called
<1>5. CASE CallWasPlaced(h, s) /\ ~UNCHANGED calls
  <2>1. PICK w \in Workers : w = handlers[h].worker
    BY <1>1, <1>5 DEF CallWasPlaced, Goes, HandlerRows
  <2>2. Alone(h)
    BY <1>5, OneChain DEF CallWasPlaced, Goes, Chaining, AtStatus, Calm
  <2>3. ~Coming(u)'
    BY <1>1, <1>5, <2>2 DEF Alone, Chaining, AtStatus, Coming, CallWasPlaced, Goes
  <2>4. Coming(u) <=> u = w
    BY <1>5, <2>1, <2>2 DEF Alone, Chaining, AtStatus, Coming, CallWasPlaced, Goes
  <2>5. PICK d : d = [worker |-> w, line |-> "ringing"]
    OBVIOUS
  <2>6. calls' = Append(calls, d) /\ d.worker = w
    BY <1>5, <2>1, <2>5 DEF CallWasPlaced
  <2>7. ProposalsTo(u)' = ProposalsTo(u) + (IF u = w THEN 1 ELSE 0)
    BY <2>6, OneMore
  <2>8. QED
    BY <1>2, <2>3, <2>4, <2>7 DEF Called
<1>6. ~CallCancelled(h, s)
  BY <1>1 DEF CallCancelled, Goes, NotCancelling
<1>7. QED
  BY <1>4, <1>5, <1>6, CalmStep, Frames

\* Before the calls begin nobody has been called.
LEMMA NobodyCalled ==
  ASSUME ~Begun, NEW u
  PROVE  Called(u) = 0
<1>1. {c \in DOMAIN calls : calls[c].worker = u} = {}
  BY DEF Begun
<1>2. ProposalsTo(u) = 0
  BY <1>1, FS_EmptySet DEF ProposalsTo
<1>3. ~Coming(u)
  BY DEF Begun, Calling, Coming
<1>4. QED
  BY <1>2, <1>3 DEF Called

\* The search saves the workers found and a cursor at the first of them.
LEMMA BeginTracked ==
  ASSUME TypeOK, RowsExist, EarlyInv, NEW h \in Slots, NEW s, StepOf(h, s),
         SearchSaved(h, s), CanSave(handlers[h].snap)
  PROVE  /\ \A u : Called(u)' = 0
         /\ Tracked' /\ \A k \in Slots : ~Holding(handlers'[k])
<1>1. /\ handlers'[h] = s /\ \A k \in Slots \ {h} : handlers'[k] = handlers[k]
      /\ handlers[h].snap \in OrderRow
  BY Moved, HandlerNow
<1>2. Beginning
  BY DEF SearchSaved, Goes, EarlyInv, Early, Seeking
<1>3. \A k \in Slots : handlers'[k].at # "place" /\ ~Holding(handlers'[k])
  BY <1>1, <1>2 DEF Beginning, EarlyHandler, Holding, AtStatus, SearchSaved, Goes
<1>4. calls' = << >> /\ calls = << >>
  BY <1>2 DEF Beginning, SearchSaved
<1>5. ASSUME NEW u PROVE Called(u)' = 0
  <2>1. {c \in DOMAIN calls' : calls'[c].worker = u} = {}
    BY <1>4
  <2>2. ProposalsTo(u)' = 0
    BY <2>1, FS_EmptySet DEF ProposalsTo
  <2>3. ~Coming(u)'
    BY <1>3 DEF Coming
  <2>4. QED
    BY <2>2, <2>3 DEF Called
<1>6. PICK o : o = order'
  OBVIOUS
<1>7. o.cursor = 0 /\ o.potential \in Seq(Workers)
  BY <1>1, <1>2, <1>6 DEF SearchSaved, Beginning, EarlyHandler, OrderRow
<1>8. PICK n \in Nat : n = Len(o.potential) /\ DOMAIN o.potential = 1..n
  BY <1>7
<1>9. 0 <= n /\ o.cursor = 0 * n + 0
  BY <1>7, <1>8
<1>10. \A k \in DOMAIN o.potential : Called(o.potential[k])' <= Share(0, 0, k)
  BY <1>5, <1>8 DEF Share
<1>11. Tracked'
  BY <1>6, <1>8, <1>9, <1>10 DEF Tracked
<1>12. QED
  BY <1>3, <1>5, <1>11

\* searchCursor++: the turn of one worker has come, and hers alone.
LEMMA NextTracked ==
  ASSUME TypeOK, RowsExist, ShapeInv, CursorInv, ChainsBounded, Calm, Tracked,
         Distinct(order.potential),
         NEW h \in Slots, NEW s, StepOf(h, s), NextSaved(h, s), CanSave(handlers[h].snap),
         handlers[h].snap.cursor = order.cursor,
         handlers[h].snap.potential = order.potential,
         \A w \in Workers : Called(w) <= MaxRetry + 1
  PROVE  Tracked' /\ \A w \in Workers : Called(w)' <= MaxRetry + 1
<1>1. /\ handlers'[h] = s /\ \A k \in Slots \ {h} : handlers'[k] = handlers[k]
      /\ handlers[h].snap \in OrderRow /\ HandlerShape(handlers[h]) /\ SnapOK(handlers[h])
      /\ Holding(handlers[h]) /\ handlers[h].at \in {"next_skip", "next_take"}
  BY Moved, HandlerNow DEF ShapeInv, CursorInv, NextSaved, Goes, Holding
<1>2. Alone(h)
  BY <1>1, OneChain DEF Chaining, AtStatus, Calm
<1>3. PICK z, n, c : z = order.potential /\ n = Len(z) /\ c = order.cursor
  OBVIOUS
<1>4. /\ z \in Seq(Workers) /\ n \in Nat /\ c \in Nat /\ DOMAIN z = 1..n /\ n # 0
      /\ c <= MaxRetry * n /\ handlers[h].worker = z[(c % n) + 1]
  BY <1>1, <1>3 DEF SnapOK, Holding, HandlerShape, OrderRow, TypeOK
<1>5. PICK q, r \in Nat :
        /\ r <= n /\ c = q * n + r
        /\ \A k \in 1..n : Called(z[k]) <= Share(q, r, k)
  BY <1>3, <1>4 DEF Tracked
<1>6. PICK p, t \in Nat :
        /\ t < n /\ c = p * n + t /\ p <= MaxRetry /\ c % n = t
        /\ \A k \in 1..n : Share(q, r, k) <= Share(p, t, k)
  <2>1. PICK m \in Nat : m = MaxRetry
    BY RetryAssumption
  <2>2. c <= m * n
    BY <1>4, <2>1
  <2>3. /\ m \in Nat /\ n \in Nat /\ n # 0 /\ q \in Nat /\ r \in Nat
        /\ c \in Nat /\ Counts(m, n, c, q, r)
    BY <1>4, <1>5, <2>2 DEF Counts
  <2>4. \E p, t \in Nat :
           TurnOf(m, n, c, p, t) /\ \A k \in 1..n : Share(q, r, k) <= Share(p, t, k)
    BY <2>3, NextTurn
  <2>5. QED
    BY <2>1, <2>4 DEF TurnOf
<1>7. PICK w \in Workers : w = z[t + 1] /\ handlers[h].worker = w /\ t + 1 \in 1..n
  <2>1. t + 1 \in 1..n
    BY <1>4, <1>6
  <2>2. z[t + 1] \in Workers
    BY <1>4, <2>1
  <2>3. handlers[h].worker = z[t + 1]
    BY <1>4, <1>6
  <2>4. QED
    BY <2>1, <2>2, <2>3
<1>8. ASSUME NEW k \in 1..n PROVE Called(z[k]) <= Share(p, t, k)
  <2>1. Called(z[k]) <= Share(q, r, k)
    BY <1>5
  <2>2. Share(q, r, k) <= Share(p, t, k)
    BY <1>6
  <2>3. Called(z[k]) \in Nat
    BY CalledTyped
  <2>4. PICK a, b \in Nat : /\ a = Share(q, r, k)
                            /\ b = Share(p, t, k)
    BY DEF Share
  <2>5. QED
    BY <2>1, <2>2, <2>3, <2>4
<1>9. ASSUME NEW u
      PROVE  Called(u)' \in Nat /\ Called(u) \in Nat
             /\ Called(u)' <= Called(u) + (IF u = w THEN 1 ELSE 0)
  <2>1. ProposalsTo(u)' = ProposalsTo(u)
    BY DEF NextSaved, ProposalsTo
  <2>2. ~Coming(u)
    BY <1>1, <1>2 DEF Alone, Chaining, AtStatus, Coming
  <2>3. Coming(u)' => u = w
    BY <1>1, <1>2, <1>7 DEF Alone, Chaining, AtStatus, Coming, NextSaved, Goes
  <2>4. QED
    BY <2>1, <2>2, <2>3, CalledTyped DEF Called
<1>10. Called(w) <= p
  <2>1. Called(z[t + 1]) <= Share(p, t, t + 1)
    BY <1>7, <1>8
  <2>2. Share(p, t, t + 1) = p
    BY <1>6 DEF Share
  <2>3. QED
    BY <1>7, <2>1, <2>2
<1>11. ASSUME NEW u \in Workers PROVE Called(u)' <= MaxRetry + 1
  <2>1. Called(u) <= MaxRetry + 1 /\ (u = w => Called(u) <= MaxRetry)
    BY <1>6, <1>9, <1>10, RetryAssumption
  <2>2. QED
    BY <1>9, <2>1, RetryAssumption
<1>12. ASSUME NEW k \in 1..n PROVE Called(z[k])' <= Share(p, t + 1, k)
  <2>1. PICK u : u = z[k]
    OBVIOUS
  <2>2. Called(u)' \in Nat /\ Called(u) \in Nat /\ Called(u)' <= Called(u) + (IF u = w THEN 1 ELSE 0)
    BY <1>9
  <2>3. Called(u) <= Share(p, t, k)
    BY <1>8, <2>1
  <2>4. u = w => k = t + 1
    <3>1. \A i, j \in 1..n : z[i] = z[j] => i = j
      BY <1>3, <1>4 DEF Distinct
    <3>2. QED
      BY <1>7, <2>1, <3>1
  <2>5. Called(u)' <= Share(p, t + 1, k)
    <3>1. CASE u = w
      BY <2>2, <2>4, <1>10, <3>1 DEF Share
    <3>2. CASE u # w
      BY <2>2, <2>3, <3>2 DEF Share
    <3>3. QED
      BY <3>1, <3>2
  <2>6. QED
    BY <2>1, <2>5
<1>13. PICK o : o = order'
  OBVIOUS
<1>14. o.potential = z /\ o.cursor = c + 1
  BY <1>1, <1>3, <1>13 DEF NextSaved, OrderRow
<1>15. t + 1 <= n /\ c + 1 = p * n + (t + 1) /\ t + 1 \in Nat
  BY <1>4, <1>6
<1>16. \A k \in DOMAIN o.potential : Called(o.potential[k])' <= Share(p, t + 1, k)
  BY <1>4, <1>12, <1>14
<1>17. t + 1 <= Len(o.potential) /\ o.cursor = p * Len(o.potential) + (t + 1)
  BY <1>3, <1>14, <1>15
<1>18. Tracked'
  BY <1>13, <1>15, <1>16, <1>17 DEF Tracked
<1>19. QED
  BY <1>11, <1>18

\* While the chain of calls goes on nobody holds an old cursor.
LEMMA HoldingKept ==
  ASSUME TypeOK, NEW h \in Slots, NEW s, StepOf(h, s), order'.cursor = order.cursor,
         \A k \in Slots : Holding(handlers[k]) => handlers[k].snap.cursor = order.cursor
  PROVE  \A k \in Slots : Holding(handlers'[k]) => handlers'[k].snap.cursor = order'.cursor
<1>1. /\ handlers'[h] = s /\ \A k \in Slots \ {h} : handlers'[k] = handlers[k]
  BY Moved
<1>2. Holding(s) => s.snap.cursor = order.cursor
  <2>1. CASE NextLoaded(h, s)
    BY <2>1 DEF NextLoaded, Goes, Holding
  <2>2. CASE NextChosen(h, s)
    BY <2>2 DEF NextChosen, Goes, Holding
  <2>3. CASE s = handlers[h]
    BY <2>3
  <2>4. QED
    BY <2>1, <2>2, <2>3 DEF StepOf, StatusLoaded, StatusInserted, CallCancelled, StatusSaved,
      StatusLost, SearchTaken, WillingFound, SearchSaved, CallTaken, NextSaved, CallWasPlaced,
      DiscardChecked, VerdictGiven, Assigned, UpdateTaken, TaskCreated, TaskSaved,
      AcceptanceRecorded, FollowedUp, CancelAsked, TasksWereCancelled, AcceptPressed, Goes,
      Holding, AfterStatus
<1>3. QED
  BY <1>1, <1>2

\* Once the calls go on, no status is written until the chain has ended.
LEMMA NoStatusStep ==
  ASSUME TypeOK, RowsExist, EarlyInv, ShapeInv, Uncancelled, Unassigned, Calm,
         Failing => NoChain, ~NoChain, Begun, NEW h \in Slots, NEW s, StepOf(h, s)
  PROVE  ~StatusInserted(h, s) /\ ~StatusSaved(h, s)
<1>1. SUFFICES ASSUME AtStatus(handlers[h]) PROVE FALSE
  BY DEF StatusInserted, StatusSaved, Goes, AtStatus
<1>2. /\ NotCancelling(handlers[h]) /\ Unanswered(handlers[h]) /\ HandlerShape(handlers[h])
      /\ handlers[h] \in Handler
  BY HandlerNow DEF Uncancelled, Unassigned, Calm, ShapeInv
<1>3. handlers[h].status \in {"searching", "failed"}
  BY <1>1, <1>2 DEF NotCancelling, Unanswered, HandlerShape, Handler, Statuses
<1>4. handlers[h].status # "searching"
  BY <1>1, EarlyNotBegun DEF Early, Seeking
<1>5. QED
  BY <1>1, <1>3, <1>4 DEF Failing

LEMMA StepBudget ==
  ASSUME TypeOK, RowsExist, EarlyInv, ShapeInv, CursorInv, Uncancelled, Settled, ChainsBounded,
         Unassigned, DistinctInv, BudgetInv, CallsKept, NEW h \in Slots, NEW s, StepOf(h, s)
  PROVE  BudgetInv'
<1>1. SUFFICES ASSUME Calm'
               PROVE  /\ Failing' => NoChain'
                      /\ \A w \in Workers : Called(w)' <= MaxRetry + 1
                      /\ ~NoChain' /\ Begun' =>
                           /\ Tracked'
                           /\ \A k \in Slots : Holding(handlers'[k]) =>
                                handlers'[k].snap.cursor = order'.cursor
  BY DEF BudgetInv, Holding
<1>2. /\ Calm /\ (Failing => NoChain) /\ \A w \in Workers : Called(w) <= MaxRetry + 1
      /\ ~NoChain /\ Begun =>
           /\ Tracked
           /\ \A k \in Slots : Holding(handlers[k]) => handlers[k].snap.cursor = order.cursor
  BY <1>1, CalmStep DEF BudgetInv
<1>3. Failing' => NoChain'
  BY <1>2, StepFailureEnds
<1>4. CASE SearchSaved(h, s) /\ CanSave(handlers[h].snap)
  <2>1. /\ \A u : Called(u)' = 0
        /\ Tracked' /\ \A k \in Slots : ~Holding(handlers'[k])
    BY <1>4, BeginTracked
  <2>2. \A w \in Workers : Called(w)' <= MaxRetry + 1
    BY <2>1, RetryAssumption
  <2>3. QED
    BY <1>3, <2>1, <2>2
<1>5. CASE NextSaved(h, s) /\ CanSave(handlers[h].snap)
  <2>1. Holding(handlers[h]) /\ Chaining(handlers[h]) /\ Calling(handlers[h])
    BY <1>5 DEF NextSaved, Goes, Holding, Chaining, AtStatus, Calling
  <2>2. ~NoChain /\ Begun
    BY <2>1 DEF NoChain, Begun
  <2>3. handlers[h].snap.cursor = order.cursor /\ Tracked
    BY <1>2, <2>1, <2>2
  <2>4. handlers[h].snap.potential = order.potential /\ Distinct(order.potential)
    BY <1>2, <2>1, <2>2 DEF Settled, HasSnap, DistinctInv, Calm
  <2>5. Tracked' /\ \A w \in Workers : Called(w)' <= MaxRetry + 1
    BY <1>2, <1>5, <2>3, <2>4, NextTracked
  <2>6. \A k \in Slots : ~Holding(handlers'[k])
    <3>1. Alone(h)
      BY <1>2, <2>1, OneChain DEF Calm
    <3>2. /\ handlers'[h] = s /\ \A k \in Slots \ {h} : handlers'[k] = handlers[k]
      BY Moved
    <3>3. ~Holding(s)
      BY <1>5 DEF NextSaved, Goes, Holding
    <3>4. QED
      BY <3>1, <3>2, <3>3 DEF Alone, Chaining, AtStatus, Holding
  <2>7. QED
    BY <1>3, <2>5, <2>6
<1>6. CASE /\ ~(SearchSaved(h, s) /\ CanSave(handlers[h].snap))
           /\ ~(NextSaved(h, s) /\ CanSave(handlers[h].snap))
  <2>1. s.at # "place" \/ s = handlers[h]
    BY <1>6 DEF StepOf, StatusLoaded, StatusInserted, CallCancelled, StatusSaved, StatusLost,
      SearchTaken, WillingFound, SearchSaved, CallTaken, NextLoaded, NextChosen, NextSaved,
      CallWasPlaced, DiscardChecked, VerdictGiven, Assigned, UpdateTaken, TaskCreated, TaskSaved,
      AcceptanceRecorded, FollowedUp, CancelAsked, TasksWereCancelled, AcceptPressed, Goes,
      AfterStatus
  <2>2. \A u : Called(u)' <= Called(u) /\ Called(u)' \in Nat /\ Called(u) \in Nat
    BY <1>1, <1>2, <2>1, CalledKept
  <2>3. \A w \in Workers : Called(w)' <= MaxRetry + 1
    <3> TAKE w \in Workers
    <3>1. PICK a, b : a = Called(w) /\ b = Called(w)'
      OBVIOUS
    <3>2. a <= MaxRetry + 1 /\ b <= a /\ a \in Nat /\ b \in Nat
      BY <1>2, <2>2, <3>1
    <3>3. QED
      BY <3>1, <3>2, RetryAssumption
  <2>4. ASSUME ~NoChain', Begun'
        PROVE  /\ Tracked'
               /\ \A k \in Slots : Holding(handlers'[k]) =>
                    handlers'[k].snap.cursor = order'.cursor
    <3>1. ~NoChain /\ Begun
      BY <1>6, <2>4, NoChainKept, BegunStep
    <3>2. ~StatusInserted(h, s) /\ ~StatusSaved(h, s)
      BY <1>2, <3>1, NoStatusStep
    <3>3. order'.potential = order.potential /\ order'.cursor = order.cursor
      BY <1>6, <3>2, OrderFrames
    <3>4. Len(order.potential) \in Nat
      BY DEF TypeOK, OrderRow
    <3>5. Tracked'
      BY <1>2, <2>2, <3>1, <3>3, <3>4, NeverMore
    <3>6. QED
      BY <1>2, <3>1, <3>3, <3>5, HoldingKept
  <2>5. QED
    BY <1>3, <2>3, <2>4
<1>7. QED
  BY <1>4, <1>5, <1>6

CallsInv == Unassigned /\ DistinctInv /\ BudgetInv

LEMMA NextBudget ==
  ASSUME TypeOK, RowsExist, SearchInv, EndInv, CursorInv, ChainsBounded, CallsInv,
         [Next]_vars, UNCHANGED ends
  PROVE  CallsInv'
<1>1. CallsKept
  BY HistoryKept
<1>2. ASSUME NEW h \in Slots, NEW s, StepOf(h, s) PROVE CallsInv'
  BY <1>1, <1>2, StepUnassigned, StepDistinct, StepBudget DEF CallsInv, SearchInv, EndInv
<1>3. ASSUME UNCHANGED <<statusLog, order, rest, handlers>>, Begun' <=> Begun, Calm' => Calm,
             Calm' => UNCHANGED jobs, \A u : ProposalsTo(u)' = ProposalsTo(u)
      PROVE  CallsInv'
  <2>1. Unassigned'
    BY <1>3 DEF CallsInv, Unassigned, Unanswered, AtStatus, rest
  <2>2. DistinctInv'
    BY <1>3 DEF CallsInv, DistinctInv, Distinct, rest
  <2>3. \A u : Called(u)' = Called(u)
    BY <1>3 DEF Called, Coming
  <2>4. ASSUME Calm' PROVE (NoChain' <=> NoChain) /\ (Failing' <=> Failing)
    BY <1>3, <2>4 DEF NoChain, Chaining, Failing, FailedRow, AtStatus
  <2>5. Tracked => Tracked'
    BY <1>3, <2>3 DEF Tracked
  <2>6. BudgetInv'
    BY <1>3, <2>3, <2>4, <2>5 DEF CallsInv, BudgetInv, Holding
  <2>7. QED
    BY <2>1, <2>2, <2>6 DEF CallsInv
<1>4. ASSUME NEW c \in DOMAIN calls, ReceiveCall(c) \/ RejectOrder(c) PROVE CallsInv'
  <2>1. \/ calls' = [calls EXCEPT ![c].line = "talking"] /\ calls[c].line = "ringing"
        \/ calls' = [calls EXCEPT ![c].line = "closed"] /\ calls[c].line = "talking"
    BY <1>4 DEF ReceiveCall, RejectOrder
  <2>2. DOMAIN calls' = DOMAIN calls /\ \A d \in DOMAIN calls : calls'[d].worker = calls[d].worker
    BY <2>1, LineKeeps DEF Lines
  <2>3. \A u : ProposalsTo(u)' = ProposalsTo(u)
    <3> TAKE u
    <3>1. {d \in DOMAIN calls' : calls'[d].worker = u} = {d \in DOMAIN calls : calls[d].worker = u}
      BY <2>2
    <3>2. QED
      BY <3>1 DEF ProposalsTo
  <2>4. RejectOrder(c) => ~Calm'
    <3>1. calls[c] \in [worker : Workers, line : Lines]
      BY CallTyped
    <3>2. RejectOrder(c) => calls'[c].line = "closed"
      BY <3>1 DEF RejectOrder, TypeOK
    <3>3. QED
      BY <2>2, <3>2 DEF Calm, Unpressed
  <2>5. UNCHANGED <<statusLog, order, rest, handlers>> /\ (Calm' => UNCHANGED jobs)
    BY <1>4, <2>4 DEF ReceiveCall, RejectOrder
  <2>6. Calm' => Calm
    BY <1>1, <2>5 DEF Calm, Unpressed, CallsKept, rest
  <2>7. Begun /\ Begun'
    BY <2>2 DEF Begun
  <2>8. QED
    BY <1>3, <2>3, <2>5, <2>6, <2>7
<1>5. CASE UNCHANGED vars
  BY <1>3, <1>5 DEF vars, db, rest, Begun, Calling, Calm, Unpressed, ProposalsTo
<1>6. QED
  BY <1>2, <1>4, <1>5, Steps

LEMMA InitBudget ==
  ASSUME Init
  PROVE  CallsInv
<1>1. /\ handlers = [h \in Slots |-> Idle] /\ statusLog = <<"placed">>
      /\ calls = << >> /\ jobs.call = 0 /\ pendingUpdates = 0
  BY DEF Init
<1>2. \A h \in Slots : handlers[h].at = "idle"
  BY <1>1, IdleFields
<1>3. ~Begun /\ ~Failing
  BY <1>1, <1>2 DEF Begun, Calling, Failing, FailedRow, AtStatus
<1>4. \A w \in Workers : Called(w) <= MaxRetry + 1
  BY <1>3, NobodyCalled, RetryAssumption
<1>5. Unassigned /\ DistinctInv
  BY <1>1, <1>2, <1>3 DEF Unassigned, Unanswered, AtStatus, DistinctInv
<1>6. QED
  BY <1>3, <1>4, <1>5 DEF CallsInv, BudgetInv

\* A key once pressed, or a cancellation, stays.
LEMMA CalmBefore ==
  ASSUME TypeOK, RowsExist, [Next]_vars, Calm'
  PROVE  Calm
<1>1. CallsKept
  BY HistoryKept
<1>2. Unpressed
  BY <1>1 DEF Calm, Unpressed, CallsKept
<1>3. ASSUME NEW h \in Slots, NEW s, StepOf(h, s) PROVE Calm
  BY <1>1, <1>3, CalmStep
<1>4. ASSUME UNCHANGED cancels PROVE Calm
  BY <1>2, <1>4 DEF Calm
<1>5. QED
  BY <1>3, <1>4, AllSteps DEF ReceiveCall, RejectOrder, ProcessEnd, vars, rest

\* A process that ends takes an acceptance, and so a key pressed.
CalmUntilEnd ==
  /\ ends = 0 => SearchInv /\ EndInv /\ CallsInv
  /\ ends # 0 => ~Calm

LEMMA NextCalmUntilEnd ==
  ASSUME TypeOK, RowsExist, CursorInv, ChainsBounded, AcceptInv, CalmUntilEnd, [Next]_vars
  PROVE  CalmUntilEnd'
<1>1. CASE UNCHANGED ends
  <2>1. CASE ends = 0
    BY <1>1, <2>1, NextSearch, NextEnd, NextBudget DEF CalmUntilEnd
  <2>2. CASE ends # 0
    BY <1>1, <2>2, CalmBefore DEF CalmUntilEnd
  <2>3. QED
    BY <2>1, <2>2
<1>2. ASSUME NEW h \in Slots, ProcessEnd(h) PROVE CalmUntilEnd'
  <2>1. /\ ends' = ends + 1 /\ ends \in Nat
        /\ handlers[h].at = "status_save" /\ handlers[h].status = "accepted"
    BY <1>2 DEF ProcessEnd, Standing, TypeOK
  <2>2. CASE ends = 0
    <3>1. ~Calm
      BY <2>1, <2>2 DEF CalmUntilEnd, CallsInv, Unassigned, Unanswered, AtStatus
    <3>2. QED
      BY <2>1, <3>1, CalmBefore DEF CalmUntilEnd
  <2>3. CASE ends # 0
    BY <2>1, <2>3, CalmBefore DEF CalmUntilEnd
  <2>4. QED
    BY <2>2, <2>3
<1>3. QED
  BY <1>1, <1>2, EndsCount

\* MAX_RETRY_PER_WORKER is kept as long as nobody presses a key and nobody cancels,
\* whoever picks up and whichever service fails: the one chain of calls goes round the
\* workers found, and no two of its jobs ever count from the same cursor.
THEOREM BudgetTheorem == Spec => []RetryBudgetUnpressed
<1>1. Init => AcceptInv /\ CalmUntilEnd
  BY InitAccounted, InitSearch, InitEnd, InitBudget DEF CalmUntilEnd, Init
<1>2. TypeOK /\ RowsExist /\ CursorInv /\ ChainsBounded /\ AcceptInv /\ CalmUntilEnd
        /\ [Next]_vars => (AcceptInv /\ CalmUntilEnd)'
  BY NextAccounted, NextCalmUntilEnd
<1>3. Spec => []CursorInv
  <2>1. Init => CursorInv
    BY InitBounded
  <2>2. TypeOK /\ RowsExist /\ CursorInv /\ [Next]_vars => CursorInv'
    BY NextBounded
  <2>3. QED
    BY <2>1, <2>2, TypeCorrect, PTL DEF Spec
<1>4. TypeOK /\ CalmUntilEnd => RetryBudgetUnpressed
  <2> SUFFICES ASSUME TypeOK, CallsInv, Calm, NEW w \in Workers
               PROVE  ProposalsTo(w) <= MaxRetry + 1
    BY DEF Calm, Unpressed, RetryBudgetUnpressed, RetryBudget, CalmUntilEnd
  <2>1. Called(w) <= MaxRetry + 1 /\ ProposalsTo(w) \in Nat
    BY CalledTyped DEF CallsInv, BudgetInv
  <2>2. QED
    BY <2>1, RetryAssumption DEF Called
<1>5. QED
  BY <1>1, <1>2, <1>3, <1>4, TypeCorrect, ChainsTheorem, PTL DEF Spec

(***************************************************************************)
(* The follow-up calls of an instant order.  As long as nobody presses     *)
(* reject and nobody cancels there is one chain of calls, so until a       *)
(* worker is assigned no save detaches a call; the save of a copy older    *)
(* than the assignment fails, and the call of the first worker stays.      *)
(***************************************************************************)
InHand(s) == s.at = "assign" \/ Taking(s)

Denied(c) == Refused(c) /\ \A h \in Slots : ~(InHand(handlers[h]) /\ handlers[h].call = c)

Agreed == cancels = 0 /\ \A c \in DOMAIN calls : ~Denied(c)

\* An accepted call is over, and so is one about to be.
LinesInv ==
  /\ \A c \in DOMAIN calls : HasFlag(c, "accepted") => calls[c].line = "closed"
  /\ \A h \in Slots : InHand(handlers[h]) => calls[handlers[h].call].line = "closed"

\* An acceptance is recorded by the handler that has the call in hand.
LEMMA AcceptedOnly ==
  ASSUME TypeOK, RowsExist, ShapeInv, CallsKept, NEW h \in Slots, NEW s, StepOf(h, s),
         NEW c \in DOMAIN calls, HasFlag(c, "accepted")', ~HasFlag(c, "accepted")
  PROVE  AcceptanceRecorded(h, s) /\ handlers[h].call = c
<1>1. /\ handlers[h] \in Handler /\ HandlerRows(handlers[h]) /\ HandlerShape(handlers[h])
  BY HandlerNow DEF ShapeInv
<1>2. calls'[c].worker = calls[c].worker
  BY DEF CallsKept
<1>3. ASSUME UNCHANGED responses PROVE FALSE
  BY <1>2, <1>3 DEF HasFlag, ResponsesOf
<1>4. ASSUME NEW w, NEW r, responses' = [responses EXCEPT ![w] = Append(@, r)]
      PROVE  r.call = c /\ r.flag = "accepted"
  <2>1. PICK u \in Workers : u = calls[c].worker
    BY CallTyped
  <2>2. responses'[u] \in {responses[u], Append(responses[u], r)}
    BY <1>4 DEF TypeOK
  <2>3. QED
    BY <1>2, <2>1, <2>2, FlagBack
<1>5. CASE CallCancelled(h, s) \/ CallWasPlaced(h, s)
  <2>1. PICK r : r = [call |-> Len(calls) + 1, flag |-> "connecting", retry |-> 1]
    OBVIOUS
  <2>2. \E w : responses' = [responses EXCEPT ![w] = Append(@, r)]
    BY <1>3, <1>5, <2>1 DEF CallCancelled, CallWasPlaced
  <2>3. r.flag = "accepted"
    BY <1>4, <2>2
  <2>4. QED
    BY <2>1, <2>3
<1>6. CASE VerdictGiven(h, s) \/ AcceptanceRecorded(h, s)
  <2>1. PICK d, f, r : /\ d = handlers[h].call /\ Respond(d, f)
                       /\ r = [call |-> d, flag |-> f, retry |-> RetryCount(d, f)]
                       /\ f = "accepted" => AcceptanceRecorded(h, s)
    BY <1>1, <1>6 DEF VerdictGiven, AcceptanceRecorded, Goes, HandlerShape
  <2>2. responses' = [responses EXCEPT ![calls[d].worker] = Append(@, r)]
    BY <2>1 DEF Respond
  <2>3. r.call = c /\ r.flag = "accepted"
    BY <1>4, <2>2
  <2>4. d = c /\ f = "accepted"
    BY <2>1, <2>3
  <2>5. QED
    BY <2>1, <2>4
<1>7. QED
  BY <1>3, <1>5, <1>6, Frames

\* Who has a call in hand got it from its phone line.
LEMMA HandStep ==
  ASSUME TypeOK, NEW h \in Slots, NEW s, StepOf(h, s), InHand(s)
  PROVE  \/ InHand(handlers[h]) /\ s.call = handlers[h].call
         \/ \E c \in DOMAIN calls : AcceptPressed(h, c, s) /\ s.call = c
<1>1. CASE \/ Assigned(h, s) \/ TaskCreated(h, s) \/ TaskSaved(h, s)
  BY <1>1 DEF Assigned, TaskCreated, TaskSaved, Goes, InHand, Taking
<1>2. CASE \E c \in DOMAIN calls : AcceptPressed(h, c, s)
  BY <1>2 DEF AcceptPressed, Goes, InHand, Taking
<1>3. CASE \/ StatusLoaded(h, s) \/ StatusInserted(h, s) \/ CallCancelled(h, s)
           \/ StatusSaved(h, s) \/ StatusLost(h, s)
  BY <1>3 DEF StatusLoaded, StatusInserted, CallCancelled, StatusSaved, StatusLost,
    Goes, AfterStatus, InHand, Taking
<1>4. CASE \/ SearchTaken(h, s) \/ WillingFound(h, s) \/ SearchSaved(h, s) \/ CallTaken(h, s)
           \/ NextLoaded(h, s) \/ NextChosen(h, s) \/ NextSaved(h, s) \/ CallWasPlaced(h, s)
           \/ VerdictGiven(h, s) \/ CancelAsked(h, s) \/ TasksWereCancelled(h, s)
           \/ UpdateTaken(h, s) \/ AcceptanceRecorded(h, s) \/ FollowedUp(h, s)
           \/ \E c \in jobs.discard : DiscardChecked(h, c, s)
  BY <1>4 DEF SearchTaken, WillingFound, SearchSaved, CallTaken, NextLoaded, NextChosen,
    NextSaved, CallWasPlaced, VerdictGiven, CancelAsked, TasksWereCancelled, UpdateTaken,
    AcceptanceRecorded, FollowedUp, DiscardChecked, Goes, InHand, Taking
<1>5. QED
  BY <1>1, <1>2, <1>3, <1>4 DEF StepOf

LEMMA PressedCloses ==
  ASSUME TypeOK, NEW h \in Slots, NEW s, NEW c \in DOMAIN calls, AcceptPressed(h, c, s)
  PROVE  calls[c].line # "closed" /\ calls'[c].line = "closed"
<1>1. calls[c] \in [worker : Workers, line : Lines]
  BY CallTyped
<1>2. QED
  BY <1>1 DEF AcceptPressed, TypeOK

\* A row that is new names no response.
LEMMA NewUnanswered ==
  ASSUME TypeOK, RowsExist, ShapeInv, NEW h \in Slots, NEW s, StepOf(h, s),
         NEW c \in DOMAIN calls', c \notin DOMAIN calls
  PROVE  ~HasFlag(c, "accepted")'
<1>1. (c \notin DOMAIN calls /\ CallCancelled(h, s)) \/ CallWasPlaced(h, s)
  <2>1. ASSUME NEW d \in DOMAIN calls, AcceptPressed(h, d, s) PROVE DOMAIN calls' = DOMAIN calls
    BY <2>1 DEF AcceptPressed
  <2>2. QED
    BY <2>1, Frames
<1>2. PICK r : r = [call |-> Len(calls) + 1, flag |-> "connecting", retry |-> 1]
  OBVIOUS
<1>3. PICK w \in Workers, l \in {"ringing", "closed"} :
         /\ calls' = Append(calls, [worker |-> w, line |-> l])
         /\ responses' = [responses EXCEPT ![w] = Append(@, r)]
  <2>1. CASE CallCancelled(h, s)
    BY <1>1, <1>2, <2>1 DEF CallCancelled
  <2>2. CASE CallWasPlaced(h, s)
    <3>1. handlers[h].worker \in Workers
      BY <2>2, HandlerNow DEF CallWasPlaced, Goes, HandlerRows
    <3>2. QED
      BY <1>1, <1>2, <2>2, <3>1 DEF CallWasPlaced
  <2>3. QED
    BY <1>1, <2>1, <2>2
<1>4. calls'[c].worker = w /\ c = Len(calls) + 1
  BY <1>3, PlacedKeeps DEF Lines
<1>5. ASSUME NEW i \in DOMAIN responses'[w], responses'[w][i].call = c
      PROVE  responses'[w][i].flag # "accepted"
  <2>1. responses[w] \in Seq([call : Nat, flag : Flags, retry : Nat])
    BY DEF TypeOK
  <2>2. responses'[w] = Append(responses[w], r)
    BY <1>3 DEF TypeOK
  <2>3. CASE i \in DOMAIN responses[w]
    <3>1. responses'[w][i] = responses[w][i]
      BY <2>1, <2>2, <2>3
    <3>2. QED
      BY <1>5, <2>3, <3>1 DEF ShapeInv, ResponsesOwned
  <2>4. CASE i \notin DOMAIN responses[w]
    <3>1. responses'[w][i] = r /\ r.flag = "connecting"
      BY <1>2, <2>1, <2>2, <2>4
    <3>2. QED
      BY <3>1
  <2>5. QED
    BY <2>3, <2>4
<1>6. QED
  BY <1>4, <1>5 DEF HasFlag, ResponsesOf

LEMMA StepLines ==
  ASSUME TypeOK, RowsExist, ShapeInv, LinesInv, CallsKept, NEW h \in Slots, NEW s, StepOf(h, s)
  PROVE  LinesInv'
<1>1. /\ handlers'[h] = s /\ \A k \in Slots \ {h} : handlers'[k] = handlers[k]
      /\ HandlerRows(handlers[h])
  BY Moved, HandlerNow
<1>2. ASSUME NEW c \in DOMAIN calls', HasFlag(c, "accepted")' PROVE calls'[c].line = "closed"
  <2>1. c \in DOMAIN calls
    BY <1>2, NewUnanswered
  <2>2. CASE HasFlag(c, "accepted")
    BY <2>1, <2>2 DEF LinesInv, CallsKept
  <2>3. CASE ~HasFlag(c, "accepted")
    <3>1. InHand(handlers[h]) /\ handlers[h].call = c
      BY <1>2, <2>1, <2>3, AcceptedOnly DEF AcceptanceRecorded, Goes, InHand, Taking
    <3>2. QED
      BY <2>1, <3>1 DEF LinesInv, CallsKept
  <2>4. QED
    BY <2>2, <2>3
<1>3. ASSUME NEW k \in Slots, InHand(handlers'[k]) PROVE calls'[handlers'[k].call].line = "closed"
  <2>1. ASSUME NEW j \in Slots, InHand(handlers[j])
        PROVE  calls'[handlers[j].call].line = "closed"
    <3>1. handlers[j].call \in DOMAIN calls
      BY <2>1, HandlerNow DEF InHand, Taking, HandlerRows
    <3>2. QED
      BY <2>1, <3>1 DEF LinesInv, CallsKept
  <2>2. CASE k # h
    BY <1>1, <1>3, <2>1, <2>2
  <2>3. CASE k = h
    <3>1. CASE InHand(handlers[h]) /\ s.call = handlers[h].call
      BY <1>1, <2>1, <2>3, <3>1
    <3>2. CASE \E c \in DOMAIN calls : AcceptPressed(h, c, s) /\ s.call = c
      BY <1>1, <2>3, <3>2, PressedCloses
    <3>3. QED
      BY <1>1, <1>3, <2>3, <3>1, <3>2, HandStep
  <2>4. QED
    BY <2>2, <2>3
<1>4. \A k \in Slots : InHand(handlers[k])' <=> InHand(handlers'[k])
  BY DEF InHand, Taking
<1>5. QED
  BY <1>2, <1>3, <1>4 DEF LinesInv

\* Picking up and rejecting accept nothing.
LEMMA PhoneUnanswered ==
  ASSUME TypeOK, NEW c \in DOMAIN calls, ReceiveCall(c) \/ RejectOrder(c),
         NEW d \in DOMAIN calls, HasFlag(d, "accepted")'
  PROVE  HasFlag(d, "accepted")
<1>1. calls'[d].worker = calls[d].worker
  BY LineKeeps DEF ReceiveCall, RejectOrder, Lines
<1>2. CASE UNCHANGED responses
  BY <1>1, <1>2 DEF HasFlag, ResponsesOf
<1>3. CASE ~UNCHANGED responses
  <2>1. PICK w \in Workers : w = calls[d].worker
    BY CallTyped
  <2>2. PICK f, r : /\ f # "accepted" /\ Respond(c, f)
                    /\ r = [call |-> c, flag |-> f, retry |-> RetryCount(c, f)]
    BY <1>3 DEF ReceiveCall, RejectOrder
  <2>3. r.flag # "accepted" /\ responses' = [responses EXCEPT ![calls[c].worker] = Append(@, r)]
    BY <2>2 DEF Respond
  <2>4. responses'[w] \in {responses[w], Append(responses[w], r)}
    BY <2>3 DEF TypeOK
  <2>5. QED
    BY <1>1, <2>1, <2>3, <2>4, FlagBack
<1>4. QED
  BY <1>2, <1>3

LEMMA PhoneLines ==
  ASSUME TypeOK, RowsExist, LinesInv, CallsKept, NEW c \in DOMAIN calls,
         ReceiveCall(c) \/ RejectOrder(c)
  PROVE  LinesInv'
<1>1. /\ DOMAIN calls' = DOMAIN calls /\ UNCHANGED handlers
      /\ \A d \in DOMAIN calls : calls'[d].worker = calls[d].worker
  BY LineKeeps DEF ReceiveCall, RejectOrder, Lines
<1>2. \A d \in DOMAIN calls : HasFlag(d, "accepted")' => HasFlag(d, "accepted")
  BY PhoneUnanswered
<1>3. \A d \in DOMAIN calls' : HasFlag(d, "accepted")' => calls'[d].line = "closed"
  BY <1>1, <1>2 DEF LinesInv, CallsKept
<1>4. ASSUME NEW k \in Slots, InHand(handlers[k]) PROVE calls'[handlers[k].call].line = "closed"
  <2>1. handlers[k].call \in DOMAIN calls
    BY <1>4, HandlerNow DEF InHand, Taking, HandlerRows
  <2>2. QED
    BY <1>4, <2>1 DEF LinesInv, CallsKept
<1>5. QED
  BY <1>1, <1>3, <1>4 DEF LinesInv, InHand, Taking

\* A refused call stays so: the agreement, once lost, is lost.
LEMMA StepAgreed ==
  ASSUME TypeOK, RowsExist, ShapeInv, LinesInv, CallsKept, ResponsesKept,
         NEW h \in Slots, NEW s, StepOf(h, s), Agreed'
  PROVE  Agreed
<1>1. /\ handlers'[h] = s /\ \A k \in Slots \ {h} : handlers'[k] = handlers[k]
  BY Moved
<1>2. cancels = 0
  BY CancelStep DEF Agreed
<1>3. ASSUME NEW c \in DOMAIN calls, Denied(c) PROVE FALSE
  <2>1. c \in DOMAIN calls' /\ calls'[c].line = "closed" /\ HasFlag(c, "rejected")'
    BY <1>3, FlagsKept DEF Denied, Refused, CallsKept
  <2>2. ~HasFlag(c, "accepted")'
    <3>1. ASSUME HasFlag(c, "accepted")' PROVE InHand(handlers[h]) /\ handlers[h].call = c
      BY <1>3, <3>1, AcceptedOnly DEF Denied, Refused, AcceptanceRecorded, Goes, InHand, Taking
    <3>2. QED
      BY <1>3, <3>1 DEF Denied
  <2>3. ASSUME InHand(s), s.call = c PROVE FALSE
    <3>1. ASSUME AcceptPressed(h, c, s) PROVE FALSE
      BY <1>3, <3>1, PressedCloses DEF Denied, Refused
    <3>2. QED
      BY <1>3, <2>3, <3>1, HandStep DEF Denied
  <2>4. \A k \in Slots : ~(InHand(handlers'[k]) /\ handlers'[k].call = c)
    BY <1>1, <1>3, <2>3 DEF Denied
  <2>5. Denied(c)'
    BY <2>1, <2>2, <2>4 DEF Denied, Refused, InHand, Taking
  <2>6. QED
    BY <2>1, <2>5 DEF Agreed
<1>4. QED
  BY <1>2, <1>3 DEF Agreed

\* A pressed reject that calls the next worker ends the agreement.
LEMMA PhoneAgreed ==
  ASSUME TypeOK, RowsExist, LinesInv, CallsKept, ResponsesKept, NEW c \in DOMAIN calls,
         ReceiveCall(c) \/ RejectOrder(c), Agreed'
  PROVE  Agreed /\ UNCHANGED jobs
<1>1. /\ DOMAIN calls' = DOMAIN calls /\ UNCHANGED <<rest, handlers>>
      /\ \A d \in DOMAIN calls : calls'[d].worker = calls[d].worker
  BY LineKeeps DEF ReceiveCall, RejectOrder, Lines
<1>2. ASSUME NEW d \in DOMAIN calls, Denied(d) PROVE FALSE
  <2>1. d \in DOMAIN calls' /\ calls'[d].line = "closed" /\ HasFlag(d, "rejected")'
    BY <1>2, FlagsKept DEF Denied, Refused, CallsKept
  <2>2. ~HasFlag(d, "accepted")'
    BY <1>2, PhoneUnanswered DEF Denied, Refused
  <2>3. Denied(d)'
    BY <1>1, <1>2, <2>1, <2>2 DEF Denied, Refused, InHand, Taking
  <2>4. QED
    BY <2>1, <2>3 DEF Agreed
<1>3. ASSUME ~UNCHANGED jobs PROVE FALSE
  <2>1. /\ calls[c].line = "talking" /\ calls' = [calls EXCEPT ![c].line = "closed"]
        /\ Respond(c, "rejected")
    BY <1>3 DEF ReceiveCall, RejectOrder
  <2>2. calls'[c].line = "closed" /\ HasFlag(c, "rejected")'
    BY <1>1, <2>1, LineKeeps, FlagGiven DEF Lines
  <2>3. ~HasFlag(c, "accepted")'
    BY <2>1, PhoneUnanswered DEF LinesInv
  <2>4. \A k \in Slots : ~(InHand(handlers[k]) /\ handlers[k].call = c)
    BY <2>1 DEF LinesInv
  <2>5. Denied(c)'
    BY <1>1, <2>2, <2>3, <2>4 DEF Denied, Refused, InHand, Taking
  <2>6. QED
    BY <1>1, <2>5 DEF Agreed
<1>4. cancels = 0
  BY <1>1 DEF Agreed, rest
<1>5. QED
  BY <1>2, <1>3, <1>4 DEF Agreed

(***************************************************************************)
(* One chain of calls, which may end in a failure.                         *)
(***************************************************************************)
BusyOnes == {h \in Slots : Busy(handlers[h])}

OneBusy == Agreed => Queued(jobs) + Cardinality(BusyOnes) <= 1

\* A search fails in the hands of the chain.
LEMMA FailsBusy ==
  ASSUME NEW h \in Slots, NEW s, StepOf(h, s), AtStatus(s), s.status = "failed"
  PROVE  UNCHANGED jobs /\ Busy(handlers[h])
<1>1. CASE s = handlers[h]
  <2>1. handlers[h].at = "idle"
    BY <1>1 DEF StepOf, StatusLoaded, StatusInserted, CallCancelled, StatusSaved, StatusLost,
      SearchTaken, WillingFound, SearchSaved, CallTaken, NextLoaded, NextChosen, NextSaved,
      CallWasPlaced, DiscardChecked, VerdictGiven, Assigned, UpdateTaken, TaskCreated,
      TaskSaved, AcceptanceRecorded, FollowedUp, CancelAsked, TasksWereCancelled,
      AcceptPressed, Goes, AfterStatus
  <2>2. QED
    BY <1>1, <2>1 DEF AtStatus
<1>2. CASE StatusLoaded(h, s) \/ StatusInserted(h, s)
  BY <1>2 DEF StatusLoaded, StatusInserted, Goes, AtStatus, Busy
<1>3. CASE NextLoaded(h, s) \/ WillingFound(h, s)
  BY <1>3 DEF NextLoaded, WillingFound, Goes, AtStatus, Busy, Chaining
<1>4. QED
  BY <1>1, <1>2, <1>3
  DEF StepOf, CallCancelled, StatusSaved, StatusLost, SearchTaken, SearchSaved, CallTaken,
      NextChosen, NextSaved, CallWasPlaced, DiscardChecked, VerdictGiven, Assigned,
      UpdateTaken, TaskCreated, TaskSaved, AcceptanceRecorded, FollowedUp, CancelAsked,
      TasksWereCancelled, AcceptPressed, Goes, AtStatus, AfterStatus

LEMMA QueuedNat ==
  ASSUME TypeOK, RowsExist
  PROVE  Queued(jobs) \in Nat
<1>1. jobs \in Jobs
  BY DEF TypeOK, Jobs
<1>2. Cardinality(jobs.discard) \in Nat
  BY DiscardFinite
<1>3. QED
  BY <1>1, <1>2 DEF Queued, Jobs

LEMMA StepBusy ==
  ASSUME TypeOK, RowsExist, NEW h \in Slots, NEW s, StepOf(h, s)
  PROVE  /\ Queued(jobs) \in Nat /\ Queued(jobs') \in Nat
         /\ Queued(jobs') + Weight(s) <= Queued(jobs) + Weight(handlers[h])
<1>1. Queued(jobs) \in Nat
  BY QueuedNat
<1>2. QED
  BY <1>1, StepChains

LEMMA NextBusy ==
  ASSUME TypeOK, RowsExist, ShapeInv, LinesInv, OneBusy, [Next]_vars, UNCHANGED ends
  PROVE  OneBusy'
<1>1. CallsKept /\ ResponsesKept
  BY HistoryKept
<1>2. SUFFICES ASSUME Agreed' PROVE Queued(jobs') + Cardinality(BusyOnes') <= 1
  BY DEF OneBusy, Queued
<1>3. ASSUME NEW h \in Slots, NEW s, StepOf(h, s)
      PROVE  Queued(jobs') + Cardinality(BusyOnes') <= 1
  <2>1. Queued(jobs) + Cardinality(BusyOnes) <= 1
    BY <1>1, <1>2, <1>3, StepAgreed DEF OneBusy
  <2>2. handlers'[h] = s /\ \A k \in Slots \ {h} : handlers'[k] = handlers[k]
    BY <1>3, Moved
  <2>3. /\ BusyOnes \ {h} = BusyOnes' \ {h}
        /\ h \in BusyOnes <=> Busy(handlers[h])
        /\ h \in BusyOnes' <=> Busy(s)
        /\ BusyOnes \subseteq Slots /\ BusyOnes' \subseteq Slots
    BY <2>2 DEF BusyOnes, Busy, Chaining, AtStatus
  <2>4. /\ Cardinality(BusyOnes) \in Nat /\ Cardinality(BusyOnes') \in Nat
        /\ Cardinality(BusyOnes) + Weight(s) = Cardinality(BusyOnes') + Weight(handlers[h])
    BY <2>3, CountStep DEF Weight
  <2>5. /\ Queued(jobs) \in Nat /\ Queued(jobs') \in Nat
        /\ Queued(jobs') + Weight(s) <= Queued(jobs) + Weight(handlers[h])
    BY <1>3, StepBusy
  <2>6. Weight(s) \in {0, 1} /\ Weight(handlers[h]) \in {0, 1}
    BY DEF Weight
  <2>7. QED
    BY <2>1, <2>4, <2>5, <2>6
<1>4. ASSUME Agreed, UNCHANGED <<jobs, handlers>>
      PROVE  Queued(jobs') + Cardinality(BusyOnes') <= 1
  <2>1. BusyOnes' = BusyOnes
    BY <1>4 DEF BusyOnes, Busy, Chaining, AtStatus
  <2>2. QED
    BY <1>4, <2>1 DEF OneBusy
<1>5. ASSUME NEW c \in DOMAIN calls, ReceiveCall(c) \/ RejectOrder(c)
      PROVE  Queued(jobs') + Cardinality(BusyOnes') <= 1
  <2>1. Agreed /\ UNCHANGED jobs
    BY <1>1, <1>2, <1>5, PhoneAgreed
  <2>2. UNCHANGED handlers
    BY <1>5 DEF ReceiveCall, RejectOrder
  <2>3. QED
    BY <1>4, <2>1, <2>2
<1>6. CASE UNCHANGED vars
  <2>1. Agreed
    BY <1>2, <1>6 DEF vars, db, rest, Agreed, Denied, Refused, HasFlag, ResponsesOf, InHand, Taking
  <2>2. QED
    BY <1>4, <1>6, <2>1 DEF vars
<1>7. QED
  BY <1>3, <1>5, <1>6, Steps

LEMMA NoTwoBusy ==
  ASSUME TypeOK, RowsExist, OneBusy, Agreed, NEW h \in Slots, NEW k \in Slots,
         Busy(handlers[h]), Busy(handlers[k])
  PROVE  h = k
<1>1. IsFiniteSet(BusyOnes) /\ Cardinality(BusyOnes) \in Nat /\ {h, k} \subseteq BusyOnes
  BY BoundsAssumption, FS_Subset, FS_CardinalityType DEF BusyOnes
<1>2. Queued(jobs) \in Nat
  BY QueuedNat
<1>3. Cardinality(BusyOnes) <= 1
  BY <1>1, <1>2 DEF OneBusy
<1>4. ASSUME h # k PROVE FALSE
  <2>1. IsFiniteSet({h}) /\ Cardinality({h}) = 1
    BY FS_Singleton
  <2>2. Cardinality({h} \cup {k}) = 2
    BY <1>4, <2>1, FS_AddElement
  <2>3. Cardinality({h} \cup {k}) <= Cardinality(BusyOnes)
    BY <1>1, FS_Subset
  <2>4. QED
    BY <1>1, <1>3, <2>2, <2>3
<1>5. QED
  BY <1>4

(***************************************************************************)
(* Until a worker is assigned the order and every copy of it hold every    *)
(* call.                                                                   *)
(***************************************************************************)
\* What a copy of the order is taken from.
LEMMA SnapStep ==
  ASSUME TypeOK, NEW h \in Slots, NEW s, StepOf(h, s), Copies(s)
  PROVE  \/ s.snap.calls = order.calls /\ s.snap.workers = order.workers
         \/ /\ Copies(handlers[h])
            /\ s.snap.calls = handlers[h].snap.calls /\ s.snap.workers = handlers[h].snap.workers
<1>1. order \in OrderRow /\ handlers[h].snap \in OrderRow
  BY DEF TypeOK, Handler
<1>2. CASE s = handlers[h]
  BY <1>2
<1>3. CASE StatusLoaded(h, s) \/ UpdateTaken(h, s) \/ NextLoaded(h, s)
  BY <1>3 DEF StatusLoaded, UpdateTaken, NextLoaded, Goes, Copies, HasSnap, Holding
<1>4. CASE StatusInserted(h, s) \/ NextChosen(h, s)
  BY <1>1, <1>4 DEF StatusInserted, NextChosen, Goes, Copies, HasSnap, Holding, OrderRow
<1>5. CASE WillingFound(h, s)
  BY <1>1, <1>5 DEF WillingFound, Goes, Copies, HasSnap, Holding, OrderRow
<1>6. QED
  BY <1>2, <1>3, <1>4, <1>5
  DEF StepOf, CallCancelled, StatusSaved, StatusLost, SearchTaken, SearchSaved, CallTaken,
      NextSaved, CallWasPlaced, DiscardChecked, VerdictGiven, Assigned, TaskCreated, TaskSaved,
      AcceptanceRecorded, FollowedUp, CancelAsked, TasksWereCancelled, AcceptPressed, Goes,
      AfterStatus, Copies, HasSnap, Holding

\* Rows join the order, or a copy that holds all its workers is saved.
LEMMA OrderStep ==
  ASSUME TypeOK, NEW h \in Slots, NEW s, StepOf(h, s)
  PROVE  /\ order.workers \subseteq order'.workers
         /\ \/ order.calls \subseteq order'.calls
            \/ /\ Copies(handlers[h]) /\ CanSave(handlers[h].snap)
               /\ order'.calls = handlers[h].snap.calls
<1>1. order \in OrderRow /\ handlers[h].snap \in OrderRow
  BY DEF TypeOK, Handler
<1>2. CASE StatusInserted(h, s)
  BY <1>1, <1>2 DEF StatusInserted, OrderRow
<1>3. CASE Assigned(h, s)
  BY <1>1, <1>3 DEF Assigned, OrderRow
<1>4. CASE StatusSaved(h, s)
  BY <1>1, <1>4 DEF StatusSaved, Goes, Save, CanSave, Copies, HasSnap
<1>5. CASE \/ SearchSaved(h, s) /\ CanSave(handlers[h].snap)
           \/ NextSaved(h, s) /\ CanSave(handlers[h].snap)
  BY <1>1, <1>5 DEF SearchSaved, NextSaved, Goes, CanSave, Copies, HasSnap, Holding, OrderRow
<1>6. CASE ~Assigned(h, s) /\ order'.workers = order.workers /\ order.calls \subseteq order'.calls
  BY <1>6
<1>7. QED
  BY <1>2, <1>3, <1>4, <1>5, <1>6, OrderFrames

\* The customer is told of a worker when one is assigned, and of none before.
NotServed == orderWorkers = << >> => "served" \notin notices

LEMMA StepNotServed ==
  ASSUME TypeOK, NotServed, NEW h \in Slots, NEW s, StepOf(h, s)
  PROVE  NotServed' /\ (orderWorkers' = << >> => orderWorkers = << >>)
<1>1. CASE Assigned(h, s) /\ ~UNCHANGED orderWorkers
  <2>1. orderWorkers' # << >>
    BY <1>1 DEF Assigned, TypeOK
  <2>2. QED
    BY <2>1 DEF NotServed
<1>2. CASE UNCHANGED orderWorkers
  <2>1. CASE UNCHANGED notices
    BY <1>2, <2>1 DEF NotServed
  <2>2. CASE StatusSaved(h, s) \/ NextLoaded(h, s)
    <3>1. "served" \in notices' => "served" \in notices
      BY <2>2 DEF StatusSaved, NextLoaded, Notify
    <3>2. QED
      BY <1>2, <3>1 DEF NotServed
  <2>3. CASE Assigned(h, s)
    <3>1. UNCHANGED notices
      BY <1>2, <2>3 DEF Assigned, TypeOK
    <3>2. QED
      BY <2>1, <3>1
  <2>4. QED
    BY <2>1, <2>2, <2>3
    DEF StepOf, StatusLoaded, StatusInserted, CallCancelled, StatusLost, SearchTaken,
        WillingFound, SearchSaved, CallTaken, NextChosen, NextSaved, CallWasPlaced,
        DiscardChecked, VerdictGiven, UpdateTaken, TaskCreated, TaskSaved, AcceptanceRecorded,
        FollowedUp, CancelAsked, TasksWereCancelled, AcceptPressed, rest
<1>3. QED
  BY <1>1, <1>2, Frames

LinkedInv ==
  Agreed /\ orderWorkers = << >> =>
    /\ order.calls = DOMAIN calls
    /\ \A h \in Slots : Copies(handlers[h]) => handlers[h].snap.calls = DOMAIN calls

LEMMA StepLinked ==
  ASSUME TypeOK, RowsExist, RowsExist', ShapeInv, EndInv, LinesInv, OneBusy, NotServed, LinkedInv,
         CallsKept, ResponsesKept, NEW h \in Slots, NEW s, StepOf(h, s)
  PROVE  LinkedInv'
<1>1. SUFFICES ASSUME Agreed', orderWorkers' = << >>
               PROVE  /\ order'.calls = DOMAIN calls'
                      /\ \A k \in Slots : Copies(handlers'[k]) =>
                                          handlers'[k].snap.calls = DOMAIN calls'
  BY DEF LinkedInv, Copies, HasSnap, Holding
<1>2. Agreed /\ orderWorkers = << >>
  BY <1>1, StepAgreed, StepNotServed
<1>3. /\ handlers'[h] = s /\ \A k \in Slots \ {h} : handlers'[k] = handlers[k]
  BY Moved
<1>4. order.calls = DOMAIN calls /\
      \A k \in Slots : Copies(handlers[k]) => handlers[k].snap.calls = DOMAIN calls
  BY <1>2 DEF LinkedInv
<1>5. CASE UNCHANGED DOMAIN calls
  <2>1. order'.calls \subseteq DOMAIN calls'
    BY DEF RowsExist, RowsOf
  <2>2. order'.calls = DOMAIN calls'
    BY <1>4, <1>5, <2>1, OrderStep
  <2>3. Copies(s) => s.snap.calls = DOMAIN calls
    BY <1>4, SnapStep
  <2>4. QED
    BY <1>3, <1>4, <1>5, <2>2, <2>3
<1>6. CASE CallWasPlaced(h, s) /\ ~UNCHANGED DOMAIN calls
  <2>1. handlers[h].worker \in Workers
    BY <1>6, HandlerNow DEF CallWasPlaced, Goes, HandlerRows
  <2>2. PICK r : /\ calls' = Append(calls, [worker |-> handlers[h].worker, line |-> "ringing"])
                 /\ responses' = [responses EXCEPT ![handlers[h].worker] = Append(@, r)]
                 /\ order' = [order EXCEPT !.calls = @ \cup {Len(calls) + 1}]
    BY <1>6 DEF CallWasPlaced
  <2>3. DOMAIN calls' = DOMAIN calls \cup {Len(calls) + 1}
    BY <2>1, <2>2, PlacedKeeps DEF Lines
  <2>4. order'.calls = order.calls \cup {Len(calls) + 1}
    BY <2>2 DEF TypeOK, OrderRow
  <2>5. ~Copies(s)
    BY <1>6 DEF CallWasPlaced, Goes, Copies, HasSnap, Holding
  <2>6. ASSUME NEW k \in Slots \ {h}, Copies(handlers[k]) PROVE FALSE
    <3>1. Unserved(handlers[k]) /\ NotCancelling(handlers[k]) /\ HandlerShape(handlers[k])
          /\ handlers[k] \in Handler
      BY <1>2, HandlerNow DEF NotServed, EndInv, Untold, Uncancelled, ShapeInv, Agreed
    <3>2. Busy(handlers[k])
      BY <2>6, <3>1 DEF Unserved, NotCancelling, HandlerShape, Busy, Chaining, AtStatus, Copies,
        HasSnap, Holding, Handler, Statuses
    <3>3. Busy(handlers[h])
      BY <1>6 DEF CallWasPlaced, Goes, Busy, Chaining, AtStatus
    <3>4. QED
      BY <1>2, <3>2, <3>3, NoTwoBusy
  <2>7. QED
    BY <1>3, <1>4, <2>3, <2>4, <2>5, <2>6
<1>7. CASE CallCancelled(h, s)
  <2>1. NotCancelling(handlers[h])
    BY <1>2 DEF EndInv, Uncancelled, Agreed
  <2>2. QED
    BY <1>7, <2>1 DEF CallCancelled, Goes, NotCancelling
<1>8. ASSUME NEW c \in DOMAIN calls, AcceptPressed(h, c, s) PROVE UNCHANGED DOMAIN calls
  BY <1>8 DEF AcceptPressed
<1>9. QED
  BY <1>5, <1>6, <1>7, <1>8, Frames

(***************************************************************************)
(* From the first assignment on, the call of that worker stays linked      *)
(* until her follow-up call is queued.                                     *)
(***************************************************************************)
Promised(c) ==
  /\ c \in order.calls
  /\ \A h \in Slots : Copies(handlers[h]) /\ CanSave(handlers[h].snap) => c \in handlers[h].snap.calls
  /\ \/ \E h \in Slots : Taking(handlers[h]) /\ handlers[h].call = c
     \/ HasFlag(c, "accepted") /\ \E h \in Slots : handlers[h].at = "follow_up"

EtaInv ==
  Agreed /\ orderWorkers # << >> =>
    "eta50" \in jobs.followUps \/ \E c \in DOMAIN calls : Promised(c)

LEMMA FollowUpsKept ==
  ASSUME TypeOK, NEW h \in Slots, NEW s, StepOf(h, s)
  PROVE  jobs.followUps \subseteq jobs'.followUps
<1>1. jobs \in Jobs
  BY DEF TypeOK, Jobs
<1>2. CASE \/ SearchTaken(h, s) \/ SearchSaved(h, s) \/ CallTaken(h, s) \/ CallWasPlaced(h, s)
           \/ VerdictGiven(h, s) \/ TaskSaved(h, s) \/ FollowedUp(h, s)
           \/ \E c \in jobs.discard : DiscardChecked(h, c, s)
  BY <1>1, <1>2 DEF SearchTaken, SearchSaved, CallTaken, CallWasPlaced, VerdictGiven, TaskSaved,
    FollowedUp, DiscardChecked, Jobs
<1>3. CASE UNCHANGED jobs
  BY <1>3
<1>4. QED
  BY <1>2, <1>3 DEF StepOf, StatusLoaded, StatusInserted, CallCancelled, StatusSaved, StatusLost,
    WillingFound, NextLoaded, NextChosen, NextSaved, Assigned, UpdateTaken, TaskCreated,
    AcceptanceRecorded, CancelAsked, TasksWereCancelled, AcceptPressed

\* Every copy that can be saved after a step holds the call, if it did before.
LEMMA CopiesPromised ==
  ASSUME TypeOK, NEW h \in Slots, NEW s, StepOf(h, s), NEW c, c \in order.calls,
         \A k \in Slots :
           Copies(handlers[k]) /\ CanSave(handlers[k].snap) => c \in handlers[k].snap.calls
  PROVE  /\ c \in order'.calls
         /\ \A k \in Slots :
              Copies(handlers'[k]) /\ order'.workers \subseteq handlers'[k].snap.workers =>
                c \in handlers'[k].snap.calls
<1>1. handlers'[h] = s /\ \A k \in Slots \ {h} : handlers'[k] = handlers[k]
  BY Moved
<1>2. c \in order'.calls /\ order.workers \subseteq order'.workers
  BY OrderStep
<1>3. ASSUME NEW k \in Slots, Copies(handlers'[k]), order'.workers \subseteq handlers'[k].snap.workers
      PROVE  c \in handlers'[k].snap.calls
  <2>1. CASE k # h
    BY <1>1, <1>2, <1>3, <2>1 DEF CanSave
  <2>2. CASE k = h
    BY <1>1, <1>2, <1>3, <2>2, SnapStep DEF CanSave
  <2>3. QED
    BY <2>1, <2>2
<1>4. QED
  BY <1>2, <1>3

\* The promise is kept until the follow-up call is queued.
LEMMA PromiseKept ==
  ASSUME TypeOK, RowsExist, CallsKept, ResponsesKept, Package = "instant",
         NEW h \in Slots, NEW s, StepOf(h, s), NEW c \in DOMAIN calls, Promised(c)
  PROVE  c \in DOMAIN calls' /\ ("eta50" \in jobs'.followUps \/ Promised(c)')
<1>1. handlers'[h] = s /\ \A k \in Slots \ {h} : handlers'[k] = handlers[k]
  BY Moved
<1>2. /\ c \in DOMAIN calls'
      /\ c \in order'.calls
      /\ \A k \in Slots : Copies(handlers'[k]) /\ order'.workers \subseteq handlers'[k].snap.workers =>
                            c \in handlers'[k].snap.calls
  BY CopiesPromised DEF Promised, CallsKept
<1>3. SUFFICES ASSUME "eta50" \notin jobs'.followUps
               PROVE  \/ \E k \in Slots : Taking(handlers'[k]) /\ handlers'[k].call = c
                      \/ HasFlag(c, "accepted")' /\ \E k \in Slots : handlers'[k].at = "follow_up"
  BY <1>2 DEF Promised, Copies, HasSnap, Holding, CanSave, Taking
<1>4. ASSUME NEW k \in Slots, Taking(handlers[k]), handlers[k].call = c
      PROVE  \/ Taking(handlers'[k]) /\ handlers'[k].call = c
             \/ HasFlag(c, "accepted")' /\ handlers'[k].at = "follow_up"
  <2>1. CASE k # h
    BY <1>1, <1>4, <2>1
  <2>2. CASE k = h /\ AcceptanceRecorded(h, s)
    <3>1. Respond(c, "accepted") /\ s.at = "follow_up"
      BY <1>4, <2>2 DEF AcceptanceRecorded, Goes
    <3>2. HasFlag(c, "accepted")'
      BY <3>1, FlagGiven DEF CallsKept
    <3>3. QED
      BY <1>1, <2>2, <3>1, <3>2
  <2>3. CASE k = h /\ (TaskCreated(h, s) \/ TaskSaved(h, s))
    BY <1>1, <1>4, <2>3 DEF TaskCreated, TaskSaved, Goes, Taking
  <2>4. CASE k = h /\ ~TaskCreated(h, s) /\ ~TaskSaved(h, s) /\ ~AcceptanceRecorded(h, s)
    BY <1>4, <2>4 DEF Taking, StepOf, StatusLoaded, StatusInserted, CallCancelled, StatusSaved,
      StatusLost, SearchTaken, WillingFound, SearchSaved, CallTaken, NextLoaded, NextChosen,
      NextSaved, CallWasPlaced, DiscardChecked, VerdictGiven, Assigned, UpdateTaken,
      FollowedUp, CancelAsked, TasksWereCancelled, AcceptPressed, Goes
  <2>5. QED
    BY <2>1, <2>2, <2>3, <2>4
<1>5. ASSUME HasFlag(c, "accepted"), NEW k \in Slots, handlers[k].at = "follow_up"
      PROVE  HasFlag(c, "accepted")' /\ handlers'[k].at = "follow_up"
  <2>1. HasFlag(c, "accepted")'
    BY <1>5, FlagsKept
  <2>2. CASE k # h
    BY <1>1, <1>5, <2>1, <2>2
  <2>3. CASE k = h /\ FollowedUp(h, s)
    <3>1. AcceptedBy(order) # {}
      BY <1>5 DEF Promised, AcceptedBy
    <3>2. QED
      BY <1>3, <2>3, <3>1 DEF FollowedUp
  <2>4. CASE k = h /\ ~FollowedUp(h, s)
    BY <1>5, <2>4 DEF StepOf, StatusLoaded, StatusInserted, CallCancelled, StatusSaved,
      StatusLost, SearchTaken, WillingFound, SearchSaved, CallTaken, NextLoaded, NextChosen,
      NextSaved, CallWasPlaced, DiscardChecked, VerdictGiven, Assigned, UpdateTaken, TaskCreated,
      TaskSaved, AcceptanceRecorded, CancelAsked, TasksWereCancelled, AcceptPressed, Goes
  <2>5. QED
    BY <2>2, <2>3, <2>4
<1>6. QED
  BY <1>4, <1>5 DEF Promised

LEMMA StepEta ==
  ASSUME TypeOK, RowsExist, ShapeInv, LinesInv, LinkedInv, EtaInv, CallsKept, ResponsesKept,
         Package = "instant", NEW h \in Slots, NEW s, StepOf(h, s)
  PROVE  EtaInv'
<1>1. SUFFICES ASSUME Agreed', orderWorkers' # << >>
               PROVE  "eta50" \in jobs'.followUps \/ \E c \in DOMAIN calls' : Promised(c)'
  BY DEF EtaInv
<1>2. Agreed
  BY <1>1, StepAgreed
<1>3. CASE orderWorkers # << >>
  BY <1>2, <1>3, PromiseKept, FollowUpsKept DEF EtaInv
<1>4. CASE orderWorkers = << >>
  <2>1. Assigned(h, s) /\ ~UNCHANGED orderWorkers
    BY <1>1, <1>4, Frames
  <2>2. PICK c : c = handlers[h].call
    OBVIOUS
  <2>3. c \in DOMAIN calls /\ s.at = "task1" /\ s.call = c
    BY <2>1, <2>2, HandlerNow DEF Assigned, Goes, HandlerRows
  <2>4. c \in order.calls /\ \A k \in Slots : Copies(handlers[k]) => c \in handlers[k].snap.calls
    BY <1>2, <1>4, <2>3 DEF LinkedInv
  <2>5. handlers'[h] = s /\ Taking(s)
    BY <2>3, Moved DEF Taking
  <2>6. c \in DOMAIN calls'
    BY <2>3 DEF CallsKept
  <2>7. Promised(c)'
    BY <2>3, <2>4, <2>5, CopiesPromised DEF Promised, Copies, HasSnap, Holding, CanSave, Taking
  <2>8. QED
    BY <2>6, <2>7
<1>5. QED
  BY <1>3, <1>4

\* The first task has its confirmation call, or is about to.
ConfirmInv ==
  tasks # << >> =>
    "confirmation" \in jobs.followUps \/ \E h \in Slots : handlers[h].at \in {"task2", "task3"}

LEMMA StepConfirm ==
  ASSUME TypeOK, ConfirmInv, Package = "instant", NEW h \in Slots, NEW s, StepOf(h, s)
  PROVE  ConfirmInv'
<1>1. handlers'[h] = s /\ \A k \in Slots \ {h} : handlers'[k] = handlers[k]
  BY Moved
<1>2. CASE TaskCreated(h, s)
  BY <1>1, <1>2 DEF TaskCreated, Goes, ConfirmInv
<1>3. CASE TaskSaved(h, s)
  <2>1. CASE s.at = "task3"
    BY <1>1, <2>1 DEF ConfirmInv
  <2>2. CASE handlers[h].at = "task3"
    BY <1>3, <2>2 DEF TaskSaved, ConfirmInv, TypeOK
  <2>3. QED
    BY <1>3, <2>1, <2>2 DEF TaskSaved, Goes
<1>4. CASE ~TaskCreated(h, s) /\ ~TaskSaved(h, s)
  <2>1. tasks' # << >> => tasks # << >>
    <3>1. CASE UNCHANGED tasks
      BY <3>1
    <3>2. CASE TasksWereCancelled(h, s)
      BY <3>2 DEF TasksWereCancelled, TypeOK
    <3>3. QED
      BY <1>4, <3>1, <3>2 DEF StepOf, StatusLoaded, StatusInserted, CallCancelled, StatusSaved,
        StatusLost, SearchTaken, WillingFound, SearchSaved, CallTaken, NextLoaded, NextChosen,
        NextSaved, CallWasPlaced, DiscardChecked, VerdictGiven, Assigned, UpdateTaken,
        AcceptanceRecorded, FollowedUp, CancelAsked, AcceptPressed, db
  <2>2. handlers[h].at \notin {"task2", "task3"}
    BY <1>4 DEF StepOf, StatusLoaded, StatusInserted, CallCancelled, StatusSaved,
        StatusLost, SearchTaken, WillingFound, SearchSaved, CallTaken, NextLoaded, NextChosen,
        NextSaved, CallWasPlaced, DiscardChecked, VerdictGiven, Assigned, UpdateTaken,
        AcceptanceRecorded, FollowedUp, CancelAsked, TasksWereCancelled, AcceptPressed, Goes
  <2>3. jobs.followUps \subseteq jobs'.followUps
    BY FollowUpsKept
  <2>4. QED
    BY <1>1, <2>1, <2>2, <2>3 DEF ConfirmInv
<1>5. QED
  BY <1>2, <1>3, <1>4

FollowInv == LinesInv /\ OneBusy /\ NotServed /\ LinkedInv /\ EtaInv /\ ConfirmInv

LEMMA PhoneFollow ==
  ASSUME TypeOK, RowsExist, FollowInv, CallsKept, ResponsesKept, NEW c \in DOMAIN calls,
         ReceiveCall(c) \/ RejectOrder(c)
  PROVE  NotServed' /\ LinkedInv' /\ EtaInv' /\ ConfirmInv'
<1>1. /\ DOMAIN calls' = DOMAIN calls /\ jobs'.followUps = jobs.followUps
      /\ UNCHANGED <<orderWorkers, tasks, order, rest, handlers>>
  BY LineKeeps DEF ReceiveCall, RejectOrder, Lines, TypeOK
<1>2. Agreed' => Agreed
  BY PhoneAgreed DEF FollowInv
<1>3. NotServed' /\ ConfirmInv'
  BY <1>1 DEF FollowInv, NotServed, ConfirmInv, rest
<1>4. LinkedInv'
  BY <1>1, <1>2 DEF FollowInv, LinkedInv, Copies, HasSnap, Holding
<1>5. ASSUME NEW d \in DOMAIN calls, Promised(d) PROVE Promised(d)'
  <2>1. HasFlag(d, "accepted") => HasFlag(d, "accepted")'
    BY FlagsKept
  <2>2. QED
    BY <1>1, <1>5, <2>1 DEF Promised, Copies, HasSnap, Holding, CanSave, Taking
<1>6. EtaInv'
  BY <1>1, <1>2, <1>5 DEF FollowInv, EtaInv
<1>7. QED
  BY <1>3, <1>4, <1>6

LEMMA NextFollow ==
  ASSUME TypeOK, RowsExist, RowsExist', SearchInv, EndInv, FollowInv, Package = "instant",
         [Next]_vars, UNCHANGED ends
  PROVE  FollowInv'
<1>1. CallsKept /\ ResponsesKept
  BY HistoryKept
<1>2. OneBusy'
  BY NextBusy DEF FollowInv, SearchInv
<1>3. ASSUME NEW h \in Slots, NEW s, StepOf(h, s) PROVE FollowInv'
  BY <1>1, <1>2, <1>3, StepLines, StepNotServed, StepLinked, StepEta, StepConfirm
  DEF FollowInv, SearchInv
<1>4. ASSUME NEW c \in DOMAIN calls, ReceiveCall(c) \/ RejectOrder(c) PROVE FollowInv'
  BY <1>1, <1>2, <1>4, PhoneLines, PhoneFollow DEF FollowInv
<1>5. CASE UNCHANGED vars
  <2>1. LinesInv' /\ (Agreed' <=> Agreed)
    BY <1>5 DEF vars, db, rest, FollowInv, LinesInv, Agreed, Denied, Refused, HasFlag, ResponsesOf,
      InHand, Taking
  <2>2. NotServed' /\ ConfirmInv'
    BY <1>5 DEF vars, db, rest, FollowInv, NotServed, ConfirmInv
  <2>3. LinkedInv'
    BY <1>5, <2>1 DEF vars, db, FollowInv, LinkedInv, Copies, HasSnap, Holding
  <2>4. EtaInv'
    BY <1>5, <2>1 DEF vars, db, FollowInv, EtaInv, Promised, Copies, HasSnap, Holding, CanSave,
      Taking, HasFlag, ResponsesOf
  <2>5. QED
    BY <1>2, <2>1, <2>2, <2>3, <2>4 DEF FollowInv
<1>6. QED
  BY <1>3, <1>4, <1>5, Steps

LEMMA InitFollow ==
  ASSUME Init
  PROVE  FollowInv
<1>1. /\ handlers = [h \in Slots |-> Idle] /\ calls = << >> /\ orderWorkers = << >> /\ tasks = << >>
      /\ notices = {} /\ jobs = [search |-> TRUE, call |-> 0, discard |-> {}, followUps |-> {}]
  BY DEF Init
<1>2. \A h \in Slots : handlers[h].at = "idle"
  BY <1>1, IdleFields
<1>3. LinesInv
  BY <1>1, <1>2 DEF LinesInv, InHand, Taking
<1>4. OneBusy
  <2>1. BusyOnes = {}
    BY <1>2 DEF BusyOnes, Busy, Chaining, AtStatus
  <2>2. Cardinality(BusyOnes) = 0 /\ Cardinality(jobs.discard) = 0
    BY <1>1, <2>1, FS_EmptySet
  <2>3. QED
    BY <1>1, <2>2 DEF OneBusy, Queued
<1>5. LinkedInv
  <2>1. order.calls = {}
    BY DEF Init, NoOrder
  <2>2. QED
    BY <1>1, <1>2, <2>1 DEF LinkedInv, Copies, HasSnap, Holding
<1>6. NotServed /\ EtaInv /\ ConfirmInv
  BY <1>1 DEF NotServed, EtaInv, ConfirmInv
<1>7. QED
  BY <1>3, <1>4, <1>5, <1>6 DEF FollowInv

FollowedUntilEnd == ends = 0 => SearchInv /\ EndInv /\ FollowInv

\* When nothing is left to run of an instant order nobody cancelled and no worker
\* rejected, and the process has not ended, the assigned worker's confirmation call and
\* her arrival call are both queued, whatever saves overlapped and whichever service
\* failed on the way.
THEOREM FollowUpsTheorem ==
  ASSUME Package = "instant"
  PROVE  Spec => []FollowUpsQueued
<1>1. Init => AcceptInv /\ FollowedUntilEnd
  BY InitAccounted, InitSearch, InitEnd, InitFollow DEF FollowedUntilEnd
<1>2. TypeOK /\ RowsExist /\ (TypeOK /\ RowsExist)' /\ AcceptInv /\ FollowedUntilEnd /\ [Next]_vars
        => (AcceptInv /\ FollowedUntilEnd)'
  BY NotEndedYet, NextAccounted, NextSearch, NextEnd, NextFollow DEF FollowedUntilEnd
<1>3. TypeOK /\ OneTaskPerAssignment /\ FollowedUntilEnd => FollowUpsQueued
  <2> SUFFICES ASSUME TypeOK, OneTaskPerAssignment, FollowInv, Quiet, cancels = 0, tasks # << >>,
                      \A c \in DOMAIN calls : ~Refused(c)
               PROVE  {"confirmation", "eta50"} \subseteq jobs.followUps
    BY DEF FollowUpsQueued, FollowedUntilEnd
  <2>1. \A h \in Slots : handlers[h].at = "idle"
    BY DEF Quiet, Free
  <2>2. Agreed
    BY DEF Agreed, Denied
  <2>3. orderWorkers # << >>
    <3>1. PICK n : n = Cardinality({h \in Slots : Standing(h, "task1")})
      OBVIOUS
    <3>2. n \in Nat
      BY <3>1, BoundsAssumption, FS_Subset, FS_CardinalityType
    <3>3. Len(tasks) \in Nat /\ Len(tasks) > 0 /\ Len(tasks) + n <= Len(orderWorkers)
      BY <3>1 DEF OneTaskPerAssignment, TypeOK
    <3>4. Len(orderWorkers) \in Nat
      BY DEF TypeOK
    <3>5. QED
      BY <3>2, <3>3, <3>4
  <2>4. ~\E c \in DOMAIN calls : Promised(c)
    BY <2>1 DEF Promised, Taking
  <2>5. QED
    BY <2>1, <2>2, <2>3, <2>4 DEF FollowInv, EtaInv, ConfirmInv
<1>4. Spec => []OneTaskPerAssignment
  BY OneTaskTheorem
<1>5. QED
  BY <1>1, <1>2, <1>3, <1>4, TypeCorrect, PTL DEF Spec

=============================================================================
