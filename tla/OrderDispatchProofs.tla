------------------------ MODULE OrderDispatchProofs ------------------------
(***************************************************************************)
(* Theorems about OrderDispatch, for every number of workers, slots,       *)
(* retries, answers and cancellations, every package and every fault: no   *)
(* row is named that does not exist, the search cursor stays within the    *)
(* retry budget, and acceptances are recorded one for one.                 *)
(***************************************************************************)
EXTENDS OrderDispatch, RowLemmas, FiniteSetTheorems

(***************************************************************************)
(* Lemmas about the operators.                                             *)
(***************************************************************************)
LEMMA IdleTyped == NoOrder \in OrderRow /\ Idle \in Handler
  BY DEF NoOrder, OrderRow, Idle, Handler, Statuses, Flags

LEMMA CallTyped ==
  ASSUME TypeOK, NEW c \in DOMAIN calls
  PROVE  /\ c \in Nat /\ calls[c] \in [worker : Workers, line : Lines]
         /\ calls[c].worker \in Workers /\ calls[c].line \in Lines
<1> DEFINE Call == [worker : Workers, line : Lines]
<1>1. calls \in Seq(Call)
  BY DEF TypeOK
<1> HIDE DEF Call
<1>2. calls[c] \in Call /\ c \in Nat
  BY <1>1
<1>3. QED
  BY <1>2 DEF Call

LEMMA RespondTyped ==
  ASSUME TypeOK, NEW c \in DOMAIN calls, NEW f \in Flags, Respond(c, f)
  PROVE  responses' \in [Workers -> Seq([call : Nat, flag : Flags, retry : Nat])]
<1> DEFINE w == calls[c].worker
           Row == [call : Nat, flag : Flags, retry : Nat]
<1>1. w \in Workers /\ c \in Nat
  BY CallTyped
<1>2. responses[w] \in Seq(Row)
  BY <1>1 DEF TypeOK
<1>3. RetryCount(c, f) \in Nat
  <2>1. CASE ResponsesOf(c) # {}
    <3>1. ResponsesOf(c) \subseteq DOMAIN responses[w]
      BY DEF ResponsesOf
    <3>2. responses[w][Max(ResponsesOf(c))] \in Row
      <4> HIDE DEF Row, w
      <4>1. QED
        BY <1>2, <2>1, <3>1, MaxRow
    <3>3. QED
      BY <3>2 DEF RetryCount
  <2>2. CASE ResponsesOf(c) = {}
    BY <2>2 DEF RetryCount
  <2>3. QED
    BY <2>1, <2>2
<1>4. Append(responses[w], [call |-> c, flag |-> f, retry |-> RetryCount(c, f)]) \in Seq(Row)
  BY <1>1, <1>2, <1>3
<1>5. QED
  BY <1>1, <1>4 DEF Respond, TypeOK

LEMMA AcceptedByTyped ==
  ASSUME TypeOK, NEW o \in OrderRow, o.calls \subseteq DOMAIN calls
  PROVE  AcceptedBy(o) \in SUBSET Workers
  BY CallTyped DEF AcceptedBy

LEMMA LoadedTyped ==
  ASSUME TypeOK, RowsExist, NEW st \in Statuses, NEW pending \in SUBSET DOMAIN tasks
  PROVE  Loaded(st, pending) \in Handler /\ HandlerRows(Loaded(st, pending))
<1>1. AcceptedBy(order) \in SUBSET Workers
  BY AcceptedByTyped DEF TypeOK, RowsExist, RowsOf
<1>2. pending \in SUBSET Nat
  BY DEF TypeOK
<1>3. Loaded(st, pending) \in Handler
  BY <1>1, <1>2, IdleTyped DEF Loaded, Handler, TypeOK
<1>4. HandlerRows(Loaded(st, pending))
  BY DEF Loaded, HandlerRows, RowsExist, Idle
<1>5. QED
  BY <1>3, <1>4

(***************************************************************************)
(* What a step that only adds rows keeps.                                  *)
(***************************************************************************)
RowsGrow ==
  /\ DOMAIN statusLog \subseteq DOMAIN statusLog'
  /\ DOMAIN calls \subseteq DOMAIN calls'
  /\ DOMAIN orderWorkers \subseteq DOMAIN orderWorkers'
  /\ DOMAIN tasks \subseteq DOMAIN tasks'

LEMMA RowsKept ==
  ASSUME RowsGrow, NEW s, HandlerRows(s)
  PROVE  HandlerRows(s)'
  BY DEF RowsGrow, HandlerRows, RowsOf

LEMMA HandlersKept ==
  ASSUME TypeOK, RowsExist, RowsGrow, NEW h \in Slots, NEW s \in Handler, Goto(h, s),
         HandlerRows(s)'
  PROVE  /\ handlers' \in [Slots -> Handler]
         /\ \A k \in Slots : HandlerRows(handlers[k])'
<1>1. handlers' \in [Slots -> Handler]
  BY DEF TypeOK, Goto
<1>2. ASSUME NEW k \in Slots PROVE HandlerRows(handlers[k])'
  <2>1. CASE k = h
    <3>1. handlers'[k] = s
      BY <2>1 DEF TypeOK, Goto
    <3>2. QED
      BY <3>1 DEF HandlerRows, RowsOf
  <2>2. CASE k # h
    <3>1. PICK t : t = handlers[k]
      OBVIOUS
    <3>2. HandlerRows(t)
      BY <3>1 DEF RowsExist
    <3>3. HandlerRows(t)'
      BY <3>2, RowsKept
    <3>4. handlers'[k] = t
      BY <2>2, <3>1 DEF TypeOK, Goto
    <3>5. QED
      BY <3>3, <3>4 DEF HandlerRows, RowsOf
  <2>3. QED
    BY <2>1, <2>2
<1>3. QED
  BY <1>1, <1>2

Jobs == [search : BOOLEAN, call : Nat, discard : SUBSET Nat, followUps : SUBSET FollowUps]

Notices == SUBSET {"served", "unserved"}

\* A step that adds rows and moves one handler.
LEMMA RowStep ==
  ASSUME TypeOK, RowsExist, RowsGrow,
         NEW h \in Slots, NEW s \in Handler, Goto(h, s), HandlerRows(s)',
         statusLog' \in Seq(Statuses), calls' \in Seq([worker : Workers, line : Lines]),
         responses' \in [Workers -> Seq([call : Nat, flag : Flags, retry : Nat])],
         orderWorkers' \in Seq(Workers), tasks' \in Seq({"pending", "cancelled"}),
         order' \in OrderRow, RowsOf(order)', order'.statuses # {},
         jobs' \in Jobs, jobs'.discard \subseteq DOMAIN calls',
         pendingUpdates' \in Nat, cancels' \in 0..MaxCancels, notices' \in Notices,
         ends' \in Nat
  PROVE  TypeOK' /\ RowsExist'
<1>1. handlers' \in [Slots -> Handler] /\ \A k \in Slots : HandlerRows(handlers[k])'
  BY HandlersKept
<1>2. TypeOK'
  BY <1>1 DEF TypeOK, Jobs, Notices
<1>3. RowsExist'
  BY <1>1 DEF RowsExist
<1>4. QED
  BY <1>2, <1>3

\* A step that only moves one handler.
LEMMA MoveOnly ==
  ASSUME TypeOK, RowsExist, NEW h \in Slots, NEW s \in Handler, Goto(h, s), HandlerRows(s),
         UNCHANGED db, jobs' \in Jobs, jobs'.discard \subseteq jobs.discard,
         pendingUpdates' \in Nat, cancels' \in 0..MaxCancels, notices' \in Notices,
         ends' \in Nat
  PROVE  TypeOK' /\ RowsExist'
<1>1. RowsGrow
  BY DEF RowsGrow, db
<1>2. HandlerRows(s)'
  BY <1>1, RowsKept
<1>3. RowsOf(order)' /\ order'.statuses # {} /\ jobs'.discard \subseteq DOMAIN calls'
  BY DEF RowsExist, RowsOf, db
<1>4. /\ statusLog' \in Seq(Statuses) /\ calls' \in Seq([worker : Workers, line : Lines])
      /\ responses' \in [Workers -> Seq([call : Nat, flag : Flags, retry : Nat])]
      /\ orderWorkers' \in Seq(Workers) /\ tasks' \in Seq({"pending", "cancelled"})
      /\ order' \in OrderRow
  BY DEF TypeOK, db
<1>5. QED
  BY <1>1, <1>2, <1>3, <1>4, RowStep

LEMMA IdleRows == HandlerRows(Idle)
  BY DEF HandlerRows, RowsOf, Idle, NoOrder

\* A step that leaves the handlers alone moves a handler to where it is.
LEMMA StayIsGoto ==
  ASSUME TypeOK, RowsExist, NEW h \in Slots, UNCHANGED handlers
  PROVE  /\ handlers[h] \in Handler /\ HandlerRows(handlers[h]) /\ Goto(h, handlers[h])
  BY DEF TypeOK, RowsExist, Goto

(***************************************************************************)
(* The steps that only move a handler or take a job.                       *)
(***************************************************************************)
LEMMA JobsTyped ==
  ASSUME TypeOK
  PROVE  /\ jobs \in Jobs /\ pendingUpdates \in Nat /\ cancels \in 0..MaxCancels
         /\ notices \in Notices /\ ends \in Nat
  BY DEF TypeOK, Jobs, Notices

LEMMA StatusLoadTyped ==
  ASSUME TypeOK, RowsExist, NEW h \in Slots, StatusLoad(h)
  PROVE  TypeOK' /\ RowsExist'
<1> DEFINE s == Loaded(handlers[h].status, handlers[h].tasks)
<1>1. s \in Handler /\ HandlerRows(s)
  <2>1. handlers[h].status \in Statuses /\ handlers[h].tasks \in SUBSET DOMAIN tasks
    BY DEF TypeOK, Handler, RowsExist, HandlerRows
  <2>2. QED
    BY <2>1, LoadedTyped
<1>2. Goto(h, s) /\ UNCHANGED <<db, jobs, rest>>
  BY DEF StatusLoad
<1>3. QED
  <2> HIDE DEF s
  <2>1. QED
    BY <1>1, <1>2, JobsTyped, MoveOnly DEF rest

LEMMA SearchWorkerTyped ==
  ASSUME TypeOK, RowsExist, NEW h \in Slots, SearchWorker(h)
  PROVE  TypeOK' /\ RowsExist'
<1>1. PICK s \in Handler : HandlerRows(s) /\ Goto(h, s)
  <2> DEFINE t == [Idle EXCEPT !.at = "status_load", !.status = "searching"]
  <2>1. t \in Handler /\ HandlerRows(t)
    BY IdleTyped DEF Handler, Statuses, HandlerRows, RowsOf, Idle, NoOrder
  <2>2. CASE Stopped(order)
    BY <2>2, StayIsGoto DEF SearchWorker
  <2>3. CASE ~Stopped(order)
    BY <2>1, <2>3 DEF SearchWorker
  <2>4. QED
    BY <2>2, <2>3
<1>2. jobs' \in Jobs /\ jobs'.discard \subseteq jobs.discard /\ UNCHANGED <<db, rest>>
  BY JobsTyped DEF SearchWorker, Jobs
<1>3. QED
  BY <1>1, <1>2, JobsTyped, MoveOnly DEF rest

LEMMA CallWorkerTyped ==
  ASSUME TypeOK, RowsExist, NEW h \in Slots, CallWorker(h)
  PROVE  TypeOK' /\ RowsExist'
<1>1. PICK s \in Handler : HandlerRows(s) /\ Goto(h, s)
  <2> DEFINE t == [Idle EXCEPT !.at = "next_load"]
  <2>1. t \in Handler /\ HandlerRows(t)
    BY IdleTyped DEF Handler, HandlerRows, RowsOf, Idle, NoOrder
  <2>2. CASE Stopped(order)
    BY <2>2, StayIsGoto DEF CallWorker
  <2>3. CASE ~Stopped(order)
    BY <2>1, <2>3 DEF CallWorker
  <2>4. QED
    BY <2>2, <2>3
<1>2. jobs' \in Jobs /\ jobs'.discard \subseteq jobs.discard /\ UNCHANGED <<db, rest>>
  BY JobsTyped DEF CallWorker, Jobs
<1>3. QED
  BY <1>1, <1>2, JobsTyped, MoveOnly DEF rest

LEMMA FindWillingTyped ==
  ASSUME TypeOK, RowsExist, NEW h \in Slots, FindWilling(h)
  PROVE  TypeOK' /\ RowsExist'
<1>1. PICK willing \in WorkerLists :
        Goto(h, IF willing = << >>
                THEN [Idle EXCEPT !.at = "status_load", !.status = "failed"]
                ELSE [Idle EXCEPT !.at = "search_save",
                                  !.snap = [order EXCEPT !.potential = willing]])
  BY DEF FindWilling
<1>2. willing \in Seq(Workers)
  BY DEF WorkerLists
<1>3. PICK s \in Handler : HandlerRows(s) /\ Goto(h, s)
  <2> DEFINE t == [Idle EXCEPT !.at = "status_load", !.status = "failed"]
             o == [order EXCEPT !.potential = willing]
             u == [Idle EXCEPT !.at = "search_save", !.snap = o]
  <2>1. t \in Handler /\ HandlerRows(t)
    BY IdleTyped DEF Handler, Statuses, HandlerRows, RowsOf, Idle, NoOrder
  <2>2. o \in OrderRow /\ RowsOf(o)
    BY <1>2 DEF TypeOK, OrderRow, RowsExist, RowsOf
  <2>3. u \in Handler /\ HandlerRows(u)
    <3> HIDE DEF o
    <3>1. u \in Handler
      BY <2>2, IdleTyped DEF Handler
    <3>2. HandlerRows(u)
      BY <2>2 DEF HandlerRows, Idle
    <3>3. QED
      BY <3>1, <3>2
  <2>4. QED
    BY <1>1, <2>1, <2>3
<1>4. QED
  BY <1>3, JobsTyped, MoveOnly DEF FindWilling, rest

\* The cursor taken modulo the number of workers names one of them.
LEMMA NextWorker ==
  ASSUME NEW o \in OrderRow, o.potential # << >>
  PROVE  o.potential[(o.cursor % Len(o.potential)) + 1] \in Workers
<1>1. o.potential \in Seq(Workers) /\ o.cursor \in Nat
  BY DEF OrderRow
<1>2. Len(o.potential) \in Nat /\ Len(o.potential) > 0
  BY <1>1
<1>3. (o.cursor % Len(o.potential)) + 1 \in 1..Len(o.potential)
  BY <1>1, <1>2
<1>4. QED
  BY <1>1, <1>3

LEMMA NextLoadTyped ==
  ASSUME TypeOK, RowsExist, NEW h \in Slots, NextLoad(h)
  PROVE  TypeOK' /\ RowsExist'
<1> DEFINE w == order.potential[(order.cursor % Len(order.potential)) + 1]
           t == [Idle EXCEPT !.at = "status_load", !.status = "failed"]
           u == [Idle EXCEPT !.at = "next_calls", !.snap = order, !.worker = w]
<1>1. t \in Handler /\ HandlerRows(t)
  BY IdleTyped DEF Handler, Statuses, HandlerRows, RowsOf, Idle, NoOrder
<1>2. ASSUME order.potential # << >> PROVE u \in Handler /\ HandlerRows(u)
  <2>1. w \in Workers
    BY <1>2, NextWorker DEF TypeOK
  <2> HIDE DEF w
  <2>2. u \in Handler
    BY <2>1, IdleTyped DEF Handler, TypeOK
  <2>3. HandlerRows(u)
    BY <2>1 DEF HandlerRows, RowsExist, Idle
  <2>4. QED
    BY <2>2, <2>3
<1>3. PICK s \in Handler : HandlerRows(s) /\ Goto(h, s)
  <2>1. Goto(h, Idle) \/ Goto(h, t) \/ (order.potential # << >> /\ Goto(h, u))
    BY DEF NextLoad, Finish
  <2> HIDE DEF t, u
  <2>2. QED
    BY <1>1, <1>2, <2>1, IdleTyped, IdleRows
<1>4. notices' \in Notices
  BY JobsTyped DEF NextLoad, Notify, Notices
<1>5. QED
  BY <1>3, <1>4, JobsTyped, MoveOnly DEF NextLoad

LEMMA NextCallsTyped ==
  ASSUME TypeOK, RowsExist, NEW h \in Slots, NextCalls(h)
  PROVE  TypeOK' /\ RowsExist'
<1>1. PICK a \in {"next_skip", "next_take"} : Advance(h, a)
  BY DEF NextCalls
<1> DEFINE s == [handlers[h] EXCEPT !.at = a]
<1>2. s \in Handler
  <2>1. handlers[h] \in Handler
    BY DEF TypeOK
  <2>2. QED
    BY <2>1 DEF Handler
<1>3. HandlerRows(s)
  BY DEF RowsExist, HandlerRows, RowsOf, NextCalls, Standing, TypeOK, Handler
<1>4. Goto(h, s)
  BY <1>1 DEF Advance, Goto, TypeOK
<1>5. QED
  <2> HIDE DEF s
  <2>1. QED
    BY <1>2, <1>3, <1>4, JobsTyped, MoveOnly DEF NextCalls, rest

LEMMA DiscardCheckTyped ==
  ASSUME TypeOK, RowsExist, NEW h \in Slots, NEW c \in jobs.discard, DiscardCheck(h, c)
  PROVE  TypeOK' /\ RowsExist'
<1>1. PICK s \in Handler : HandlerRows(s) /\ Goto(h, s)
  <2>1. UNCHANGED handlers
        \/ \E f \in {"rejected", "not_reachable"} :
             Goto(h, [Idle EXCEPT !.at = "verdict", !.call = c, !.flag = f])
    BY DEF DiscardCheck
  <2>2. ASSUME NEW f \in {"rejected", "not_reachable"}
        PROVE  LET t == [Idle EXCEPT !.at = "verdict", !.call = c, !.flag = f] IN
               t \in Handler /\ HandlerRows(t)
    <3>1. c \in Nat /\ c \in DOMAIN calls
      BY CallTyped DEF RowsExist
    <3>2. QED
      BY <3>1, IdleTyped DEF Handler, Flags, HandlerRows, RowsOf, Idle, NoOrder
  <2>3. QED
    BY <2>1, <2>2, StayIsGoto
<1>2. jobs' \in Jobs /\ jobs'.discard \subseteq jobs.discard
  BY JobsTyped DEF DiscardCheck, Jobs
<1>3. QED
  BY <1>1, <1>2, JobsTyped, MoveOnly DEF DiscardCheck, rest

LEMMA AcceptedUpdateTyped ==
  ASSUME TypeOK, RowsExist, NEW h \in Slots, AcceptedUpdate(h)
  PROVE  TypeOK' /\ RowsExist'
<1> DEFINE s == Loaded("accepted", {})
<1>1. s \in Handler /\ HandlerRows(s)
  BY LoadedTyped DEF Statuses
<1>2. pendingUpdates' \in Nat
  BY JobsTyped DEF AcceptedUpdate
<1>3. Goto(h, s)
  BY DEF AcceptedUpdate
<1>4. QED
  <2> HIDE DEF s
  <2>1. QED
    BY <1>1, <1>2, <1>3, JobsTyped, MoveOnly DEF AcceptedUpdate

LEMMA FollowUpTyped ==
  ASSUME TypeOK, RowsExist, NEW h \in Slots, FollowUp(h)
  PROVE  TypeOK' /\ RowsExist'
<1>1. jobs' \in Jobs /\ jobs'.discard \subseteq jobs.discard
  BY JobsTyped DEF FollowUp, Jobs, FollowUps
<1>2. QED
  BY <1>1, IdleTyped, IdleRows, JobsTyped, MoveOnly DEF FollowUp, Finish, rest

LEMMA CancelOrderTyped ==
  ASSUME TypeOK, RowsExist, NEW h \in Slots, CancelOrder(h)
  PROVE  TypeOK' /\ RowsExist'
<1> DEFINE pending == {t \in order.tasks : tasks[t] = "pending"}
           u == [Idle EXCEPT !.at = "status_load", !.status = "cancelled", !.tasks = pending]
<1>1. u \in Handler /\ HandlerRows(u)
  <2>1. pending \in SUBSET DOMAIN tasks /\ pending \in SUBSET Nat
    BY DEF RowsExist, RowsOf, TypeOK
  <2> HIDE DEF pending
  <2>2. u \in Handler
    BY <2>1, IdleTyped DEF Handler, Statuses
  <2>3. HandlerRows(u)
    BY <2>1 DEF HandlerRows, RowsOf, Idle, NoOrder
  <2>4. QED
    BY <2>2, <2>3
<1>2. PICK s \in Handler : HandlerRows(s) /\ Goto(h, s)
  <2>1. UNCHANGED handlers \/ Goto(h, u)
    BY DEF CancelOrder
  <2> HIDE DEF u
  <2>2. QED
    BY <1>1, <2>1, StayIsGoto
<1>3. cancels' \in 0..MaxCancels
  BY JobsTyped, BoundsAssumption DEF CancelOrder
<1>4. QED
  BY <1>2, <1>3, JobsTyped, MoveOnly DEF CancelOrder

(***************************************************************************)
(* The steps that write rows.                                              *)
(***************************************************************************)
DbTyped ==
  /\ statusLog \in Seq(Statuses) /\ calls \in Seq([worker : Workers, line : Lines])
  /\ responses \in [Workers -> Seq([call : Nat, flag : Flags, retry : Nat])]
  /\ orderWorkers \in Seq(Workers) /\ tasks \in Seq({"pending", "cancelled"})
  /\ order \in OrderRow /\ RowsOf(order) /\ order.statuses # {}

LEMMA DbNow ==
  ASSUME TypeOK, RowsExist
  PROVE  DbTyped /\ jobs.discard \subseteq DOMAIN calls
  BY DEF TypeOK, RowsExist, DbTyped

\* RowStep once more, for a step after which the rows are well-typed.
LEMMA DbStep ==
  ASSUME TypeOK, RowsExist, RowsGrow, DbTyped',
         NEW h \in Slots, NEW s \in Handler, Goto(h, s), HandlerRows(s)',
         jobs' \in Jobs, jobs'.discard \subseteq DOMAIN calls',
         pendingUpdates' \in Nat, cancels' \in 0..MaxCancels, notices' \in Notices,
         ends' \in Nat
  PROVE  TypeOK' /\ RowsExist'
  BY RowStep DEF DbTyped

\* save(order) of a snapshot whose rows exist.
LEMMA SaveTyped ==
  ASSUME TypeOK, RowsExist, NEW o \in OrderRow, RowsOf(o), o.statuses # {}, Save(o),
         UNCHANGED <<statusLog, calls, responses, orderWorkers, tasks>>
  PROVE  DbTyped' /\ RowsGrow
  BY DbNow DEF DbTyped, Save, RowsOf, RowsGrow

LEMMA HandlerNow ==
  ASSUME TypeOK, RowsExist, NEW h \in Slots
  PROVE  handlers[h] \in Handler /\ handlers[h].snap \in OrderRow /\ HandlerRows(handlers[h])
<1>1. handlers[h] \in Handler /\ HandlerRows(handlers[h])
  BY DEF TypeOK, RowsExist
<1>2. QED
  BY <1>1 DEF Handler

LEMMA IdleNext == Idle \in Handler /\ HandlerRows(Idle)'
  BY IdleTyped DEF HandlerRows, RowsOf, Idle, NoOrder

LEMMA StatusInsertTyped ==
  ASSUME TypeOK, RowsExist, NEW h \in Slots, StatusInsert(h)
  PROVE  TypeOK' /\ RowsExist'
<1> DEFINE row == Len(statusLog) + 1
<1>1. PICK old : old = handlers[h]
  OBVIOUS
<1>2. old \in Handler /\ old.snap \in OrderRow /\ HandlerRows(old)
  BY <1>1, HandlerNow
<1>3. PICK a \in {"status_save", "cancel_call"} :
        Goto(h, [old EXCEPT !.snap.statuses = @ \cup {row}, !.at = a])
  BY <1>1 DEF StatusInsert
<1>4. old.status \in Statuses /\ statusLog' = Append(statusLog, old.status)
  BY <1>1, <1>2 DEF StatusInsert, Handler
<1>5. /\ statusLog' \in Seq(Statuses) /\ row \in Nat
      /\ DOMAIN statusLog' = DOMAIN statusLog \cup {row}
  BY <1>4 DEF TypeOK
<1>6. RowsGrow /\ UNCHANGED <<calls, responses, orderWorkers, tasks, jobs, rest>>
  BY <1>5 DEF RowsGrow, StatusInsert
<1>7. DbTyped'
  <2>1. order' = [order EXCEPT !.statuses = @ \cup {row}]
    BY DEF StatusInsert
  <2> HIDE DEF row
  <2>2. order' \in OrderRow
    BY <2>1, <1>5 DEF TypeOK, OrderRow
  <2>3. RowsOf(order)' /\ order'.statuses # {}
    BY <2>1, <1>5, <1>6 DEF TypeOK, OrderRow, RowsExist, RowsOf
  <2>4. QED
    BY <1>5, <1>6, <2>2, <2>3, DbNow DEF DbTyped
<1>8. PICK o : o = [old.snap EXCEPT !.statuses = @ \cup {row}]
  OBVIOUS
<1>9. o \in OrderRow /\ RowsOf(o)' /\ o.statuses # {}
  <2> HIDE DEF row
  <2>1. QED
    BY <1>2, <1>5, <1>6, <1>8 DEF OrderRow, HandlerRows, RowsOf
<1>10. PICK s : s = [old EXCEPT !.snap = o, !.at = a]
  OBVIOUS
<1>11. s \in Handler /\ Goto(h, s)
  BY <1>2, <1>3, <1>8, <1>9, <1>10 DEF Handler
<1>12. HandlerRows(s)'
  <2>1. /\ s.snap = o /\ s.tasks = old.tasks /\ s.at = a
    BY <1>2, <1>10 DEF Handler
  <2>2. QED
    BY <1>2, <1>6, <1>9, <2>1 DEF HandlerRows, RowsOf
<1>13. QED
  BY <1>6, <1>7, <1>11, <1>12, JobsTyped, DbNow, DbStep DEF rest

\* placeIVRCall inserts a call row and its first response.
LEMMA CallPlaced ==
  ASSUME TypeOK, RowsExist, NEW w \in Workers, NEW l \in Lines,
         calls' = Append(calls, [worker |-> w, line |-> l]),
         order' = [order EXCEPT !.calls = @ \cup {Len(calls) + 1}],
         responses' = [responses EXCEPT ![w] =
                         Append(@, [call |-> Len(calls) + 1, flag |-> "connecting", retry |-> 1])],
         UNCHANGED <<statusLog, orderWorkers, tasks>>
  PROVE  /\ RowsGrow /\ DbTyped' /\ Len(calls) + 1 \in Nat
         /\ DOMAIN calls' = DOMAIN calls \cup {Len(calls) + 1}
<1> DEFINE c == Len(calls) + 1
           Row == [call : Nat, flag : Flags, retry : Nat]
<1>1. /\ calls' \in Seq([worker : Workers, line : Lines]) /\ c \in Nat
      /\ DOMAIN calls' = DOMAIN calls \cup {c}
  BY DEF TypeOK
<1>2. responses' \in [Workers -> Seq(Row)]
  <2>1. responses[w] \in Seq(Row) /\ [call |-> c, flag |-> "connecting", retry |-> 1] \in Row
    BY <1>1 DEF TypeOK, Flags
  <2>2. Append(responses[w], [call |-> c, flag |-> "connecting", retry |-> 1]) \in Seq(Row)
    BY <2>1
  <2>3. QED
    BY <2>2 DEF TypeOK
<1>3. order' \in OrderRow /\ RowsOf(order)' /\ order'.statuses # {}
  <2> HIDE DEF c
  <2>1. order' \in OrderRow
    BY <1>1 DEF TypeOK, OrderRow, c
  <2>2. QED
    BY <1>1 DEF TypeOK, OrderRow, RowsExist, RowsOf, c
<1>4. RowsGrow
  BY <1>1 DEF RowsGrow
<1>5. QED
  BY <1>1, <1>2, <1>3, <1>4, DbNow DEF DbTyped

\* Nothing is written.
LEMMA DbStill ==
  ASSUME TypeOK, RowsExist, UNCHANGED db
  PROVE  DbTyped' /\ RowsGrow
  BY DbNow DEF DbTyped, RowsOf, RowsGrow, db

LEMMA CancelCallTyped ==
  ASSUME TypeOK, RowsExist, NEW h \in Slots, CancelCall(h)
  PROVE  TypeOK' /\ RowsExist'
<1>1. UNCHANGED <<statusLog, orderWorkers, tasks, jobs, rest>> /\ Goto(h, Idle)
  BY DEF CancelCall, Finish
<1>2. RowsGrow /\ DbTyped' /\ DOMAIN calls \subseteq DOMAIN calls'
  <2>1. CASE UNCHANGED <<calls, order, responses>>
    BY <1>1, <2>1, DbStill DEF db
  <2>2. ASSUME NEW w \in handlers[h].told,
               calls' = Append(calls, [worker |-> w, line |-> "closed"]),
               order' = [order EXCEPT !.calls = @ \cup {Len(calls) + 1}],
               responses' = [responses EXCEPT ![w] =
                               Append(@, [call |-> Len(calls) + 1, flag |-> "connecting",
                                          retry |-> 1])]
        PROVE  RowsGrow /\ DbTyped'
    <3>1. w \in Workers
      BY HandlerNow DEF Handler
    <3>2. QED
      BY <1>1, <2>2, <3>1, CallPlaced DEF Lines
  <2>3. QED
    BY <2>1, <2>2 DEF CancelCall, RowsGrow
<1>3. QED
  BY <1>1, <1>2, IdleNext, JobsTyped, DbNow, DbStep DEF rest

LEMMA PlaceCallTyped ==
  ASSUME TypeOK, RowsExist, NEW h \in Slots, PlaceCall(h)
  PROVE  TypeOK' /\ RowsExist'
<1>1. UNCHANGED <<statusLog, orderWorkers, tasks, rest>> /\ Goto(h, Idle)
  BY DEF PlaceCall, Finish
<1>2. RowsGrow /\ DbTyped' /\ jobs' \in Jobs /\ jobs'.discard \subseteq DOMAIN calls'
  <2>1. CASE UNCHANGED <<calls, order, responses, jobs>>
    BY <1>1, <2>1, DbStill, DbNow, JobsTyped DEF db
  <2>2. CASE ~UNCHANGED <<calls, order, responses, jobs>>
    <3> DEFINE w == handlers[h].worker
               c == Len(calls) + 1
    <3>1. w \in Workers
      BY HandlerNow DEF HandlerRows, PlaceCall, Standing
    <3>2. RowsGrow /\ DbTyped' /\ c \in Nat /\ DOMAIN calls' = DOMAIN calls \cup {c}
      BY <1>1, <2>2, <3>1, CallPlaced DEF PlaceCall, Lines
    <3>3. jobs' = [jobs EXCEPT !.discard = @ \cup {c}]
      BY <2>2 DEF PlaceCall
    <3> HIDE DEF c
    <3>4. QED
      BY <3>2, <3>3, JobsTyped, DbNow DEF Jobs
  <2>3. QED
    BY <2>1, <2>2
<1>3. QED
  BY <1>1, <1>2, IdleNext, JobsTyped, DbStep DEF rest

LEMMA StatusSaveTyped ==
  ASSUME TypeOK, RowsExist, NEW h \in Slots, StatusSave(h)
  PROVE  TypeOK' /\ RowsExist'
<1>1. /\ UNCHANGED <<statusLog, calls, responses, orderWorkers, tasks, jobs,
                     pendingUpdates, cancels, ends>>
      /\ handlers[h].at = "status_save"
  BY DEF StatusSave, Standing
<1>2. DbTyped' /\ RowsGrow
  <2>1. PICK o : o = handlers[h].snap
    OBVIOUS
  <2>2. o \in OrderRow /\ RowsOf(o) /\ o.statuses # {}
    BY <1>1, <2>1, HandlerNow DEF HandlerRows
  <2>3. CASE Save(o)
    BY <1>1, <2>2, <2>3, SaveTyped
  <2>4. CASE UNCHANGED order
    BY <1>1, <2>4, DbStill DEF db
  <2>5. QED
    BY <2>1, <2>3, <2>4 DEF StatusSave
<1>3. PICK a \in {"search", "cancel_tasks", "idle"}, pending \in {{}, handlers[h].tasks} :
        Goto(h, [Idle EXCEPT !.at = a, !.tasks = pending]) \/ Goto(h, Idle)
  <2>1. AfterStatus(handlers[h].status) \in {"search", "cancel_tasks", "idle"}
    BY DEF AfterStatus
  <2>2. QED
    BY <2>1 DEF StatusSave, Finish
<1>4. PICK s : s = [Idle EXCEPT !.at = a, !.tasks = pending]
  OBVIOUS
<1>5. pending \in SUBSET Nat /\ pending \subseteq DOMAIN tasks
  BY HandlerNow DEF Handler, HandlerRows
<1>6. s \in Handler
  BY <1>4, <1>5, IdleTyped DEF Handler
<1>7. HandlerRows(s)'
  BY <1>1, <1>4, <1>5 DEF HandlerRows, RowsOf, Idle, NoOrder
<1>8. notices' \in Notices
  BY JobsTyped DEF StatusSave, Notify, Notices
<1>9. jobs' \in Jobs /\ jobs'.discard \subseteq DOMAIN calls' /\ pendingUpdates' \in Nat
      /\ cancels' \in 0..MaxCancels /\ ends' \in Nat
  BY <1>1, JobsTyped, DbNow
<1>10. QED
  <2>1. CASE Goto(h, Idle)
    BY <1>2, <1>8, <1>9, <2>1, IdleNext, DbStep
  <2>2. CASE Goto(h, s)
    BY <1>2, <1>6, <1>7, <1>8, <1>9, <2>2, DbStep
  <2>3. QED
    BY <1>3, <1>4, <2>1, <2>2

\* The end of the process leaves the rows alone, empties what the process held, and
\* queues again only jobs about calls that were placed.
LEMMA ProcessEndTyped ==
  ASSUME TypeOK, RowsExist, NEW h \in Slots, ProcessEnd(h)
  PROVE  TypeOK' /\ RowsExist'
<1>1. PICK back \in SUBSET Slots :
        jobs' = [jobs EXCEPT
                  !.search  = @ \/ \E k \in back : RunsSearch(k),
                  !.call    = @ + Cardinality({k \in back : RunsCall(k)}),
                  !.discard = @ \cup {handlers[k].call : k \in {j \in back : RunsCheck(j)}}]
  BY DEF ProcessEnd
<1>2. Cardinality({k \in back : RunsCall(k)}) \in Nat
  BY BoundsAssumption, FS_Subset, FS_CardinalityType
<1>3. \A k \in Slots : RunsCheck(k) => handlers[k].call \in DOMAIN calls
  BY DEF RunsCheck, Standing, RowsExist, HandlerRows
<1>4. DOMAIN calls \subseteq Nat
  BY DEF TypeOK
<1>5. jobs' \in Jobs /\ jobs'.discard \subseteq DOMAIN calls
  <2>1. PICK n \in Nat : n = Cardinality({k \in back : RunsCall(k)})
    BY <1>2
  <2>2. PICK q \in BOOLEAN : q = (jobs.search \/ \E k \in back : RunsSearch(k))
    BY JobsTyped DEF Jobs
  <2>3. PICK d \in SUBSET DOMAIN calls :
          d = {handlers[k].call : k \in {j \in back : RunsCheck(j)}}
    BY <1>3
  <2>4. jobs' = [jobs EXCEPT !.search = q, !.call = @ + n, !.discard = @ \cup d]
    BY <1>1, <2>1, <2>2, <2>3
  <2>5. q \in BOOLEAN /\ jobs.call + n \in Nat /\ jobs.discard \cup d \subseteq DOMAIN calls
    BY JobsTyped, DbNow DEF Jobs
  <2>6. QED
    BY <1>4, <2>4, <2>5, JobsTyped DEF Jobs
<1>6. handlers' \in [Slots -> Handler] /\ \A k \in Slots : HandlerRows(handlers'[k])
  BY IdleTyped, IdleRows DEF ProcessEnd
<1>7. UNCHANGED <<db, cancels, notices>> /\ pendingUpdates' = 0 /\ ends' = ends + 1
  BY DEF ProcessEnd
<1>8. TypeOK'
  <2>1. DbTyped' /\ pendingUpdates' \in Nat /\ ends' \in Nat
    BY <1>7, DbStill, JobsTyped DEF db
  <2>2. cancels' \in 0..MaxCancels /\ notices' \in Notices
    BY <1>7, JobsTyped
  <2>3. QED
    BY <1>5, <1>6, <2>1, <2>2 DEF TypeOK, DbTyped, Jobs, Notices
<1>9. RowsExist'
  BY <1>5, <1>6, <1>7 DEF RowsExist, RowsOf, HandlerRows, db
<1>10. QED
  BY <1>8, <1>9

LEMMA SearchSaveTyped ==
  ASSUME TypeOK, RowsExist, NEW h \in Slots, SearchSave(h)
  PROVE  TypeOK' /\ RowsExist'
<1> DEFINE snap == [handlers[h].snap EXCEPT !.statuses = order.statuses]
<1>1. UNCHANGED <<statusLog, calls, responses, orderWorkers, tasks, rest>> /\ Goto(h, Idle)
  BY DEF SearchSave, Finish
<1>2. DbTyped' /\ RowsGrow
  <2>1. PICK o : o = snap
    OBVIOUS
  <2>2. o \in OrderRow /\ RowsOf(o) /\ o.statuses # {}
    BY <2>1, HandlerNow DEF HandlerRows, OrderRow, RowsOf, RowsExist, TypeOK
  <2>3. CASE Save(o)
    BY <1>1, <2>2, <2>3, SaveTyped
  <2>4. CASE UNCHANGED order
    BY <1>1, <2>4, DbStill DEF db
  <2>5. QED
    BY <2>1, <2>3, <2>4 DEF SearchSave
<1>3. jobs' \in Jobs /\ jobs'.discard \subseteq DOMAIN calls'
  BY <1>1, JobsTyped, DbNow DEF SearchSave, Jobs
<1>4. QED
  BY <1>1, <1>2, <1>3, IdleNext, JobsTyped, DbStep DEF rest

LEMMA NextSaveTyped ==
  ASSUME TypeOK, RowsExist, NEW h \in Slots, NextSave(h)
  PROVE  TypeOK' /\ RowsExist'
<1> DEFINE snap == [handlers[h].snap EXCEPT !.cursor = @ + 1]
           t == [Idle EXCEPT !.at = "next_load"]
           u == [Idle EXCEPT !.at = "place", !.worker = handlers[h].worker]
<1>1. /\ UNCHANGED <<statusLog, calls, responses, orderWorkers, tasks, jobs, rest>>
      /\ handlers[h].at \in {"next_skip", "next_take"}
  BY DEF NextSave, Standing
<1>2. DbTyped' /\ RowsGrow
  <2>1. PICK o : o = snap
    OBVIOUS
  <2>2. o \in OrderRow /\ RowsOf(o) /\ o.statuses # {}
    BY <1>1, <2>1, HandlerNow DEF HandlerRows, OrderRow, RowsOf
  <2>3. CASE Save(o)
    BY <1>1, <2>2, <2>3, SaveTyped
  <2>4. CASE UNCHANGED order
    BY <1>1, <2>4, DbStill DEF db
  <2>5. QED
    BY <2>1, <2>3, <2>4 DEF NextSave
<1>3. t \in Handler /\ HandlerRows(t)
  BY IdleTyped DEF Handler, HandlerRows, RowsOf, Idle, NoOrder
<1>4. u \in Handler /\ HandlerRows(u)
  <2>1. handlers[h].worker \in Workers
    BY <1>1, HandlerNow DEF HandlerRows
  <2>2. QED
    BY <2>1, IdleTyped DEF Handler, HandlerRows, RowsOf, Idle, NoOrder
<1>5. PICK s \in Handler : HandlerRows(s) /\ Goto(h, s)
  <2>1. Goto(h, Idle) \/ Goto(h, t) \/ Goto(h, u)
    BY DEF NextSave, Finish
  <2> HIDE DEF t, u
  <2>2. QED
    BY <1>3, <1>4, <2>1, IdleTyped, IdleRows
<1>6. HandlerRows(s)'
  BY <1>2, <1>5, RowsKept
<1>7. jobs' \in Jobs /\ jobs'.discard \subseteq DOMAIN calls'
  BY <1>1, JobsTyped, DbNow
<1>8. QED
  BY <1>1, <1>2, <1>5, <1>6, <1>7, JobsTyped, DbStep DEF rest

\* updateIvrCallResponse writes one response row.
LEMMA Responded ==
  ASSUME TypeOK, RowsExist, NEW c \in DOMAIN calls, NEW f \in Flags, Respond(c, f),
         UNCHANGED <<statusLog, calls, orderWorkers, tasks, order>>
  PROVE  RowsGrow /\ DbTyped'
  BY RespondTyped, DbNow DEF DbTyped, RowsOf, RowsGrow

LEMMA VerdictTyped ==
  ASSUME TypeOK, RowsExist, NEW h \in Slots, Verdict(h)
  PROVE  TypeOK' /\ RowsExist'
<1>1. /\ UNCHANGED <<statusLog, calls, orderWorkers, tasks, order, rest>> /\ Goto(h, Idle)
      /\ jobs' = [jobs EXCEPT !.call = @ + 1] /\ Respond(handlers[h].call, handlers[h].flag)
  BY DEF Verdict, Finish
<1>2. handlers[h].call \in DOMAIN calls /\ handlers[h].flag \in Flags
  BY HandlerNow DEF HandlerRows, Handler, Verdict, Standing
<1>3. RowsGrow /\ DbTyped'
  BY <1>1, <1>2, Responded
<1>4. jobs' \in Jobs /\ jobs'.discard \subseteq DOMAIN calls'
  BY <1>1, JobsTyped, DbNow DEF Jobs
<1>5. QED
  BY <1>1, <1>3, <1>4, IdleNext, JobsTyped, DbStep DEF rest

LEMMA RespondAcceptedTyped ==
  ASSUME TypeOK, RowsExist, NEW h \in Slots, RespondAccepted(h)
  PROVE  TypeOK' /\ RowsExist'
<1> DEFINE t == [Idle EXCEPT !.at = "follow_up"]
<1>1. /\ UNCHANGED <<statusLog, calls, orderWorkers, tasks, order, jobs, rest>>
      /\ Respond(handlers[h].call, "accepted")
  BY DEF RespondAccepted
<1>2. handlers[h].call \in DOMAIN calls
  BY HandlerNow DEF HandlerRows, RespondAccepted, Standing
<1>3. RowsGrow /\ DbTyped'
  BY <1>1, <1>2, Responded DEF Flags
<1>4. PICK s \in Handler : HandlerRows(s) /\ Goto(h, s)
  <2>1. t \in Handler /\ HandlerRows(t)
    BY IdleTyped DEF Handler, HandlerRows, RowsOf, Idle, NoOrder
  <2>2. Goto(h, Idle) \/ Goto(h, t)
    BY DEF RespondAccepted, Finish
  <2> HIDE DEF t
  <2>3. QED
    BY <2>1, <2>2, IdleTyped, IdleRows
<1>5. HandlerRows(s)'
  BY <1>3, <1>4, RowsKept
<1>6. jobs' \in Jobs /\ jobs'.discard \subseteq DOMAIN calls'
  BY <1>1, JobsTyped, DbNow
<1>7. QED
  BY <1>1, <1>3, <1>4, <1>5, <1>6, JobsTyped, DbStep DEF rest

LEMMA AssignTyped ==
  ASSUME TypeOK, RowsExist, NEW h \in Slots, Assign(h)
  PROVE  TypeOK' /\ RowsExist'
<1> DEFINE row == Len(orderWorkers) + 1
<1>1. UNCHANGED <<statusLog, calls, responses, tasks, jobs, cancels, ends>>
  BY DEF Assign
<1>2. /\ jobs' \in Jobs /\ jobs'.discard \subseteq DOMAIN calls'
      /\ cancels' \in 0..MaxCancels /\ ends' \in Nat
  BY <1>1, JobsTyped, DbNow
<1>3. CASE Finish(h) /\ UNCHANGED <<notices, orderWorkers, order, pendingUpdates>>
  BY <1>1, <1>2, <1>3, IdleNext, JobsTyped, DbStill, DbStep DEF Finish, db
<1>4. ASSUME notices' = notices \cup {"served"},
             orderWorkers' = Append(orderWorkers, calls[handlers[h].call].worker),
             order' = [order EXCEPT !.workers = @ \cup {row}],
             pendingUpdates' = pendingUpdates + 1,
             Advance(h, IF Package = "plain" THEN "respond" ELSE "task1")
      PROVE  TypeOK' /\ RowsExist'
  <2>1. handlers[h].call \in DOMAIN calls
    BY HandlerNow DEF HandlerRows, Assign, Standing
  <2>2. /\ orderWorkers' \in Seq(Workers) /\ row \in Nat
        /\ DOMAIN orderWorkers' = DOMAIN orderWorkers \cup {row}
    <3>1. calls[handlers[h].call].worker \in Workers
      BY <2>1, CallTyped
    <3>2. QED
      BY <1>4, <3>1 DEF TypeOK
  <2>3. RowsGrow
    BY <1>1, <2>2 DEF RowsGrow
  <2>4. DbTyped'
    <3> HIDE DEF row
    <3>1. order' \in OrderRow
      BY <1>4, <2>2 DEF TypeOK, OrderRow
    <3>2. RowsOf(order)' /\ order'.statuses # {}
      BY <1>1, <1>4, <2>2 DEF TypeOK, OrderRow, RowsExist, RowsOf
    <3>3. QED
      BY <1>1, <2>2, <3>1, <3>2, DbNow DEF DbTyped
  <2>5. PICK a \in {"respond", "task1"} : Advance(h, a)
    BY <1>4
  <2>6. PICK s : s = [handlers[h] EXCEPT !.at = a]
    OBVIOUS
  <2>7. s \in Handler /\ HandlerRows(s)
    <3>1. s \in Handler /\ s.at = a /\ s.snap = handlers[h].snap /\ s.call = handlers[h].call
          /\ s.tasks = handlers[h].tasks
      BY <2>6, HandlerNow DEF Handler
    <3>2. QED
      BY <2>1, <3>1, HandlerNow DEF HandlerRows
  <2>8. Goto(h, s)
    BY <2>5, <2>6 DEF Advance, Goto, TypeOK
  <2>9. HandlerRows(s)'
    BY <2>3, <2>7, RowsKept
  <2>10. notices' \in Notices /\ pendingUpdates' \in Nat
    BY <1>4, JobsTyped DEF Notices
  <2>11. QED
    BY <1>2, <2>3, <2>4, <2>7, <2>8, <2>9, <2>10, DbStep
<1>5. QED
  BY <1>3, <1>4 DEF Assign

LEMMA CreateTaskTyped ==
  ASSUME TypeOK, RowsExist, NEW h \in Slots, CreateTask(h)
  PROVE  TypeOK' /\ RowsExist'
<1> DEFINE row == Len(tasks) + 1
<1>1. /\ UNCHANGED <<statusLog, calls, responses, orderWorkers, jobs, rest>>
      /\ tasks' = Append(tasks, "pending")
      /\ order' = [order EXCEPT !.tasks = @ \cup {row}]
  BY DEF CreateTask
<1>2. /\ tasks' \in Seq({"pending", "cancelled"}) /\ row \in Nat
      /\ DOMAIN tasks' = DOMAIN tasks \cup {row}
  BY <1>1 DEF TypeOK
<1>3. RowsGrow
  BY <1>1, <1>2 DEF RowsGrow
<1>4. PICK s : s = [handlers[h] EXCEPT !.at = "task2", !.tasks = {row}]
  OBVIOUS
<1>5. Goto(h, s)
  BY <1>4 DEF CreateTask
<1> HIDE DEF row
<1>6. DbTyped'
  <2>1. order' \in OrderRow
    BY <1>1, <1>2 DEF TypeOK, OrderRow
  <2>2. RowsOf(order)' /\ order'.statuses # {}
    BY <1>1, <1>2 DEF TypeOK, OrderRow, RowsExist, RowsOf
  <2>3. QED
    BY <1>1, <1>2, <2>1, <2>2, DbNow DEF DbTyped
<1>7. /\ s \in Handler /\ s.at = "task2" /\ s.snap = handlers[h].snap
      /\ s.call = handlers[h].call /\ s.tasks = {row}
  BY <1>2, <1>4, HandlerNow DEF Handler
<1>8. HandlerRows(s)'
  <2>1. handlers[h].call \in DOMAIN calls
    BY HandlerNow DEF HandlerRows, CreateTask, Standing
  <2>2. RowsOf(handlers[h].snap)
    BY HandlerNow DEF HandlerRows
  <2>3. QED
    BY <1>2, <1>3, <1>7, <2>1, <2>2 DEF HandlerRows, RowsOf, RowsGrow
<1>9. jobs' \in Jobs /\ jobs'.discard \subseteq DOMAIN calls'
  BY <1>1, JobsTyped, DbNow
<1>10. QED
  BY <1>1, <1>3, <1>5, <1>6, <1>7, <1>8, <1>9, JobsTyped, DbStep DEF rest

\* A task table with other statuses is still one.
LEMMA TasksRewritten ==
  ASSUME TypeOK, NEW f \in [DOMAIN tasks -> {"pending", "cancelled"}]
  PROVE  f \in Seq({"pending", "cancelled"}) /\ DOMAIN f = DOMAIN tasks
<1>1. PICK n \in Nat : DOMAIN tasks = 1..n
  BY DEF TypeOK
<1>2. f \in [1..n -> {"pending", "cancelled"}]
  BY <1>1
<1>3. f \in Seq({"pending", "cancelled"})
  BY <1>2
<1>4. QED
  BY <1>3

LEMMA SaveTaskAgainTyped ==
  ASSUME TypeOK, RowsExist, NEW h \in Slots, SaveTaskAgain(h)
  PROVE  TypeOK' /\ RowsExist'
<1> DEFINE t == [handlers[h] EXCEPT !.at = "task3"]
           u == [Idle EXCEPT !.at = "respond", !.call = handlers[h].call]
<1>1. /\ UNCHANGED <<statusLog, calls, responses, orderWorkers, rest>>
      /\ tasks' = [k \in DOMAIN tasks |->
                     IF k \in handlers[h].tasks THEN "pending" ELSE tasks[k]]
      /\ order' = [order EXCEPT !.tasks = @ \cup handlers[h].tasks]
      /\ handlers[h].at \in {"task2", "task3"}
  BY DEF SaveTaskAgain, Standing
<1>2. tasks' \in Seq({"pending", "cancelled"}) /\ DOMAIN tasks' = DOMAIN tasks
  <2>1. \A k \in DOMAIN tasks : tasks[k] \in {"pending", "cancelled"}
    BY DEF TypeOK
  <2>2. tasks' \in [DOMAIN tasks -> {"pending", "cancelled"}]
    BY <1>1, <2>1
  <2>3. QED
    BY <2>2, TasksRewritten
<1>3. RowsGrow
  BY <1>1, <1>2 DEF RowsGrow
<1>4. /\ handlers[h].tasks \subseteq DOMAIN tasks /\ handlers[h].call \in DOMAIN calls
      /\ handlers[h].tasks \in SUBSET Nat /\ handlers[h].call \in Nat
  BY <1>1, HandlerNow DEF HandlerRows, Handler
<1>5. DbTyped'
  <2>1. order' \in OrderRow
    BY <1>1, <1>4 DEF TypeOK, OrderRow
  <2>2. RowsOf(order)' /\ order'.statuses # {}
    BY <1>1, <1>2, <1>4 DEF TypeOK, OrderRow, RowsExist, RowsOf
  <2>3. QED
    BY <1>1, <1>2, <2>1, <2>2, DbNow DEF DbTyped
<1>6. t \in Handler /\ HandlerRows(t)
  <2>1. /\ t \in Handler /\ t.at = "task3" /\ t.snap = handlers[h].snap
        /\ t.call = handlers[h].call /\ t.tasks = handlers[h].tasks
    BY HandlerNow DEF Handler
  <2>2. QED
    BY <1>4, <2>1, HandlerNow DEF HandlerRows
<1>7. u \in Handler /\ HandlerRows(u)
  BY <1>4, IdleTyped DEF Handler, HandlerRows, RowsOf, Idle, NoOrder
<1>8. PICK s \in Handler : HandlerRows(s) /\ Goto(h, s)
  <2>1. Goto(h, t) \/ Goto(h, u)
    BY DEF SaveTaskAgain, Advance, Goto, TypeOK
  <2> HIDE DEF t, u
  <2>2. QED
    BY <1>6, <1>7, <2>1
<1>9. HandlerRows(s)'
  BY <1>3, <1>8, RowsKept
<1>10. jobs' \in Jobs /\ jobs'.discard \subseteq DOMAIN calls'
  BY <1>1, JobsTyped, DbNow DEF SaveTaskAgain, Jobs, FollowUps
<1>11. QED
  BY <1>1, <1>3, <1>5, <1>8, <1>9, <1>10, JobsTyped, DbStep DEF rest

LEMMA CancelTasksTyped ==
  ASSUME TypeOK, RowsExist, NEW h \in Slots, CancelTasks(h)
  PROVE  TypeOK' /\ RowsExist'
<1>1. /\ UNCHANGED <<statusLog, calls, responses, orderWorkers, order, jobs, rest>>
      /\ tasks' = [t \in DOMAIN tasks |->
                     IF t \in handlers[h].tasks THEN "cancelled" ELSE tasks[t]]
      /\ Goto(h, Idle)
  BY DEF CancelTasks, Finish
<1>2. tasks' \in Seq({"pending", "cancelled"}) /\ DOMAIN tasks' = DOMAIN tasks
  <2>1. \A k \in DOMAIN tasks : tasks[k] \in {"pending", "cancelled"}
    BY DEF TypeOK
  <2>2. tasks' \in [DOMAIN tasks -> {"pending", "cancelled"}]
    BY <1>1, <2>1
  <2>3. QED
    BY <2>2, TasksRewritten
<1>3. RowsGrow
  BY <1>1, <1>2 DEF RowsGrow
<1>4. DbTyped'
  BY <1>1, <1>2, DbNow DEF DbTyped, RowsOf
<1>5. jobs' \in Jobs /\ jobs'.discard \subseteq DOMAIN calls'
  BY <1>1, JobsTyped, DbNow
<1>6. QED
  BY <1>1, <1>3, <1>4, <1>5, IdleNext, JobsTyped, DbStep DEF rest

(***************************************************************************)
(* The worker on the phone.                                                *)
(***************************************************************************)
LEMMA LineTyped ==
  ASSUME TypeOK, NEW c \in DOMAIN calls, NEW l \in Lines,
         calls' = [calls EXCEPT ![c].line = l]
  PROVE  /\ calls' \in Seq([worker : Workers, line : Lines])
         /\ DOMAIN calls' = DOMAIN calls
<1> DEFINE Call == [worker : Workers, line : Lines]
           r == [calls[c] EXCEPT !.line = l]
<1>1. calls \in Seq(Call) /\ calls[c] \in Call
  BY CallTyped DEF TypeOK
<1>2. r \in Call
  BY <1>1
<1>3. calls' = [calls EXCEPT ![c] = r]
  OBVIOUS
<1> HIDE DEF Call, r
<1>4. calls' \in Seq(Call) /\ DOMAIN calls' = DOMAIN calls
  BY <1>1, <1>2, <1>3
<1>5. QED
  BY <1>4 DEF Call

\* A callback that leaves every handler where it is.
LEMMA PhoneStep ==
  ASSUME TypeOK, RowsExist, NEW c \in DOMAIN calls, NEW l \in Lines,
         calls' = [calls EXCEPT ![c].line = l],
         responses' \in [Workers -> Seq([call : Nat, flag : Flags, retry : Nat])],
         jobs' \in Jobs, jobs'.discard = jobs.discard,
         UNCHANGED <<statusLog, orderWorkers, tasks, order, rest, handlers>>
  PROVE  TypeOK' /\ RowsExist'
<1>1. calls' \in Seq([worker : Workers, line : Lines]) /\ DOMAIN calls' = DOMAIN calls
  BY LineTyped
<1>2. TypeOK'
  BY <1>1 DEF TypeOK, Jobs, rest
<1>3. RowsExist'
  BY <1>1 DEF RowsExist, RowsOf, HandlerRows
<1>4. QED
  BY <1>2, <1>3

LEMMA ReceiveCallTyped ==
  ASSUME TypeOK, RowsExist, NEW c \in DOMAIN calls, ReceiveCall(c)
  PROVE  TypeOK' /\ RowsExist'
<1>1. responses' \in [Workers -> Seq([call : Nat, flag : Flags, retry : Nat])]
  BY RespondTyped DEF ReceiveCall, Flags
<1>2. QED
  BY <1>1, JobsTyped, PhoneStep DEF ReceiveCall, Lines

LEMMA RejectOrderTyped ==
  ASSUME TypeOK, RowsExist, NEW c \in DOMAIN calls, RejectOrder(c)
  PROVE  TypeOK' /\ RowsExist'
<1>1. responses' \in [Workers -> Seq([call : Nat, flag : Flags, retry : Nat])]
  <2>1. CASE Respond(c, "rejected")
    BY <2>1, RespondTyped DEF Flags
  <2>2. CASE UNCHANGED responses
    BY <2>2 DEF TypeOK
  <2>3. QED
    BY <2>1, <2>2 DEF RejectOrder
<1>2. jobs' \in Jobs /\ jobs'.discard = jobs.discard
  BY JobsTyped DEF RejectOrder, Jobs
<1>3. QED
  BY <1>1, <1>2, PhoneStep DEF RejectOrder, Lines

LEMMA AcceptOrderTyped ==
  ASSUME TypeOK, RowsExist, NEW h \in Slots, NEW c \in DOMAIN calls, AcceptOrder(h, c)
  PROVE  TypeOK' /\ RowsExist'
<1> DEFINE t == [Idle EXCEPT !.at = "assign", !.call = c]
<1>1. calls' \in Seq([worker : Workers, line : Lines]) /\ DOMAIN calls' = DOMAIN calls
  BY LineTyped DEF AcceptOrder, Lines
<1>2. UNCHANGED <<statusLog, responses, orderWorkers, tasks, order, jobs, rest>>
  BY DEF AcceptOrder
<1>3. RowsGrow /\ DbTyped'
  BY <1>1, <1>2, DbNow DEF RowsGrow, DbTyped, RowsOf
<1>4. PICK s \in Handler : HandlerRows(s) /\ Goto(h, s)
  <2>1. t \in Handler /\ HandlerRows(t)
    BY CallTyped, IdleTyped DEF Handler, HandlerRows, RowsOf, Idle, NoOrder
  <2>2. UNCHANGED handlers \/ Goto(h, t)
    BY DEF AcceptOrder
  <2> HIDE DEF t
  <2>3. QED
    BY <2>1, <2>2, StayIsGoto
<1>5. HandlerRows(s)'
  BY <1>3, <1>4, RowsKept
<1>6. jobs' \in Jobs /\ jobs'.discard \subseteq DOMAIN calls'
  BY <1>1, <1>2, JobsTyped, DbNow
<1>7. QED
  BY <1>2, <1>3, <1>4, <1>5, <1>6, JobsTyped, DbStep DEF rest

(***************************************************************************)
(* Type correctness, and no name of a row that does not exist.             *)
(***************************************************************************)
LEMMA InitTyped ==
  ASSUME Init
  PROVE  TypeOK /\ RowsExist
<1>1. PICK free \in WorkerLists : order = [NoOrder EXCEPT !.statuses = {1}, !.potential = free]
  BY DEF Init
<1>2. free \in Seq(Workers)
  BY DEF WorkerLists
<1>3. order \in OrderRow
  <2>1. order = [statuses |-> {1}, calls |-> {}, workers |-> {}, tasks |-> {},
                 potential |-> free, cursor |-> 0]
    BY <1>1 DEF NoOrder
  <2>2. QED
    BY <1>2, <2>1 DEF OrderRow
<1>4. statusLog \in Seq(Statuses) /\ DOMAIN statusLog = {1}
  <2>1. statusLog = <<"placed">>
    BY DEF Init
  <2>2. statusLog \in Seq(Statuses) /\ Len(statusLog) = 1
    BY <2>1 DEF Statuses
  <2>3. DOMAIN statusLog = 1..1
    BY <2>2
  <2>4. QED
    BY <2>2, <2>3
<1>5. handlers \in [Slots -> Handler] /\ \A h \in Slots : HandlerRows(handlers[h])
  <2>1. handlers \in [Slots -> Handler] /\ \A h \in Slots : handlers[h] = Idle
    BY IdleTyped DEF Init
  <2>2. QED
    BY <2>1, IdleRows
<1>6. TypeOK
  <2>1. /\ calls = << >> /\ orderWorkers = << >> /\ tasks = << >>
        /\ responses = [w \in Workers |-> << >>]
        /\ pendingUpdates = 0 /\ cancels = 0 /\ notices = {} /\ ends = 0
    BY DEF Init
  <2>2. /\ calls \in Seq([worker : Workers, line : Lines])
        /\ orderWorkers \in Seq(Workers)
        /\ tasks \in Seq({"pending", "cancelled"})
    BY <2>1
  <2>3. responses \in [Workers -> Seq([call : Nat, flag : Flags, retry : Nat])]
    <3>1. << >> \in Seq([call : Nat, flag : Flags, retry : Nat])
      OBVIOUS
    <3>2. QED
      BY <2>1, <3>1
  <2>4. jobs \in Jobs
    BY DEF Init, Jobs, FollowUps
  <2>5. /\ pendingUpdates \in Nat /\ cancels \in 0..MaxCancels /\ notices \in Notices
        /\ ends \in Nat
    BY <2>1, BoundsAssumption DEF Notices
  <2>6. QED
    BY <1>3, <1>4, <1>5, <2>2, <2>3, <2>4, <2>5 DEF TypeOK, Jobs, Notices
<1>7. RowsExist
  BY <1>1, <1>4, <1>5 DEF Init, RowsExist, RowsOf, NoOrder
<1>8. QED
  BY <1>6, <1>7

LEMMA NextTyped ==
  ASSUME TypeOK, RowsExist, [Next]_vars
  PROVE  TypeOK' /\ RowsExist'
<1>1. ASSUME NEW h \in Slots, Resume(h) PROVE TypeOK' /\ RowsExist'
  BY <1>1, StatusLoadTyped, StatusInsertTyped, CancelCallTyped, StatusSaveTyped,
     ProcessEndTyped,
     FindWillingTyped, SearchSaveTyped, NextLoadTyped, NextCallsTyped, NextSaveTyped,
     PlaceCallTyped, VerdictTyped, AssignTyped, CreateTaskTyped, SaveTaskAgainTyped,
     RespondAcceptedTyped, FollowUpTyped, CancelTasksTyped DEF Resume
<1>2. ASSUME NEW h \in Slots, StartJob(h) PROVE TypeOK' /\ RowsExist'
  BY <1>2, SearchWorkerTyped, CallWorkerTyped, AcceptedUpdateTyped, DiscardCheckTyped
     DEF StartJob
<1>3. CASE People
  BY <1>3, ReceiveCallTyped, RejectOrderTyped, CancelOrderTyped, AcceptOrderTyped DEF People
<1>4. CASE UNCHANGED vars
  BY <1>4 DEF vars, db, rest, TypeOK, RowsExist, RowsOf, HandlerRows
<1>5. QED
  BY <1>1, <1>2, <1>3, <1>4 DEF Next, System

\* Whatever overlaps, every row, job and handler keeps its shape, nobody names a
\* row that does not exist and the order is never without a status.
THEOREM TypeCorrect == Spec => [](TypeOK /\ RowsExist)
<1>1. Init => TypeOK /\ RowsExist
  BY InitTyped
<1>2. TypeOK /\ RowsExist /\ [Next]_vars => (TypeOK /\ RowsExist)'
  BY NextTyped
<1>3. QED
  BY <1>1, <1>2, PTL DEF Spec

\* In particular no order, snapshot, job or handler names a row that is not there,
\* although saves overlap and detach rows.
THEOREM RowsTheorem == Spec => []RowsExist
  BY TypeCorrect, PTL

(***************************************************************************)
(* The cursor.  A stale snapshot may put an old cursor back, so the        *)
(* invariant has to speak of every snapshot, and a handler about to move   *)
(* the cursor must hold one that was not exhausted when it was loaded.     *)
(***************************************************************************)
Bound == MaxRetry * Cardinality(Workers) + 1

Bounded(o) == Len(o.potential) <= Cardinality(Workers) /\ o.cursor <= Bound

SnapOK(s) ==
  /\ Bounded(s.snap)
  /\ s.at \in {"next_calls", "next_skip", "next_take"} =>
       s.snap.cursor <= MaxRetry * Len(s.snap.potential)

CursorInv == Bounded(order) /\ \A h \in Slots : SnapOK(handlers[h])

LEMMA TimesMonotonic ==
  ASSUME NEW m \in Nat, NEW a \in Nat, NEW b \in Nat, a <= b
  PROVE  m * a <= m * b
<1>1. PICK d \in Nat : b = a + d
  BY b - a \in Nat, b = a + (b - a)
<1>2. m * b = m * a + m * d /\ m * d \in Nat /\ m * a \in Nat
  BY <1>1
<1>3. QED
  BY <1>2

LEMMA TimesNatural ==
  ASSUME NEW m \in Nat, NEW n \in Nat
  PROVE  m * n \in Nat
  OBVIOUS

LEMMA CountWorkers == Cardinality(Workers) \in Nat /\ Bound \in Nat
<1>1. Cardinality(Workers) \in Nat
  BY WorkersAssumption, FS_CardinalityType
<1>2. QED
  BY <1>1, RetryAssumption DEF Bound

LEMMA IdleBounded == Bounded(NoOrder)
  BY CountWorkers DEF Bounded, NoOrder

LEMMA CursorStep ==
  ASSUME TypeOK, CursorInv, Bounded(order'), NEW h \in Slots, NEW s, Goto(h, s), SnapOK(s)
  PROVE  CursorInv'
<1>1. ASSUME NEW k \in Slots PROVE SnapOK(handlers'[k])
  <2>1. CASE k = h
    BY <2>1 DEF Goto, TypeOK
  <2>2. CASE k # h
    <3>1. handlers'[k] = handlers[k]
      BY <2>2 DEF Goto, TypeOK
    <3>2. QED
      BY <3>1 DEF CursorInv
  <2>3. QED
    BY <2>1, <2>2
<1>2. QED
  BY <1>1 DEF CursorInv

\* A handler that starts afresh, away from the cursor.
LEMMA FreshBounded ==
  ASSUME NEW s, s.snap = NoOrder, s.at \notin {"next_calls", "next_skip", "next_take"}
  PROVE  SnapOK(s)
  BY IdleBounded DEF SnapOK

\* The snapshot of a handler that moves on with it stays bounded.
LEMMA MovedBounded ==
  ASSUME CursorInv, NEW h \in Slots, NEW s,
         s.snap.potential = handlers[h].snap.potential, s.snap.cursor = handlers[h].snap.cursor,
         \/ s.at \notin {"next_calls", "next_skip", "next_take"}
         \/ handlers[h].at \in {"next_calls", "next_skip", "next_take"}
  PROVE  SnapOK(s)
  BY DEF CursorInv, SnapOK, Bounded

\* The order row keeps its cursor when only its relations grow.
LEMMA OrderBounded ==
  ASSUME CursorInv, order'.potential = order.potential, order'.cursor = order.cursor
  PROVE  Bounded(order')
  BY DEF CursorInv, Bounded

LEMMA SnapBounded ==
  ASSUME CursorInv, NEW h \in Slots
  PROVE  Bounded(handlers[h].snap)
  BY DEF CursorInv, SnapOK

LEMMA NextSaveBounded ==
  ASSUME TypeOK, RowsExist, CursorInv, NEW h \in Slots, NextSave(h)
  PROVE  CursorInv'
<1> DEFINE t == [Idle EXCEPT !.at = "next_load"]
           u == [Idle EXCEPT !.at = "place", !.worker = handlers[h].worker]
<1>1. Bounded(order')
  <2> DEFINE o == handlers[h].snap
  <2>1. o \in OrderRow
    BY HandlerNow
  <2>2. Len(o.potential) \in Nat /\ o.cursor \in Nat
    BY <2>1 DEF OrderRow
  <2>3. o.cursor <= MaxRetry * Len(o.potential) /\ Len(o.potential) <= Cardinality(Workers)
    BY DEF CursorInv, SnapOK, Bounded, NextSave, Standing
  <2>4. MaxRetry * Len(o.potential) <= MaxRetry * Cardinality(Workers)
    BY <2>2, <2>3, TimesMonotonic, CountWorkers, RetryAssumption
  <2>5. /\ MaxRetry * Len(o.potential) \in Nat
        /\ MaxRetry * Cardinality(Workers) \in Nat
    <3>1. MaxRetry \in Nat /\ Len(o.potential) \in Nat /\ Cardinality(Workers) \in Nat
      BY <2>2, CountWorkers, RetryAssumption
    <3>2. QED
      BY <3>1, TimesNatural
  <2>6. o.cursor + 1 <= Bound
    BY <2>2, <2>3, <2>4, <2>5 DEF Bound
  <2>7. CASE order' = [o EXCEPT !.cursor = @ + 1]
    <3>1. order'.cursor = o.cursor + 1 /\ order'.potential = o.potential
      BY <2>1, <2>7 DEF OrderRow
    <3>2. QED
      BY <2>3, <2>6, <3>1 DEF Bounded
  <2>8. CASE order' = order
    BY <2>8 DEF CursorInv
  <2>9. QED
    BY <2>7, <2>8 DEF NextSave, Save
<1>2. SnapOK(Idle) /\ SnapOK(t) /\ SnapOK(u)
  BY FreshBounded DEF Idle
<1>3. Goto(h, Idle) \/ Goto(h, t) \/ Goto(h, u)
  BY DEF NextSave, Finish
<1>4. QED
  <2> HIDE DEF t, u
  <2>1. QED
    BY <1>1, <1>2, <1>3, CursorStep

LEMMA NextLoadBounded ==
  ASSUME TypeOK, RowsExist, CursorInv, NEW h \in Slots, NextLoad(h)
  PROVE  CursorInv'
<1> DEFINE w == order.potential[(order.cursor % Len(order.potential)) + 1]
           t == [Idle EXCEPT !.at = "status_load", !.status = "failed"]
           u == [Idle EXCEPT !.at = "next_calls", !.snap = order, !.worker = w]
<1>1. Goto(h, Idle) \/ Goto(h, t) \/ (~Exhausted(order) /\ Goto(h, u))
  BY DEF NextLoad, Finish
<1>2. SnapOK(Idle) /\ SnapOK(t)
  BY FreshBounded DEF Idle
<1>3. ASSUME ~Exhausted(order) PROVE SnapOK(u)
  <2>1. u.snap = order
    BY DEF Idle
  <2>2. order.cursor \in Nat /\ MaxRetry * Len(order.potential) \in Nat
    BY RetryAssumption DEF TypeOK, OrderRow
  <2>3. order.cursor <= MaxRetry * Len(order.potential)
    BY <1>3, <2>2 DEF Exhausted
  <2> HIDE DEF u
  <2>4. QED
    BY <2>1, <2>3 DEF SnapOK, CursorInv
<1>4. Bounded(order')
  BY OrderBounded DEF NextLoad, db
<1>5. QED
  <2> HIDE DEF t, u
  <2>1. QED
    BY <1>1, <1>2, <1>3, <1>4, CursorStep

LEMMA FindWillingBounded ==
  ASSUME TypeOK, RowsExist, CursorInv, NEW h \in Slots, FindWilling(h)
  PROVE  CursorInv'
<1>1. PICK willing \in WorkerLists :
        Goto(h, IF willing = << >>
                THEN [Idle EXCEPT !.at = "status_load", !.status = "failed"]
                ELSE [Idle EXCEPT !.at = "search_save",
                                  !.snap = [order EXCEPT !.potential = willing]])
  BY DEF FindWilling
<1>2. Len(willing) <= Cardinality(Workers)
  <2>1. PICK n \in 0..Cardinality(Workers) : willing \in [1..n -> Workers]
    BY <1>1 DEF WorkerLists
  <2>2. n \in Nat /\ n <= Cardinality(Workers)
    BY <2>1, CountWorkers
  <2>3. Len(willing) = n
    BY <2>1, <2>2
  <2>4. QED
    BY <2>2, <2>3
<1> DEFINE t == [Idle EXCEPT !.at = "status_load", !.status = "failed"]
           o == [order EXCEPT !.potential = willing]
           u == [Idle EXCEPT !.at = "search_save", !.snap = o]
<1>3. SnapOK(t)
  BY FreshBounded DEF Idle
<1>4. SnapOK(u)
  <2>1. Bounded(o)
    BY <1>2 DEF CursorInv, Bounded, TypeOK, OrderRow
  <2>2. u.snap = o /\ u.at = "search_save"
    BY DEF Idle
  <2> HIDE DEF o, u
  <2>3. QED
    BY <2>1, <2>2 DEF SnapOK
<1>5. Bounded(order')
  BY OrderBounded DEF FindWilling, db
<1>6. Goto(h, t) \/ Goto(h, u)
  BY <1>1
<1>7. QED
  <2> HIDE DEF t, u
  <2>1. QED
    BY <1>3, <1>4, <1>5, <1>6, CursorStep

\* The steps that write a snapshot back.
LEMMA SavesBounded ==
  ASSUME TypeOK, RowsExist, CursorInv, NEW h \in Slots, StatusSave(h) \/ SearchSave(h)
  PROVE  CursorInv'
<1>1. Bounded(order')
  <2>1. Bounded(handlers[h].snap) /\ handlers[h].snap \in OrderRow
    BY SnapBounded, HandlerNow
  <2>2. Bounded([handlers[h].snap EXCEPT !.statuses = order.statuses])
    BY <2>1 DEF Bounded, OrderRow
  <2>3. \/ order' = handlers[h].snap
        \/ order' = [handlers[h].snap EXCEPT !.statuses = order.statuses]
        \/ order' = order
    BY DEF StatusSave, SearchSave, Save
  <2>4. QED
    BY <2>1, <2>2, <2>3 DEF CursorInv
<1>2. PICK a \in {"search", "cancel_tasks", "idle"}, pending \in {{}, handlers[h].tasks} :
        Goto(h, [Idle EXCEPT !.at = a, !.tasks = pending]) \/ Goto(h, Idle)
  BY DEF StatusSave, SearchSave, Finish, AfterStatus
<1> DEFINE s == [Idle EXCEPT !.at = a, !.tasks = pending]
<1>3. SnapOK(s) /\ SnapOK(Idle)
  BY FreshBounded DEF Idle
<1>4. QED
  <2> HIDE DEF s
  <2>1. QED
    BY <1>1, <1>2, <1>3, CursorStep DEF s

\* The steps that load the order for a status update.
LEMMA LoadsBounded ==
  ASSUME TypeOK, RowsExist, CursorInv, NEW h \in Slots, StatusLoad(h) \/ AcceptedUpdate(h)
  PROVE  CursorInv'
<1>1. PICK st, pending : Goto(h, Loaded(st, pending))
  BY DEF StatusLoad, AcceptedUpdate
<1>2. SnapOK(Loaded(st, pending))
  <2>1. Loaded(st, pending).snap = order /\ Loaded(st, pending).at = "status_insert"
    BY DEF Loaded, Idle
  <2>2. QED
    BY <2>1 DEF SnapOK, CursorInv
<1>3. Bounded(order')
  BY OrderBounded DEF StatusLoad, AcceptedUpdate, db
<1>4. QED
  BY <1>1, <1>2, <1>3, CursorStep

\* The steps of a handler that goes on with the snapshot it has.
LEMMA MovesBounded ==
  ASSUME TypeOK, RowsExist, CursorInv, NEW h \in Slots,
         StatusInsert(h) \/ NextCalls(h) \/ Assign(h) \/ CreateTask(h) \/ SaveTaskAgain(h)
  PROVE  CursorInv'
<1>1. handlers[h] \in Handler /\ handlers[h].snap \in OrderRow
  BY HandlerNow
<1>2. Bounded(order')
  <2>1. order'.potential = order.potential /\ order'.cursor = order.cursor
    BY DEF StatusInsert, NextCalls, Assign, CreateTask, SaveTaskAgain, db, TypeOK, OrderRow
  <2>2. QED
    BY <2>1, OrderBounded
<1>3. PICK s : Goto(h, s) /\ SnapOK(s)
  <2>1. SnapOK(Idle) /\ SnapOK([Idle EXCEPT !.at = "respond", !.call = handlers[h].call])
    BY FreshBounded DEF Idle
  <2>2. CASE StatusInsert(h)
    <3>1. PICK a \in {"status_save", "cancel_call"} :
            Goto(h, [handlers[h] EXCEPT
                       !.snap.statuses = @ \cup {Len(statusLog) + 1}, !.at = a])
      BY <2>2 DEF StatusInsert
    <3>2. SnapOK([handlers[h] EXCEPT !.snap.statuses = @ \cup {Len(statusLog) + 1}, !.at = a])
      BY <1>1, MovedBounded DEF Handler, OrderRow
    <3>3. QED
      BY <3>1, <3>2
  <2>3. ASSUME NEW a, Advance(h, a),
               \/ a \notin {"next_calls", "next_skip", "next_take"}
               \/ handlers[h].at \in {"next_calls", "next_skip", "next_take"}
        PROVE  \E s : Goto(h, s) /\ SnapOK(s)
    <3>1. PICK s : s = [handlers[h] EXCEPT !.at = a]
      OBVIOUS
    <3>2. Goto(h, s)
      BY <2>3, <3>1 DEF Advance, Goto, TypeOK
    <3>3. s.snap = handlers[h].snap /\ s.at = a
      BY <1>1, <3>1 DEF Handler
    <3>4. SnapOK(s)
      BY <2>3, <3>3, MovedBounded
    <3>5. QED
      BY <3>2, <3>4
  <2>4. CASE NextCalls(h)
    BY <2>3, <2>4 DEF NextCalls, Standing
  <2>5. CASE Assign(h)
    BY <2>1, <2>3, <2>5 DEF Assign, Finish
  <2>6. CASE CreateTask(h)
    <3>1. SnapOK([handlers[h] EXCEPT !.at = "task2", !.tasks = {Len(tasks) + 1}])
      BY <1>1, MovedBounded DEF Handler
    <3>2. QED
      BY <2>6, <3>1 DEF CreateTask
  <2>7. CASE SaveTaskAgain(h)
    BY <2>1, <2>3, <2>7 DEF SaveTaskAgain
  <2>8. QED
    BY <2>2, <2>4, <2>5, <2>6, <2>7
<1>4. QED
  BY <1>2, <1>3, CursorStep

\* The steps after which a handler starts afresh, or stays as it is.
LEMMA FreshStepsBounded ==
  ASSUME TypeOK, RowsExist, CursorInv, NEW h \in Slots,
         \/ CancelCall(h) \/ SearchWorker(h) \/ CallWorker(h) \/ PlaceCall(h)
         \/ Verdict(h) \/ RespondAccepted(h) \/ FollowUp(h) \/ CancelOrder(h)
         \/ CancelTasks(h)
         \/ \E c \in jobs.discard : DiscardCheck(h, c)
         \/ \E c \in DOMAIN calls : AcceptOrder(h, c)
  PROVE  CursorInv'
<1>1. Bounded(order')
  <2>1. order'.potential = order.potential /\ order'.cursor = order.cursor
    BY DEF CancelCall, SearchWorker, CallWorker, PlaceCall, Verdict, RespondAccepted,
           FollowUp, CancelOrder, CancelTasks, DiscardCheck, AcceptOrder, db, TypeOK, OrderRow
  <2>2. QED
    BY <2>1, OrderBounded
<1>2. PICK s : Goto(h, s) /\ SnapOK(s)
  <2>1. SnapOK(Idle)
    BY FreshBounded DEF Idle
  <2>2. ASSUME UNCHANGED handlers PROVE \E s : Goto(h, s) /\ SnapOK(s)
    BY <2>2, StayIsGoto DEF CursorInv
  <2>3. CASE CancelCall(h) \/ PlaceCall(h) \/ Verdict(h) \/ FollowUp(h) \/ CancelTasks(h)
    BY <2>1, <2>3 DEF CancelCall, PlaceCall, Verdict, FollowUp, CancelTasks, Finish
  <2>4. CASE SearchWorker(h)
    <3>1. SnapOK([Idle EXCEPT !.at = "status_load", !.status = "searching"])
      BY FreshBounded DEF Idle
    <3>2. QED
      BY <2>2, <2>4, <3>1 DEF SearchWorker
  <2>5. CASE CallWorker(h)
    <3>1. SnapOK([Idle EXCEPT !.at = "next_load"])
      BY FreshBounded DEF Idle
    <3>2. QED
      BY <2>2, <2>5, <3>1 DEF CallWorker
  <2>6. CASE RespondAccepted(h)
    <3>1. SnapOK([Idle EXCEPT !.at = "follow_up"])
      BY FreshBounded DEF Idle
    <3>2. QED
      BY <2>1, <2>6, <3>1 DEF RespondAccepted, Finish
  <2>7. CASE CancelOrder(h)
    <3>1. ASSUME NEW pending
          PROVE  SnapOK([Idle EXCEPT !.at = "status_load", !.status = "cancelled",
                                     !.tasks = pending])
      BY FreshBounded DEF Idle
    <3>2. QED
      BY <2>2, <2>7, <3>1 DEF CancelOrder
  <2>8. CASE \E c \in jobs.discard : DiscardCheck(h, c)
    <3>1. ASSUME NEW c, NEW f
          PROVE  SnapOK([Idle EXCEPT !.at = "verdict", !.call = c, !.flag = f])
      BY FreshBounded DEF Idle
    <3>2. QED
      BY <2>2, <2>8, <3>1 DEF DiscardCheck
  <2>9. CASE \E c \in DOMAIN calls : AcceptOrder(h, c)
    <3>1. ASSUME NEW c PROVE SnapOK([Idle EXCEPT !.at = "assign", !.call = c])
      BY FreshBounded DEF Idle
    <3>2. QED
      BY <2>2, <2>9, <3>1 DEF AcceptOrder
  <2>10. QED
    BY <2>3, <2>4, <2>5, <2>6, <2>7, <2>8, <2>9
<1>3. QED
  BY <1>1, <1>2, CursorStep

\* The end of the process drops every snapshot.
LEMMA ProcessEndBounded ==
  ASSUME CursorInv, NEW h \in Slots, ProcessEnd(h)
  PROVE  CursorInv'
<1>1. SnapOK(Idle)
  BY FreshBounded DEF Idle
<1>2. order' = order /\ \A k \in Slots : handlers'[k] = Idle
  BY DEF ProcessEnd, db
<1>3. QED
  BY <1>1, <1>2 DEF CursorInv

LEMMA InitBounded ==
  ASSUME Init
  PROVE  CursorInv
<1>1. PICK free \in WorkerLists : order = [NoOrder EXCEPT !.statuses = {1}, !.potential = free]
  BY DEF Init
<1>2. PICK n \in 0..Cardinality(Workers) : free \in [1..n -> Workers]
  BY DEF WorkerLists
<1>3. n \in Nat /\ n <= Cardinality(Workers) /\ Len(free) = n
  BY <1>2, CountWorkers
<1>4. order.potential = free /\ order.cursor = 0
  BY <1>1 DEF NoOrder
<1>5. Bounded(order)
  BY <1>3, <1>4, CountWorkers DEF Bounded
<1>6. SnapOK(Idle)
  BY FreshBounded DEF Idle
<1>7. \A h \in Slots : handlers[h] = Idle
  BY DEF Init
<1>8. QED
  BY <1>5, <1>6, <1>7 DEF CursorInv

LEMMA NextBounded ==
  ASSUME TypeOK, RowsExist, CursorInv, [Next]_vars
  PROVE  CursorInv'
<1>1. ASSUME NEW h \in Slots, Resume(h) PROVE CursorInv'
  BY <1>1, NextSaveBounded, NextLoadBounded, FindWillingBounded, SavesBounded, LoadsBounded,
     MovesBounded, FreshStepsBounded, ProcessEndBounded DEF Resume
<1>2. ASSUME NEW h \in Slots, StartJob(h) PROVE CursorInv'
  BY <1>2, LoadsBounded, FreshStepsBounded DEF StartJob
<1>3. CASE People
  <2>1. ASSUME NEW c \in DOMAIN calls, ReceiveCall(c) \/ RejectOrder(c) PROVE CursorInv'
    BY <2>1 DEF ReceiveCall, RejectOrder, CursorInv
  <2>2. QED
    BY <1>3, <2>1, FreshStepsBounded DEF People
<1>4. CASE UNCHANGED vars
  BY <1>4 DEF vars, db, CursorInv
<1>5. QED
  BY <1>1, <1>2, <1>3, <1>4 DEF Next, System

\* However many handlers overlap and overwrite each other's save of the order, the
\* searchCursor never passes the retry budget of all the workers by more than one.
THEOREM CursorTheorem == Spec => []CursorBounded
<1>1. Init => CursorInv
  BY InitBounded
<1>2. TypeOK /\ RowsExist /\ CursorInv /\ [Next]_vars => CursorInv'
  BY NextBounded
<1>3. CursorInv => CursorBounded
  BY DEF CursorInv, Bounded, Bound, CursorBounded
<1>4. QED
  BY <1>1, <1>2, <1>3, TypeCorrect, PTL DEF Spec

(***************************************************************************)
(* Acceptances.  A handler about to load the order for a status update     *)
(* never does so for an acceptance: those come from pendingUpdates alone.  *)
(***************************************************************************)
AboutToRecord(s) == s.at = "status_insert" /\ s.status = "accepted"

LoadsOther(s) == s.at = "status_load" => s.status # "accepted"

\* The update of an acceptance knows of a worker assigned, and has written its row
\* when it comes to the save that may end the process.
Knows(s) ==
  s.status = "accepted" /\ s.at \in {"status_insert", "status_save"} =>
    /\ s.snap.workers # {}
    /\ s.at = "status_save" => AcceptanceRows # {}

\* A handler in no update of an acceptance.
Elsewhere(s) == s.status = "accepted" => s.at \notin {"status_load", "status_insert", "status_save"}

AcceptInv ==
  /\ AcceptancesAccounted
  /\ orderWorkers # << >> => order.workers # {}
  /\ \A h \in Slots : LoadsOther(handlers[h]) /\ Knows(handlers[h])

LEMMA CountRows ==
  ASSUME TypeOK
  PROVE  /\ IsFiniteSet(AcceptanceRows) /\ Cardinality(AcceptanceRows) \in Nat
         /\ IsFiniteSet(Recording) /\ Cardinality(Recording) \in Nat
         /\ Len(orderWorkers) \in Nat /\ pendingUpdates \in Nat
<1>1. IsFiniteSet(DOMAIN statusLog)
  <2>1. PICK n \in Nat : DOMAIN statusLog = 1..n
    BY DEF TypeOK
  <2>2. QED
    BY <2>1, FS_Interval
<1>2. IsFiniteSet(AcceptanceRows)
  BY <1>1, FS_Subset DEF AcceptanceRows
<1>3. IsFiniteSet(Recording)
  BY BoundsAssumption, FS_Subset DEF Recording
<1>4. QED
  BY <1>2, <1>3, FS_CardinalityType DEF TypeOK

\* What a handler's step does to the set of handlers about to record an acceptance.
LEMMA RecordingStep ==
  ASSUME TypeOK, NEW h \in Slots, NEW s, Goto(h, s)
  PROVE  Recording' = IF AboutToRecord(s) THEN Recording \cup {h} ELSE Recording \ {h}
<1>1. handlers'[h] = s /\ \A k \in Slots \ {h} : handlers'[k] = handlers[k]
  BY DEF Goto, TypeOK
<1>2. QED
  BY <1>1 DEF Recording, Standing, AboutToRecord

LEMMA UpdatesStep ==
  ASSUME TypeOK, AcceptInv, NEW h \in Slots, NEW s, Goto(h, s), LoadsOther(s), Knows(s)',
         AcceptanceRows \subseteq AcceptanceRows'
  PROVE  \A k \in Slots : (LoadsOther(handlers[k]) /\ Knows(handlers[k]))'
<1>1. handlers'[h] = s /\ \A k \in Slots \ {h} : handlers'[k] = handlers[k]
  BY DEF Goto, TypeOK
<1>2. QED
  BY <1>1 DEF AcceptInv, LoadsOther, Knows

LEMMA ElsewhereIsHarmless ==
  ASSUME NEW s, Elsewhere(s)
  PROVE  LoadsOther(s) /\ ~AboutToRecord(s) /\ Knows(s)'
  BY DEF Elsewhere, LoadsOther, AboutToRecord, Knows

\* A step that has nothing to do with acceptances.
LEMMA OtherStep ==
  ASSUME TypeOK, AcceptInv, NEW h \in Slots, NEW s, Goto(h, s), Elsewhere(s),
         ~AboutToRecord(handlers[h]), order.workers \subseteq order'.workers,
         UNCHANGED <<statusLog, orderWorkers, pendingUpdates, ends>>
  PROVE  AcceptInv'
<1>1. Recording' = Recording
  BY RecordingStep, ElsewhereIsHarmless DEF Recording, AboutToRecord, Standing
<1>2. AcceptanceRows' = AcceptanceRows
  BY DEF AcceptanceRows
<1>3. AcceptancesAccounted'
  BY <1>1, <1>2 DEF AcceptInv, AcceptancesAccounted
<1>4. QED
  BY <1>2, <1>3, UpdatesStep, ElsewhereIsHarmless DEF AcceptInv

LEMMA StatusInsertAccounted ==
  ASSUME TypeOK, RowsExist, AcceptInv, NEW h \in Slots, StatusInsert(h)
  PROVE  AcceptInv'
<1> DEFINE row == Len(statusLog) + 1
<1>1. PICK old : old = handlers[h]
  OBVIOUS
<1>2. old \in Handler /\ old.at = "status_insert"
  BY <1>1, HandlerNow DEF StatusInsert, Standing
<1>3. PICK a \in {"status_save", "cancel_call"} :
        Goto(h, [old EXCEPT !.snap.statuses = @ \cup {row}, !.at = a])
  BY <1>1 DEF StatusInsert
<1>4. PICK s : s = [old EXCEPT !.snap.statuses = @ \cup {row}, !.at = a]
  OBVIOUS
<1>5. Goto(h, s) /\ s.at = a /\ s.status = old.status /\ s.snap.workers = old.snap.workers
  BY <1>2, <1>3, <1>4 DEF Handler, OrderRow
<1>6. Recording' = Recording \ {h}
  BY <1>5, RecordingStep DEF AboutToRecord
<1>7. /\ UNCHANGED <<orderWorkers, pendingUpdates, ends>>
      /\ order'.workers = order.workers
  BY DEF StatusInsert, rest, TypeOK, OrderRow
<1>8. /\ statusLog' = Append(statusLog, old.status) /\ row \notin DOMAIN statusLog
      /\ DOMAIN statusLog' = DOMAIN statusLog \cup {row} /\ statusLog'[row] = old.status
      /\ \A i \in DOMAIN statusLog : statusLog'[i] = statusLog[i]
  BY <1>1 DEF StatusInsert, TypeOK
<1>9. old.status = "accepted" => old.snap.workers # {}
  BY <1>1, <1>2 DEF AcceptInv, Knows
<1> HIDE DEF row
<1>10. CASE old.status = "accepted"
  <2>1. h \in Recording
    BY <1>1, <1>2, <1>10 DEF Recording, Standing
  <2>2. AcceptanceRows' = AcceptanceRows \cup {row} /\ row \notin AcceptanceRows
    BY <1>8, <1>10 DEF AcceptanceRows
  <2>3. Cardinality(AcceptanceRows') = Cardinality(AcceptanceRows) + 1
    BY <2>2, CountRows, FS_AddElement
  <2>4. Cardinality(Recording') = Cardinality(Recording) - 1
    BY <1>6, <2>1, CountRows, FS_RemoveElement
  <2>5. AcceptancesAccounted'
    BY <1>7, <2>3, <2>4, CountRows DEF AcceptInv, AcceptancesAccounted
  <2>6. LoadsOther(s) /\ Knows(s)'
    BY <1>5, <1>9, <2>2 DEF LoadsOther, Knows
  <2>7. QED
    BY <1>5, <1>7, <2>2, <2>5, <2>6, UpdatesStep DEF AcceptInv
<1>11. CASE old.status # "accepted"
  <2>1. Recording' = Recording
    BY <1>1, <1>6, <1>11 DEF Recording
  <2>2. AcceptanceRows' = AcceptanceRows
    BY <1>8, <1>11 DEF AcceptanceRows
  <2>3. AcceptancesAccounted'
    BY <1>7, <2>1, <2>2 DEF AcceptInv, AcceptancesAccounted
  <2>4. LoadsOther(s) /\ Knows(s)'
    BY <1>5, <1>11 DEF LoadsOther, Knows
  <2>5. QED
    BY <1>5, <1>7, <2>2, <2>3, <2>4, UpdatesStep DEF AcceptInv
<1>12. QED
  BY <1>10, <1>11

LEMMA AcceptedUpdateAccounted ==
  ASSUME TypeOK, RowsExist, AcceptInv, NEW h \in Slots, AcceptedUpdate(h)
  PROVE  AcceptInv'
<1> DEFINE t == Loaded("accepted", {})
<1>0. PICK s : s = t
  OBVIOUS
<1>1. s.at = "status_insert" /\ s.status = "accepted" /\ s.snap = order
  BY <1>0 DEF Loaded, Idle
<1>2. Goto(h, s)
  BY <1>0 DEF AcceptedUpdate
<1>3. Recording' = Recording \cup {h} /\ h \notin Recording
  BY <1>1, <1>2, RecordingStep DEF AboutToRecord, Recording, Standing, AcceptedUpdate, Free
<1>4. Cardinality(Recording') = Cardinality(Recording) + 1
  BY <1>3, CountRows, FS_AddElement
<1>5. AcceptanceRows' = AcceptanceRows /\ Len(orderWorkers') = Len(orderWorkers)
  BY DEF AcceptanceRows, AcceptedUpdate, db
<1>6. /\ pendingUpdates > 0 /\ pendingUpdates' = pendingUpdates - 1
      /\ UNCHANGED <<order, orderWorkers, ends>>
  BY DEF AcceptedUpdate, db
<1>7. AcceptancesAccounted'
  BY <1>4, <1>5, <1>6, CountRows DEF AcceptInv, AcceptancesAccounted
<1>8. order.workers # {}
  <2>1. Len(orderWorkers) > 0
    BY <1>6, CountRows DEF AcceptInv, AcceptancesAccounted
  <2>2. orderWorkers # << >>
    BY <2>1
  <2>3. QED
    BY <2>2 DEF AcceptInv
<1>9. LoadsOther(s) /\ Knows(s)'
  BY <1>1, <1>8 DEF LoadsOther, Knows
<1>10. QED
  BY <1>2, <1>5, <1>6, <1>7, <1>9, UpdatesStep DEF AcceptInv

LEMMA AssignAccounted ==
  ASSUME TypeOK, RowsExist, AcceptInv, NEW h \in Slots, Assign(h)
  PROVE  AcceptInv'
<1>1. handlers[h] \in Handler /\ handlers[h].at = "assign"
  BY HandlerNow DEF Assign, Standing
<1>2. CASE Finish(h) /\ UNCHANGED <<order, orderWorkers, pendingUpdates>>
  <2>1. Elsewhere(Idle) /\ ~AboutToRecord(handlers[h])
    BY <1>1 DEF Elsewhere, Idle, AboutToRecord
  <2>2. QED
    BY <1>2, <2>1, OtherStep DEF Assign, Finish
<1>3. ASSUME NEW a \in {"respond", "task1"}, Advance(h, a), pendingUpdates' = pendingUpdates + 1,
             orderWorkers' = Append(orderWorkers, calls[handlers[h].call].worker),
             order' = [order EXCEPT !.workers = @ \cup {Len(orderWorkers) + 1}]
      PROVE  AcceptInv'
  <2>1. PICK s : s = [handlers[h] EXCEPT !.at = a]
    OBVIOUS
  <2>2. Goto(h, s) /\ s.at = a
    BY <1>1, <1>3, <2>1 DEF Advance, Goto, TypeOK, Handler
  <2>3. Recording' = Recording
    BY <1>1, <2>2, RecordingStep DEF AboutToRecord, Recording, Standing
  <2>4. AcceptanceRows' = AcceptanceRows
    BY DEF AcceptanceRows, Assign
  <2>5. Len(orderWorkers') = Len(orderWorkers) + 1 /\ ends' = ends
    BY <1>3 DEF TypeOK, Assign
  <2>6. AcceptancesAccounted'
    <3>1. PICK rows \in Nat, recording \in Nat :
            /\ rows = Cardinality(AcceptanceRows) /\ recording = Cardinality(Recording)
            /\ rows = Cardinality(AcceptanceRows') /\ recording = Cardinality(Recording')
      BY <2>3, <2>4, CountRows
    <3>2. /\ rows + pendingUpdates + recording <= Len(orderWorkers)
          /\ ends > 0 => Len(orderWorkers) > 1
          /\ ends = 0 => rows + pendingUpdates + recording = Len(orderWorkers)
      BY <3>1 DEF AcceptInv, AcceptancesAccounted
    <3>3. /\ rows + pendingUpdates' + recording <= Len(orderWorkers')
          /\ rows + pendingUpdates' + recording > 0
          /\ ends' > 0 => Len(orderWorkers') > 1
          /\ ends' = 0 => rows + pendingUpdates' + recording = Len(orderWorkers')
      BY <1>3, <2>5, <3>2, CountRows
    <3>4. QED
      BY <3>1, <3>3 DEF AcceptancesAccounted
  <2>7. order'.workers # {}
    BY <1>3 DEF TypeOK, OrderRow
  <2>8. Elsewhere(s)
    BY <2>2 DEF Elsewhere
  <2>9. QED
    BY <2>2, <2>4, <2>6, <2>7, <2>8, UpdatesStep, ElsewhereIsHarmless DEF AcceptInv
<1>4. QED
  BY <1>2, <1>3 DEF Assign

\* The steps of handlers that neither stand before nor come to the insertion of an
\* accepted row.
LEMMA OtherStepsAccounted ==
  ASSUME TypeOK, RowsExist, AcceptInv, NEW h \in Slots,
         \/ StatusLoad(h) \/ CancelCall(h) \/ StatusSave(h) \/ SearchWorker(h)
         \/ FindWilling(h) \/ SearchSave(h) \/ CallWorker(h) \/ NextLoad(h) \/ NextCalls(h)
         \/ NextSave(h) \/ PlaceCall(h) \/ Verdict(h) \/ CreateTask(h) \/ SaveTaskAgain(h)
         \/ RespondAccepted(h) \/ FollowUp(h) \/ CancelOrder(h) \/ CancelTasks(h)
         \/ \E c \in jobs.discard : DiscardCheck(h, c)
         \/ \E c \in DOMAIN calls : AcceptOrder(h, c)
  PROVE  AcceptInv'
<1> DEFINE Harmless(s) == Elsewhere(s)
<1>1. handlers[h] \in Handler /\ LoadsOther(handlers[h])
  BY HandlerNow DEF AcceptInv
<1>2. ~AboutToRecord(handlers[h]) /\ UNCHANGED <<statusLog, orderWorkers, pendingUpdates, ends>>
  BY DEF AboutToRecord, StatusLoad, CancelCall, StatusSave, SearchWorker, FindWilling,
         SearchSave, CallWorker, NextLoad, NextCalls, NextSave, PlaceCall, Verdict, CreateTask,
         SaveTaskAgain, RespondAccepted, FollowUp, CancelOrder, CancelTasks, DiscardCheck,
         AcceptOrder, Standing, Free, db, rest
<1>3. PICK s : Goto(h, s) /\ Harmless(s)
  <2>1. Harmless(Idle)
    BY DEF Idle, Elsewhere
  <2>2. ASSUME UNCHANGED handlers, Free(h) PROVE \E s : Goto(h, s) /\ Harmless(s)
    BY <1>1, <1>2, <2>2, StayIsGoto DEF Elsewhere, Free
  <2>3. ASSUME NEW a, Advance(h, a), a \notin {"status_load", "status_insert", "status_save"}
        PROVE  \E s : Goto(h, s) /\ Harmless(s)
    <3>1. PICK s : s = [handlers[h] EXCEPT !.at = a]
      OBVIOUS
    <3>2. Goto(h, s) /\ s.at = a
      BY <1>1, <2>3, <3>1 DEF Advance, Goto, TypeOK, Handler
    <3>3. QED
      BY <2>3, <3>2 DEF Elsewhere
  <2>4. CASE StatusLoad(h)
    <3>1. handlers[h].status # "accepted"
      BY <1>1, <2>4 DEF StatusLoad, Standing, LoadsOther
    <3>2. PICK s : s = Loaded(handlers[h].status, handlers[h].tasks)
      OBVIOUS
    <3>3. s.at = "status_insert" /\ s.status = handlers[h].status
      BY <3>2 DEF Loaded, Idle
    <3>4. QED
      BY <2>4, <3>1, <3>2, <3>3 DEF StatusLoad, Elsewhere
  <2>5. CASE CancelCall(h) \/ SearchSave(h) \/ PlaceCall(h) \/ Verdict(h) \/ FollowUp(h)
             \/ CancelTasks(h)
    BY <2>1, <2>5 DEF CancelCall, SearchSave, PlaceCall, Verdict, FollowUp, CancelTasks, Finish
  <2>6. CASE StatusSave(h)
    <3>1. PICK a \in {"search", "cancel_tasks", "idle"}, pending \in {{}, handlers[h].tasks} :
            Goto(h, [Idle EXCEPT !.at = a, !.tasks = pending]) \/ Goto(h, Idle)
      BY <2>6 DEF StatusSave, Finish, AfterStatus
    <3>2. Harmless([Idle EXCEPT !.at = a, !.tasks = pending])
      BY DEF Idle, Elsewhere
    <3>3. QED
      BY <2>1, <3>1, <3>2
  <2>7. CASE SearchWorker(h)
    <3>1. Harmless([Idle EXCEPT !.at = "status_load", !.status = "searching"])
      BY DEF Idle, Elsewhere
    <3>2. QED
      BY <2>2, <2>7, <3>1 DEF SearchWorker
  <2>8. CASE FindWilling(h)
    <3>1. /\ Harmless([Idle EXCEPT !.at = "status_load", !.status = "failed"])
          /\ \A o : Harmless([Idle EXCEPT !.at = "search_save", !.snap = o])
      BY DEF Idle, Elsewhere
    <3>2. QED
      BY <2>8, <3>1 DEF FindWilling
  <2>9. CASE CallWorker(h) \/ NextLoad(h)
    <3>1. /\ Harmless([Idle EXCEPT !.at = "next_load"])
          /\ Harmless([Idle EXCEPT !.at = "status_load", !.status = "failed"])
          /\ \A o, w : Harmless([Idle EXCEPT !.at = "next_calls", !.snap = o, !.worker = w])
      BY DEF Idle, Elsewhere
    <3>2. QED
      BY <2>1, <2>2, <2>9, <3>1 DEF CallWorker, NextLoad, Finish
  <2>10. CASE NextCalls(h)
    BY <2>3, <2>10 DEF NextCalls
  <2>11. CASE NextSave(h)
    <3>1. /\ Harmless([Idle EXCEPT !.at = "next_load"])
          /\ \A w : Harmless([Idle EXCEPT !.at = "place", !.worker = w])
      BY DEF Idle, Elsewhere
    <3>2. QED
      BY <2>1, <2>11, <3>1 DEF NextSave, Finish
  <2>12. CASE CreateTask(h)
    <3>1. PICK s : s = [handlers[h] EXCEPT !.at = "task2", !.tasks = {Len(tasks) + 1}]
      OBVIOUS
    <3>2. s.at = "task2"
      BY <1>1, <3>1 DEF Handler
    <3>3. QED
      BY <2>12, <3>1, <3>2 DEF CreateTask, Elsewhere
  <2>13. CASE SaveTaskAgain(h)
    <3>1. Harmless([Idle EXCEPT !.at = "respond", !.call = handlers[h].call])
      BY DEF Idle, Elsewhere
    <3>2. QED
      BY <2>3, <2>13, <3>1 DEF SaveTaskAgain
  <2>14. CASE RespondAccepted(h)
    <3>1. Harmless([Idle EXCEPT !.at = "follow_up"])
      BY DEF Idle, Elsewhere
    <3>2. QED
      BY <2>1, <2>14, <3>1 DEF RespondAccepted, Finish
  <2>15. CASE CancelOrder(h)
    <3>1. \A pending : Harmless([Idle EXCEPT !.at = "status_load", !.status = "cancelled",
                                             !.tasks = pending])
      BY DEF Idle, Elsewhere
    <3>2. QED
      BY <2>2, <2>15, <3>1 DEF CancelOrder
  <2>16. CASE \E c \in jobs.discard : DiscardCheck(h, c)
    <3>1. \A c, f : Harmless([Idle EXCEPT !.at = "verdict", !.call = c, !.flag = f])
      BY DEF Idle, Elsewhere
    <3>2. QED
      BY <2>2, <2>16, <3>1 DEF DiscardCheck
  <2>17. CASE \E c \in DOMAIN calls : AcceptOrder(h, c)
    <3>1. \A c : Harmless([Idle EXCEPT !.at = "assign", !.call = c])
      BY DEF Idle, Elsewhere
    <3>2. QED
      BY <2>2, <2>17, <3>1 DEF AcceptOrder
  <2>18. QED
    BY <2>4, <2>5, <2>6, <2>7, <2>8, <2>9, <2>10, <2>11, <2>12, <2>13, <2>14, <2>15, <2>16,
       <2>17
<1>4. order.workers \subseteq order'.workers
  <2>1. handlers[h].snap \in OrderRow /\ order \in OrderRow
    BY HandlerNow DEF TypeOK
  <2>2. CASE StatusSave(h) \/ SearchSave(h) \/ NextSave(h)
    BY <2>1, <2>2 DEF StatusSave, SearchSave, NextSave, CanSave, Save, OrderRow
  <2>3. CASE CancelCall(h) \/ PlaceCall(h) \/ CreateTask(h) \/ SaveTaskAgain(h)
    BY <2>1, <2>3 DEF CancelCall, PlaceCall, CreateTask, SaveTaskAgain, OrderRow
  <2>4. CASE UNCHANGED order
    BY <2>4
  <2>5. QED
    BY <2>2, <2>3, <2>4 DEF StatusLoad, SearchWorker, FindWilling, CallWorker, NextLoad,
         NextCalls, Verdict, RespondAccepted, FollowUp, CancelOrder, CancelTasks, DiscardCheck,
         AcceptOrder, db
<1>5. QED
  BY <1>2, <1>3, <1>4, OtherStep

\* The end of the process: the update whose save failed has written its row, and the
\* save failed because another worker has been assigned since it loaded the order.
LEMMA ProcessEndAccounted ==
  ASSUME TypeOK, RowsExist, AcceptInv, NEW h \in Slots, ProcessEnd(h)
  PROVE  AcceptInv'
<1>1. /\ handlers[h].at = "status_save" /\ handlers[h].status = "accepted"
      /\ ~CanSave(handlers[h].snap) /\ pendingUpdates' = 0 /\ ends' = ends + 1
      /\ \A k \in Slots : handlers'[k] = Idle
  BY DEF ProcessEnd, Standing
<1>2. UNCHANGED <<statusLog, order, orderWorkers>>
  BY DEF ProcessEnd, db
<1>3. handlers[h].snap.workers # {} /\ AcceptanceRows # {}
  BY <1>1 DEF AcceptInv, Knows
<1>4. Len(orderWorkers) > 1
  <2>1. PICK i \in order.workers : i \notin handlers[h].snap.workers
    BY <1>1 DEF CanSave
  <2>2. PICK j : j \in handlers[h].snap.workers
    BY <1>3
  <2>3. i \in DOMAIN orderWorkers /\ j \in DOMAIN orderWorkers /\ i # j
    BY <2>1, <2>2 DEF RowsExist, RowsOf, HandlerRows
  <2>4. QED
    BY <2>3 DEF TypeOK
<1>5. Recording' = {} /\ AcceptanceRows' = AcceptanceRows
  BY <1>1, <1>2 DEF Recording, AcceptanceRows, Standing, Idle
<1>6. Cardinality(Recording') = 0
  BY <1>5, FS_EmptySet
<1>7. Cardinality(AcceptanceRows) > 0
  BY <1>3, CountRows, FS_EmptySet
<1>8. AcceptancesAccounted'
  <2>1. ends \in Nat
    BY DEF TypeOK
  <2>2. QED
    BY <1>1, <1>2, <1>4, <1>5, <1>6, <1>7, <2>1, CountRows DEF AcceptInv, AcceptancesAccounted
<1>9. \A k \in Slots : (LoadsOther(handlers[k]) /\ Knows(handlers[k]))'
  BY <1>1 DEF LoadsOther, Knows, Idle
<1>10. QED
  BY <1>2, <1>8, <1>9 DEF AcceptInv

LEMMA InitAccounted ==
  ASSUME Init
  PROVE  AcceptInv
<1>1. AcceptanceRows = {} /\ Recording = {}
  <2>1. statusLog = <<"placed">> /\ \A h \in Slots : handlers[h] = Idle
    BY DEF Init
  <2>2. QED
    BY <2>1 DEF AcceptanceRows, Recording, Standing, Idle
<1>2. /\ orderWorkers = << >> /\ pendingUpdates = 0 /\ ends = 0
      /\ \A h \in Slots : handlers[h] = Idle
  BY DEF Init
<1>3. AcceptancesAccounted
  BY <1>1, <1>2, FS_EmptySet DEF AcceptancesAccounted
<1>4. QED
  BY <1>2, <1>3 DEF AcceptInv, LoadsOther, Knows, Idle

LEMMA NextAccounted ==
  ASSUME TypeOK, RowsExist, AcceptInv, [Next]_vars
  PROVE  AcceptInv'
<1>1. ASSUME NEW h \in Slots, Resume(h) PROVE AcceptInv'
  BY <1>1, StatusInsertAccounted, AssignAccounted, ProcessEndAccounted, OtherStepsAccounted
     DEF Resume
<1>2. ASSUME NEW h \in Slots, StartJob(h) PROVE AcceptInv'
  BY <1>2, AcceptedUpdateAccounted, OtherStepsAccounted DEF StartJob
<1>3. ASSUME UNCHANGED <<statusLog, orderWorkers, order, pendingUpdates, ends, handlers>>
      PROVE  AcceptInv'
  BY <1>3 DEF AcceptInv, AcceptancesAccounted, AcceptanceRows, Recording, Standing, LoadsOther,
              Knows
<1>4. CASE People
  <2>1. ASSUME NEW c \in DOMAIN calls, ReceiveCall(c) \/ RejectOrder(c) PROVE AcceptInv'
    BY <1>3, <2>1 DEF ReceiveCall, RejectOrder, rest
  <2>2. QED
    BY <1>4, <2>1, OtherStepsAccounted DEF People
<1>5. CASE UNCHANGED vars
  BY <1>3, <1>5 DEF vars, db, rest
<1>6. QED
  BY <1>1, <1>2, <1>4, <1>5 DEF Next, System

\* Every worker assigned has exactly one accepted status row, written or on its way,
\* for any number of workers, handlers and acceptances and with any service failing,
\* until two workers on one order end the process; then rows may be missing, but never
\* all of them.
THEOREM AcceptanceTheorem == Spec => []AcceptancesAccounted
<1>1. Init => AcceptInv
  BY InitAccounted
<1>2. TypeOK /\ RowsExist /\ AcceptInv /\ [Next]_vars => AcceptInv'
  BY NextAccounted
<1>3. AcceptInv => AcceptancesAccounted
  BY DEF AcceptInv
<1>4. QED
  BY <1>1, <1>2, <1>3, TypeCorrect, PTL DEF Spec

=============================================================================
