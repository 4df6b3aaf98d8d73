-------------------------- MODULE SettlementProofs --------------------------
(***************************************************************************)
(* Theorems about Settlement, for every set of invoices, methods and       *)
(* slots, every number of links, notifications and cancellations, with or  *)
(* without a restart, and however the notifications overlap.  No payment   *)
(* is received and dropped, none is dropped or an order completed without  *)
(* a receipt, finished work that nobody paid for is found as such, and as  *)
(* long as notifications do not overlap the payments implement             *)
(* InvoiceSettlement.                                                      *)
(***************************************************************************)
EXTENDS Settlement, RowLemmas

(***************************************************************************)
(* What the steps have in common.                                          *)
(***************************************************************************)
RowsTyped ==
  /\ statusLog \in Seq(Statuses)
  /\ order \in OrderRow
  /\ RowsOf(order) /\ order.statuses # {}
  /\ task \in TaskStatuses
  /\ payments \in Seq(Payment)

CountsTyped ==
  /\ asked \in 0..MaxPayments /\ notices \in 0..MaxNotices /\ cancels \in 0..MaxCancels
  /\ crashed \in BOOLEAN /\ overlapped \in BOOLEAN /\ hurried \in BOOLEAN

\* A step adds rows, and a payment keeps its invoice.
RowsGrow ==
  /\ DOMAIN statusLog \subseteq DOMAIN statusLog'
  /\ \A i \in Invoices : PaymentsOf(i) \subseteq PaymentsOf(i)'

LEMMA IdleTyped == Idle \in Handler /\ HandlerRows(Idle)
  BY DEF Idle, Handler, NoOrder, OrderRow, Statuses, HandlerRows, RowsOf

LEMMA HandlerNow ==
  ASSUME TypeOK, NEW h \in Slots
  PROVE  handlers[h] \in Handler /\ handlers[h].snap \in OrderRow /\ HandlerRows(handlers[h])
<1>1. handlers[h] \in Handler /\ HandlerRows(handlers[h])
  BY DEF TypeOK
<1>2. QED
  BY <1>1 DEF Handler

LEMMA RowsKept ==
  ASSUME RowsGrow, NEW s, HandlerRows(s)
  PROVE  HandlerRows(s)'
  BY DEF RowsGrow, HandlerRows, RowsOf

LEMMA OneMoves ==
  ASSUME TypeOK, RowsGrow, RowsTyped', CountsTyped',
         NEW h \in Slots, NEW s \in Handler, Goto(h, s), HandlerRows(s)'
  PROVE  TypeOK'
<1>1. handlers' \in [Slots -> Handler]
  BY DEF TypeOK, Goto
<1>2. ASSUME NEW k \in Slots PROVE HandlerRows(handlers[k])'
  <2>1. CASE k = h
    <3>1. handlers'[k] = s
      BY <2>1 DEF TypeOK, Goto
    <3>2. QED
      BY <3>1 DEF HandlerRows, RowsOf, PaymentsOf
  <2>2. CASE k # h
    <3>1. PICK t : t = handlers[k]
      OBVIOUS
    <3>2. HandlerRows(t)'
      BY <3>1, RowsKept DEF TypeOK
    <3>3. handlers'[k] = t
      BY <2>2, <3>1 DEF TypeOK, Goto
    <3>4. QED
      BY <3>2, <3>3 DEF HandlerRows, RowsOf, PaymentsOf
  <2>3. QED
    BY <2>1, <2>2
<1>3. QED
  BY <1>1, <1>2 DEF TypeOK, RowsTyped, CountsTyped

LEMMA RowsStill ==
  ASSUME TypeOK, UNCHANGED rows
  PROVE  RowsGrow /\ RowsTyped'
<1>1. RowsGrow
  BY DEF RowsGrow, rows, PaymentsOf
<1>2. RowsTyped'
  BY DEF RowsTyped, TypeOK, rows, RowsOf
<1>3. QED
  BY <1>1, <1>2

\* A step that changes no row and moves one handler, or none.
LEMMA MoveOnly ==
  ASSUME TypeOK, UNCHANGED rows, CountsTyped', NEW h \in Slots,
         NEW s \in Handler, HandlerRows(s), Goto(h, s)
  PROVE  TypeOK'
<1>1. RowsGrow /\ RowsTyped'
  BY RowsStill
<1>2. HandlerRows(s)'
  BY <1>1, RowsKept
<1>3. QED
  BY <1>1, <1>2, OneMoves

LEMMA StayIsGoto ==
  ASSUME TypeOK, NEW h \in Slots, UNCHANGED handlers
  PROVE  handlers[h] \in Handler /\ HandlerRows(handlers[h]) /\ Goto(h, handlers[h])
  BY DEF TypeOK, Goto

LEMMA CountsStill ==
  ASSUME TypeOK
  PROVE  /\ CountsTyped
         /\ UNCHANGED <<counts, past>> => CountsTyped'
  BY DEF TypeOK, CountsTyped, counts, past

\* The handler goes on to another await with the locals it has.
LEMMA AdvanceTyped ==
  ASSUME TypeOK, NEW h \in Slots,
         NEW a \in {"cancel_task", "drop", "invoice_load", "complete"}, Advance(h, a),
         a # "cancel_task" => handlers[h].at \in {"receive", "drop", "invoice_load"}
  PROVE  \E s \in Handler : HandlerRows(s) /\ Goto(h, s)
<1>1. PICK old : old = handlers[h]
  OBVIOUS
<1>2. old \in Handler /\ HandlerRows(old)
  BY <1>1, HandlerNow
<1>3. PICK s : s = [old EXCEPT !.at = a]
  OBVIOUS
<1>4. s \in Handler /\ s.snap = old.snap /\ s.at = a
      /\ s.invoice = old.invoice /\ s.method = old.method
  BY <1>2, <1>3 DEF Handler
<1>5. HandlerRows(s)
  BY <1>1, <1>2, <1>4 DEF HandlerRows
<1>6. Goto(h, s)
  BY <1>1, <1>3 DEF Advance, Goto, TypeOK
<1>7. QED
  BY <1>4, <1>5, <1>6

LEMMA UpdateTyped ==
  ASSUME NEW st \in Statuses, NEW b \in BOOLEAN
  PROVE  LET s == [UpdateStatus(st) EXCEPT !.seen = b] IN
         s \in Handler /\ HandlerRows(s) /\ UpdateStatus(st) \in Handler
           /\ HandlerRows(UpdateStatus(st))
  BY IdleTyped DEF UpdateStatus, Handler, HandlerRows, RowsOf, Idle, NoOrder

(***************************************************************************)
(* updateOrderStatus.                                                      *)
(***************************************************************************)
LEMMA StatusLoadTyped ==
  ASSUME TypeOK, NEW h \in Slots, StatusLoad(h)
  PROVE  TypeOK'
<1>1. PICK old : old = handlers[h]
  OBVIOUS
<1>2. old \in Handler /\ HandlerRows(old) /\ old.at = "status_load"
  BY <1>1, HandlerNow DEF StatusLoad, Standing
<1>3. PICK s : s = [old EXCEPT !.at = "status_insert", !.snap = order]
  OBVIOUS
<1>4. s \in Handler /\ HandlerRows(s)
  BY <1>2, <1>3 DEF Handler, HandlerRows, TypeOK
<1>5. Goto(h, s) /\ UNCHANGED <<rows, counts, past>>
  BY <1>1, <1>3 DEF StatusLoad
<1>6. QED
  BY <1>4, <1>5, CountsStill, MoveOnly

\* A row appended to the status log and linked to the order.
LEMMA RowLinked ==
  ASSUME TypeOK, NEW st \in Statuses, statusLog' = Append(statusLog, st),
         order' = [order EXCEPT !.statuses = @ \cup {Len(statusLog) + 1}],
         UNCHANGED <<task, payments>>
  PROVE  /\ RowsGrow /\ RowsTyped' /\ Len(statusLog) + 1 \in Nat
         /\ DOMAIN statusLog' = DOMAIN statusLog \cup {Len(statusLog) + 1}
<1> DEFINE row == Len(statusLog) + 1
<1>1. /\ statusLog' \in Seq(Statuses) /\ row \in Nat
      /\ DOMAIN statusLog' = DOMAIN statusLog \cup {row}
  BY DEF TypeOK
<1> HIDE DEF row
<1>2. order' \in OrderRow /\ order'.statuses = order.statuses \cup {row}
  BY <1>1 DEF TypeOK, OrderRow, row
<1>3. RowsOf(order)' /\ order'.statuses # {}
  BY <1>1, <1>2 DEF TypeOK, RowsOf
<1>4. RowsGrow
  BY <1>1 DEF RowsGrow, PaymentsOf
<1>5. QED
  BY <1>1, <1>2, <1>3, <1>4 DEF RowsTyped, TypeOK, row

LEMMA StatusInsertTyped ==
  ASSUME TypeOK, NEW h \in Slots, StatusInsert(h)
  PROVE  TypeOK'
<1> DEFINE row == Len(statusLog) + 1
<1>1. PICK old : old = handlers[h]
  OBVIOUS
<1>2. old \in Handler /\ old.snap \in OrderRow /\ HandlerRows(old) /\ old.status \in Statuses
  BY <1>1, HandlerNow DEF Handler
<1>3. /\ RowsGrow /\ RowsTyped' /\ row \in Nat
      /\ DOMAIN statusLog' = DOMAIN statusLog \cup {row}
  BY <1>1, <1>2, RowLinked DEF StatusInsert
<1>4. CountsTyped'
  BY CountsStill DEF StatusInsert
<1> HIDE DEF row
<1>5. PICK o : o = [old.snap EXCEPT !.statuses = @ \cup {row}]
  OBVIOUS
<1>6. o \in OrderRow /\ RowsOf(o)' /\ o.statuses # {}
  BY <1>2, <1>3, <1>5 DEF OrderRow, HandlerRows, RowsOf
<1>7. PICK s : s = [old EXCEPT !.at = "status_save", !.snap = o]
  OBVIOUS
<1>8. s \in Handler /\ s.snap = o /\ s.at = "status_save"
  BY <1>2, <1>6, <1>7 DEF Handler
<1>9. HandlerRows(s)'
  BY <1>6, <1>8 DEF HandlerRows
<1>10. Goto(h, s) \/ Goto(h, Idle)
  BY <1>1, <1>2, <1>5, <1>7 DEF StatusInsert, row, Goto, Handler
<1>11. HandlerRows(Idle)'
  BY <1>3, IdleTyped, RowsKept
<1>12. QED
  BY <1>3, <1>4, <1>8, <1>9, <1>10, <1>11, IdleTyped, OneMoves

LEMMA StatusSaveTyped ==
  ASSUME TypeOK, NEW h \in Slots, StatusSave(h)
  PROVE  TypeOK'
<1>1. PICK s \in Handler : HandlerRows(s) /\ Goto(h, s)
  BY IdleTyped, AdvanceTyped DEF StatusSave, Finish
<1>2. /\ handlers[h].snap \in OrderRow
      /\ RowsOf(handlers[h].snap) /\ handlers[h].snap.statuses # {}
  BY HandlerNow DEF StatusSave, Standing, HandlerRows
<1>3. UNCHANGED <<statusLog, task, payments, counts, past>> /\ order' = handlers[h].snap
  BY DEF StatusSave
<1>4. RowsGrow
  BY <1>3 DEF RowsGrow, PaymentsOf
<1>5. RowsTyped'
  BY <1>2, <1>3 DEF RowsTyped, RowsOf, TypeOK
<1>6. QED
  BY <1>1, <1>3, <1>4, <1>5, RowsKept, CountsStill, OneMoves

(***************************************************************************)
(* The worker's callbacks, the cancellation, the crash.                    *)
(***************************************************************************)
LEMMA StartTaskTyped ==
  ASSUME TypeOK, NEW h \in Slots, StartTask(h)
  PROVE  TypeOK'
<1>1. PICK s : s = [Idle EXCEPT !.at = "start_save", !.seen = Ever(order, "on_going")]
  OBVIOUS
<1>2. s \in Handler /\ HandlerRows(s)
  <2>1. Ever(order, "on_going") \in BOOLEAN
    BY DEF Ever
  <2>2. QED
    BY <1>1, <2>1, IdleTyped DEF Handler, HandlerRows, RowsOf, Idle, NoOrder
<1>3. Goto(h, s) /\ UNCHANGED <<rows, counts, past>>
  BY <1>1 DEF StartTask
<1>4. QED
  BY <1>2, <1>3, CountsStill, MoveOnly

LEMMA EndTaskTyped ==
  ASSUME TypeOK, NEW h \in Slots, EndTask(h)
  PROVE  TypeOK'
<1>1. PICK s : s = [Idle EXCEPT !.at = "end_save", !.seen = Ever(order, "completed")]
  OBVIOUS
<1>2. s \in Handler /\ HandlerRows(s)
  <2>1. Ever(order, "completed") \in BOOLEAN
    BY DEF Ever
  <2>2. QED
    BY <1>1, <2>1, IdleTyped DEF Handler, HandlerRows, RowsOf, Idle, NoOrder
<1>3. Goto(h, s) /\ UNCHANGED rows
  BY <1>1 DEF EndTask
<1>4. CountsTyped'
  BY CountsStill DEF EndTask, EndComes, CountsTyped, counts
<1>5. QED
  BY <1>2, <1>3, <1>4, MoveOnly

\* The steps that save the task.
LEMMA TaskSaved ==
  ASSUME TypeOK, NEW h \in Slots, NEW st \in TaskStatuses, task' = st,
         UNCHANGED <<statusLog, order, payments, counts, past>>,
         NEW s \in Handler, HandlerRows(s), Goto(h, s)
  PROVE  TypeOK'
<1>1. RowsGrow
  BY DEF RowsGrow, PaymentsOf
<1>2. RowsTyped'
  BY DEF RowsTyped, RowsOf, TypeOK
<1>3. QED
  BY <1>1, <1>2, RowsKept, CountsStill, OneMoves

LEMMA TaskSavesTyped ==
  ASSUME TypeOK, NEW h \in Slots, StartSave(h) \/ EndSave(h) \/ CancelTask(h)
  PROVE  TypeOK'
<1>1. CASE StartSave(h)
  <2>1. PICK s \in Handler : HandlerRows(s) /\ Goto(h, s)
    BY <1>1, IdleTyped, UpdateTyped DEF StartSave, Statuses
  <2>2. task' = "in_progress" /\ UNCHANGED <<statusLog, order, payments, counts, past>>
    BY <1>1 DEF StartSave
  <2>3. QED
    BY <2>1, <2>2, TaskSaved DEF TaskStatuses
<1>2. CASE EndSave(h)
  <2>1. PICK s \in Handler : HandlerRows(s) /\ Goto(h, s)
    BY <1>2, IdleTyped, UpdateTyped DEF EndSave, Statuses
  <2>2. task' = "completed" /\ UNCHANGED <<statusLog, order, payments, counts, past>>
    BY <1>2 DEF EndSave
  <2>3. QED
    BY <2>1, <2>2, TaskSaved DEF TaskStatuses
<1>3. CASE CancelTask(h)
  <2>1. Goto(h, Idle) /\ task' = "cancelled"
        /\ UNCHANGED <<statusLog, order, payments, counts, past>>
    BY <1>3 DEF CancelTask, Finish
  <2>2. QED
    BY <2>1, IdleTyped, TaskSaved DEF TaskStatuses
<1>4. QED
  BY <1>1, <1>2, <1>3

LEMMA CancelOrderTyped ==
  ASSUME TypeOK, NEW h \in Slots, CancelOrder(h)
  PROVE  TypeOK'
<1>1. PICK s \in Handler : HandlerRows(s) /\ Goto(h, s)
  <2>1. (task = "pending") \in BOOLEAN
    OBVIOUS
  <2>2. QED
    BY <2>1, UpdateTyped, StayIsGoto DEF CancelOrder, Statuses
<1>2. CountsTyped' /\ UNCHANGED rows
  BY CountsStill, LimitsAssumption DEF CancelOrder, CountsTyped, past
<1>3. QED
  BY <1>1, <1>2, MoveOnly

LEMMA CrashTyped ==
  ASSUME TypeOK, Crash
  PROVE  TypeOK'
<1>1. RowsGrow /\ RowsTyped'
  BY RowsStill DEF Crash
<1>2. CountsTyped'
  BY DEF Crash, CountsTyped, TypeOK, counts
<1>3. HandlerRows(Idle)'
  BY <1>1, IdleTyped, RowsKept
<1>4. handlers' = [h \in Slots |-> Idle]
  BY DEF Crash
<1>5. \A h \in Slots : HandlerRows(handlers[h])'
  BY <1>3, <1>4 DEF HandlerRows, RowsOf, PaymentsOf
<1>6. handlers' \in [Slots -> Handler]
  BY <1>4, IdleTyped
<1>7. QED
  BY <1>1, <1>2, <1>5, <1>6 DEF TypeOK, RowsTyped, CountsTyped

(***************************************************************************)
(* Payment links and notifications.                                        *)
(***************************************************************************)
LEMMA CreatePaymentTyped ==
  ASSUME TypeOK, NEW h \in Slots, CreatePayment(h)
  PROVE  TypeOK'
<1>1. PICK i \in Invoices, m \in Methods :
        /\ order' = [order EXCEPT !.invoices = @ \cup {i}]
        /\ Goto(h, [Idle EXCEPT !.at = "payment_save", !.invoice = i, !.method = m])
  BY DEF CreatePayment
<1>2. PICK s : s = [Idle EXCEPT !.at = "payment_save", !.invoice = i, !.method = m]
  OBVIOUS
<1>3. s \in Handler /\ HandlerRows(s)
  BY <1>2, IdleTyped DEF Handler, HandlerRows, RowsOf, Idle, NoOrder
<1>4. UNCHANGED <<statusLog, task, payments>> /\ CountsTyped'
  BY LimitsAssumption DEF CreatePayment, TypeOK, CountsTyped, past
<1>5. order' \in OrderRow /\ order'.statuses = order.statuses
  BY <1>1 DEF TypeOK, OrderRow
<1>6. RowsGrow /\ RowsTyped'
  BY <1>4, <1>5 DEF RowsGrow, PaymentsOf, RowsTyped, RowsOf, TypeOK
<1>7. QED
  BY <1>1, <1>2, <1>3, <1>4, <1>6, RowsKept, OneMoves

\* The shape of the payments after a link has been saved.
LEMMA PaymentAdded ==
  ASSUME TypeOK, NEW h \in Slots, SavePayment(h)
  PROVE  /\ payments' \in Seq(Payment)
         /\ DOMAIN payments' = DOMAIN payments \cup {Len(payments) + 1}
         /\ Len(payments) + 1 \notin DOMAIN payments
         /\ \A p \in DOMAIN payments : payments'[p] = payments[p]
         /\ payments'[Len(payments) + 1] = [invoice |-> handlers[h].invoice,
               method |-> handlers[h].method, received |-> FALSE, dropped |-> FALSE]
         /\ handlers[h].invoice \in Invoices /\ handlers[h].method \in Methods
<1>1. handlers[h].invoice \in Invoices /\ handlers[h].method \in Methods
  BY HandlerNow DEF HandlerRows, SavePayment, Standing
<1>2. PICK row : row = [invoice |-> handlers[h].invoice, method |-> handlers[h].method,
                        received |-> FALSE, dropped |-> FALSE]
  OBVIOUS
<1>3. row \in Payment
  BY <1>1, <1>2 DEF Payment
<1>4. payments' = Append(payments, row) /\ payments \in Seq(Payment)
  BY <1>2 DEF SavePayment, TypeOK
<1>5. QED
  BY <1>1, <1>2, <1>3, <1>4

LEMMA SavePaymentTyped ==
  ASSUME TypeOK, NEW h \in Slots, SavePayment(h)
  PROVE  TypeOK'
<1>1. Goto(h, Idle) /\ UNCHANGED <<statusLog, order, task, counts, past>>
  BY DEF SavePayment, Finish
<1>2. RowsGrow
  BY <1>1, PaymentAdded DEF RowsGrow, PaymentsOf
<1>3. RowsTyped'
  BY <1>1, PaymentAdded DEF RowsTyped, RowsOf, TypeOK
<1>4. QED
  BY <1>1, <1>2, <1>3, IdleTyped, RowsKept, CountsStill, OneMoves

LEMMA PaymentTyped ==
  ASSUME TypeOK, NEW p \in DOMAIN payments
  PROVE  /\ p \in Nat /\ payments[p] \in Payment
         /\ payments[p].invoice \in Invoices /\ payments[p].method \in Methods
<1>1. payments \in Seq(Payment)
  BY DEF TypeOK
<1>2. payments[p] \in Payment /\ p \in Nat
  BY <1>1
<1>3. QED
  BY <1>2 DEF Payment

LEMMA ReceivePaymentTyped ==
  ASSUME TypeOK, NEW h \in Slots, NEW p \in DOMAIN payments, ReceivePayment(h, p)
  PROVE  TypeOK'
<1>1. PICK s : s = Notice(payments[p].invoice, payments[p].method)
  OBVIOUS
<1>2. s \in Handler /\ HandlerRows(s)
  BY <1>1, IdleTyped, PaymentTyped DEF Notice, Handler, HandlerRows, RowsOf, Idle, NoOrder
<1>3. PICK t \in Handler : HandlerRows(t) /\ Goto(h, t)
  BY <1>1, <1>2, StayIsGoto DEF ReceivePayment
<1>4. CountsTyped' /\ UNCHANGED rows
  BY LimitsAssumption DEF ReceivePayment, Notified, TypeOK, CountsTyped
<1>5. QED
  BY <1>3, <1>4, MoveOnly

LEMMA CandidateFound ==
  ASSUME TypeOK, NEW h \in Slots, Candidates(h) # {}
  PROVE  Max(Candidates(h)) \in Candidates(h) /\ Max(Candidates(h)) \in Nat
<1>1. DOMAIN payments = 1..Len(payments) /\ Len(payments) \in Nat
  BY DEF TypeOK
<1>2. Candidates(h) \subseteq 1..Len(payments)
  BY <1>1 DEF Candidates, PaymentsOf
<1>3. Max(Candidates(h)) \in Candidates(h)
  BY <1>1, <1>2, MaxInSet
<1>4. QED
  BY <1>2, <1>3

LEMMA FindPaymentTyped ==
  ASSUME TypeOK, NEW h \in Slots, FindPayment(h)
  PROVE  TypeOK'
<1>1. PICK old : old = handlers[h]
  OBVIOUS
<1>2. old \in Handler /\ HandlerRows(old) /\ old.at = "find"
  BY <1>1, HandlerNow DEF FindPayment, Standing
<1>3. PICK s \in Handler : HandlerRows(s) /\ Goto(h, s)
  <2>1. CASE Candidates(h) = {}
    BY <2>1, IdleTyped DEF FindPayment, Finish
  <2>2. CASE Candidates(h) # {}
    <3>1. PICK t : t = [old EXCEPT !.at = "receive", !.payment = Max(Candidates(h))]
      OBVIOUS
    <3>2. Max(Candidates(h)) \in PaymentsOf(old.invoice) /\ Max(Candidates(h)) \in Nat
      BY <1>1, <2>2, CandidateFound DEF Candidates
    <3>3. t \in Handler /\ HandlerRows(t)
      BY <1>2, <3>1, <3>2 DEF Handler, HandlerRows
    <3>4. Goto(h, t)
      BY <1>1, <2>2, <3>1 DEF FindPayment
    <3>5. QED
      BY <3>3, <3>4
  <2>3. QED
    BY <2>1, <2>2
<1>4. UNCHANGED <<rows, counts, past>>
  BY DEF FindPayment
<1>5. QED
  BY <1>3, <1>4, CountsStill, MoveOnly

\* The shape of the payments after one has been saved as received.
LEMMA PaymentReceived ==
  ASSUME TypeOK, NEW h \in Slots, Receive(h)
  PROVE  /\ payments' \in Seq(Payment) /\ DOMAIN payments' = DOMAIN payments
         /\ handlers[h].payment \in PaymentsOf(handlers[h].invoice)
         /\ handlers[h].payment \in DOMAIN payments
         /\ payments'[handlers[h].payment] =
              [payments[handlers[h].payment] EXCEPT !.received = TRUE, !.dropped = FALSE]
         /\ \A q \in DOMAIN payments : q # handlers[h].payment => payments'[q] = payments[q]
<1>1. PICK p : p = handlers[h].payment
  OBVIOUS
<1>2. p \in PaymentsOf(handlers[h].invoice) /\ p \in DOMAIN payments
  BY <1>1, HandlerNow DEF HandlerRows, Receive, Standing, PaymentsOf
<1>3. PICK n \in Nat : payments \in [1..n -> Payment]
  BY DEF TypeOK
<1>4. PICK row : row = [payments[p] EXCEPT !.received = TRUE, !.dropped = FALSE]
  OBVIOUS
<1>5. row \in Payment
  BY <1>2, <1>3, <1>4 DEF Payment
<1>6. payments' = [payments EXCEPT ![p] = row]
  BY <1>1, <1>2, <1>3, <1>4 DEF Receive, Payment
<1>7. payments' \in [1..n -> Payment]
  BY <1>3, <1>5, <1>6
<1>8. QED
  BY <1>1, <1>2, <1>3, <1>4, <1>6, <1>7

\* The shape of the payments after the others have been dropped.
LEMMA OthersDropped ==
  ASSUME TypeOK, NEW h \in Slots, DropOthers(h)
  PROVE  /\ payments' \in Seq(Payment) /\ DOMAIN payments' = DOMAIN payments
         /\ \A q \in DOMAIN payments :
              payments'[q] = IF q \in PaymentsOf(handlers[h].invoice) /\ IsOpen(q)
                             THEN [payments[q] EXCEPT !.dropped = TRUE] ELSE payments[q]
<1>1. PICK n \in Nat : payments \in [1..n -> Payment]
  BY DEF TypeOK
<1>2. \A q \in DOMAIN payments : [payments[q] EXCEPT !.dropped = TRUE] \in Payment
  BY <1>1 DEF Payment
<1>3. payments' \in [1..n -> Payment]
  BY <1>1, <1>2 DEF DropOthers
<1>4. QED
  BY <1>1, <1>3 DEF DropOthers

\* Neither changes the invoice of a payment.
LEMMA InvoicesKept ==
  ASSUME TypeOK, NEW h \in Slots, Receive(h) \/ DropOthers(h)
  PROVE  /\ \A q \in DOMAIN payments : payments'[q].invoice = payments[q].invoice
         /\ \A i : PaymentsOf(i)' = PaymentsOf(i)
<1>1. \A q \in DOMAIN payments : payments[q] \in Payment
  BY PaymentTyped
<1>2. CASE Receive(h)
  <2>1. DOMAIN payments' = DOMAIN payments
    BY <1>2, PaymentReceived
  <2>2. \A q \in DOMAIN payments : payments'[q].invoice = payments[q].invoice
    <3>1. PICK p : p = handlers[h].payment
      OBVIOUS
    <3>2. p \in DOMAIN payments
          /\ payments'[p] = [payments[p] EXCEPT !.received = TRUE, !.dropped = FALSE]
          /\ \A q \in DOMAIN payments : q # p => payments'[q] = payments[q]
      BY <1>2, <3>1, PaymentReceived
    <3>3. payments'[p].invoice = payments[p].invoice
      BY <1>1, <3>2 DEF Payment
    <3>4. QED
      BY <3>2, <3>3
  <2>3. QED
    BY <2>1, <2>2 DEF PaymentsOf
<1>3. CASE DropOthers(h)
  BY <1>1, <1>3, OthersDropped DEF Payment, PaymentsOf
<1>4. QED
  BY <1>2, <1>3

LEMMA PaymentSavesTyped ==
  ASSUME TypeOK, NEW h \in Slots, Receive(h) \/ DropOthers(h)
  PROVE  TypeOK'
<1>1. payments' \in Seq(Payment) /\ UNCHANGED <<statusLog, order, task, counts, past>>
  BY PaymentReceived, OthersDropped DEF Receive, DropOthers
<1>2. RowsGrow /\ RowsTyped'
  BY <1>1, InvoicesKept DEF RowsGrow, RowsTyped, RowsOf, TypeOK
<1>3. PICK s \in Handler : HandlerRows(s) /\ Goto(h, s)
  BY AdvanceTyped DEF Receive, DropOthers, Standing
<1>4. QED
  BY <1>1, <1>2, <1>3, RowsKept, CountsStill, OneMoves

LEMMA InvoiceLoadTyped ==
  ASSUME TypeOK, NEW h \in Slots, InvoiceLoad(h) \/ ReceiveRepeated(h) \/ LinkRefused(h)
  PROVE  TypeOK'
<1>1. PICK s \in Handler : HandlerRows(s) /\ Goto(h, s)
  BY AdvanceTyped, IdleTyped DEF InvoiceLoad, ReceiveRepeated, LinkRefused, Finish, Standing
<1>2. UNCHANGED <<rows, counts, past>>
  BY DEF InvoiceLoad, ReceiveRepeated, LinkRefused
<1>3. QED
  BY <1>1, <1>2, CountsStill, MoveOnly

LEMMA CompleteTyped ==
  ASSUME TypeOK, NEW h \in Slots, Complete(h)
  PROVE  TypeOK'
<1>1. RowsGrow /\ RowsTyped'
  BY RowLinked DEF Complete, Statuses
<1>2. Goto(h, Idle) /\ UNCHANGED <<counts, past>>
  BY DEF Complete, Finish
<1>3. QED
  BY <1>1, <1>2, IdleTyped, RowsKept, CountsStill, OneMoves

(***************************************************************************)
(* Type correctness.                                                       *)
(***************************************************************************)
LEMMA InitTyped ==
  ASSUME Init
  PROVE  TypeOK
<1>1. statusLog \in Seq(Statuses) /\ DOMAIN statusLog = {1}
  <2>1. statusLog = <<"accepted">>
    BY DEF Init
  <2>2. statusLog \in Seq(Statuses) /\ Len(statusLog) = 1
    BY <2>1 DEF Statuses
  <2>3. DOMAIN statusLog = 1..1
    BY <2>2
  <2>4. QED
    BY <2>2, <2>3
<1>2. order \in OrderRow /\ RowsOf(order) /\ order.statuses # {}
  BY <1>1 DEF Init, OrderRow, RowsOf
<1>3. payments \in Seq(Payment) /\ task \in TaskStatuses
  BY DEF Init, TaskStatuses
<1>4. CountsTyped
  <2>1. /\ asked = 0 /\ notices = 0 /\ cancels = 0
        /\ crashed = FALSE /\ overlapped = FALSE /\ hurried = FALSE
    BY DEF Init
  <2>2. 0 \in 0..MaxPayments /\ 0 \in 0..MaxNotices /\ 0 \in 0..MaxCancels
    BY LimitsAssumption
  <2>3. QED
    BY <2>1, <2>2 DEF CountsTyped
<1>5. handlers \in [Slots -> Handler] /\ \A h \in Slots : HandlerRows(handlers[h])
  <2>1. handlers \in [Slots -> Handler] /\ \A h \in Slots : handlers[h] = Idle
    BY IdleTyped DEF Init
  <2>2. QED
    BY <2>1, IdleTyped
<1>6. QED
  BY <1>1, <1>2, <1>3, <1>4, <1>5 DEF TypeOK, CountsTyped

LEMMA NextTyped ==
  ASSUME TypeOK, [Next]_vars
  PROVE  TypeOK'
<1>1. ASSUME NEW h \in Slots, Resume(h) PROVE TypeOK'
  BY <1>1, StatusLoadTyped, StatusInsertTyped, StatusSaveTyped, TaskSavesTyped,
     SavePaymentTyped, FindPaymentTyped, PaymentSavesTyped, InvoiceLoadTyped, CompleteTyped
     DEF Resume
<1>2. ASSUME NEW h \in Slots, Request(h) PROVE TypeOK'
  BY <1>2, StartTaskTyped, EndTaskTyped, CancelOrderTyped, CreatePaymentTyped,
     ReceivePaymentTyped DEF Request
<1>3. CASE UNCHANGED vars
  BY <1>3 DEF vars, rows, counts, past, TypeOK, RowsOf, HandlerRows, PaymentsOf
<1>4. QED
  BY <1>1, <1>2, <1>3, CrashTyped DEF Next

\* Rows and handlers keep their shape and name no row that does not exist; the
\* order is never without a status, whatever stale saves detach.
THEOREM TypeCorrect == Spec => []TypeOK
<1>1. Init => TypeOK
  BY InitTyped
<1>2. TypeOK /\ [Next]_vars => TypeOK'
  BY NextTyped
<1>3. QED
  BY <1>1, <1>2, PTL DEF Spec

(***************************************************************************)
(* Receipts.  A handler past the save of its payment goes on to drop the   *)
(* others and to complete the order: the invariant has to say that the     *)
(* receipt it acts upon exists, and that no other handler inserts a        *)
(* `completed` row.                                                        *)
(***************************************************************************)
HasReceipt(i) == \E p \in PaymentsOf(i) : payments[p].received

Owed(s) ==
  /\ s.at \in {"drop", "invoice_load", "complete"} => HasReceipt(s.invoice)
  /\ s.at \in {"status_load", "status_insert"} => s.status # "completed"

MoneyInv ==
  /\ ReceivedNotDropped /\ DroppedForAnother /\ CompletedOnlyIfPaid
  /\ \A h \in Slots : Owed(handlers[h])

LEMMA OwedMove ==
  ASSUME TypeOK, MoneyInv, \A i : HasReceipt(i) => HasReceipt(i)',
         NEW h \in Slots, NEW s, Goto(h, s), Owed(s)'
  PROVE  \A k \in Slots : Owed(handlers[k])'
<1>1. ASSUME NEW k \in Slots PROVE Owed(handlers[k])'
  <2>1. CASE k = h
    <3>1. handlers'[k] = s
      BY <2>1 DEF TypeOK, Goto
    <3>2. QED
      BY <3>1 DEF Owed, HasReceipt, PaymentsOf
  <2>2. CASE k # h
    <3>1. PICK t : t = handlers[k]
      OBVIOUS
    <3>2. handlers'[k] = t
      BY <2>2, <3>1 DEF TypeOK, Goto
    <3>3. Owed(t)
      BY <3>1 DEF MoneyInv
    <3>4. Owed(t)'
      BY <3>3 DEF Owed
    <3>5. QED
      BY <3>2, <3>4 DEF Owed, HasReceipt, PaymentsOf
  <2>3. QED
    BY <2>1, <2>2
<1>2. QED
  BY <1>1

\* A step that touches neither the payments nor the status log.
LEMMA MoneyStep ==
  ASSUME TypeOK, MoneyInv, UNCHANGED <<statusLog, payments>>,
         NEW h \in Slots, NEW s, Goto(h, s), Owed(s)
  PROVE  MoneyInv'
<1>1. \A i : HasReceipt(i) <=> HasReceipt(i)'
  BY DEF HasReceipt, PaymentsOf
<1>2. Owed(s)'
  BY <1>1 DEF Owed
<1>3. \A k \in Slots : Owed(handlers[k])'
  BY <1>1, <1>2, OwedMove
<1>4. QED
  BY <1>3 DEF MoneyInv, ReceivedNotDropped, DroppedForAnother, CompletedOnlyIfPaid, PaymentsOf

LEMMA OwedIdle == Owed(Idle)
  BY DEF Owed, Idle

LEMMA OwedUpdate ==
  ASSUME NEW st \in Statuses \ {"completed"}, NEW b
  PROVE  Owed(UpdateStatus(st)) /\ Owed([UpdateStatus(st) EXCEPT !.seen = b])
  BY DEF Owed, UpdateStatus, Idle

LEMMA OwedStay ==
  ASSUME TypeOK, MoneyInv, NEW h \in Slots, UNCHANGED handlers
  PROVE  Goto(h, handlers[h]) /\ Owed(handlers[h])
  BY DEF TypeOK, MoneyInv, Goto

\* The handler goes on to an await that owes no more than the one it stands at.
LEMMA OwedAdvance ==
  ASSUME TypeOK, MoneyInv, NEW h \in Slots, NEW a, Advance(h, a),
         \/ a = "cancel_task"
         \/ a \in {"invoice_load", "complete"} /\ handlers[h].at \in {"drop", "invoice_load"}
  PROVE  \E s : Goto(h, s) /\ Owed(s)
<1>1. PICK old : old = handlers[h]
  OBVIOUS
<1>2. old \in Handler /\ Owed(old)
  BY <1>1, HandlerNow DEF MoneyInv
<1>3. PICK s : s = [old EXCEPT !.at = a]
  OBVIOUS
<1>4. s.at = a /\ s.invoice = old.invoice
  BY <1>2, <1>3 DEF Handler
<1>5. Goto(h, s)
  BY <1>1, <1>3 DEF Goto, Advance, TypeOK
<1>6. Owed(s)
  BY <1>1, <1>2, <1>4 DEF Owed
<1>7. QED
  BY <1>5, <1>6

LEMMA QuietSteps ==
  ASSUME TypeOK, MoneyInv, NEW h \in Slots,
         \/ StatusLoad(h) \/ StatusSave(h) \/ StartTask(h) \/ StartSave(h) \/ EndTask(h)
         \/ EndSave(h) \/ CancelOrder(h) \/ CancelTask(h) \/ CreatePayment(h)
         \/ FindPayment(h) \/ ReceiveRepeated(h) \/ LinkRefused(h) \/ InvoiceLoad(h)
         \/ \E p \in DOMAIN payments : ReceivePayment(h, p)
  PROVE  MoneyInv'
<1>1. UNCHANGED <<statusLog, payments>>
  BY DEF StatusLoad, StatusSave, StartTask, StartSave, EndTask, EndSave, CancelOrder,
         CancelTask, CreatePayment, FindPayment, ReceiveRepeated, LinkRefused, InvoiceLoad,
         ReceivePayment, rows
<1>2. \E s : Goto(h, s) /\ Owed(s)
  <2>1. CASE StatusLoad(h)
    <3>1. PICK old : old = handlers[h]
      OBVIOUS
    <3>2. old \in Handler /\ Owed(old) /\ old.at = "status_load"
      BY <2>1, <3>1, HandlerNow DEF MoneyInv, StatusLoad, Standing
    <3>3. PICK s : s = [old EXCEPT !.at = "status_insert", !.snap = order]
      OBVIOUS
    <3>4. Owed(s)
      BY <3>2, <3>3 DEF Owed, Handler
    <3>5. QED
      BY <2>1, <3>1, <3>3, <3>4 DEF StatusLoad
  <2>2. CASE StatusSave(h)
    BY <2>2, OwedIdle, OwedAdvance DEF StatusSave, Finish
  <2>3. CASE StartTask(h) \/ EndTask(h)
    <3>1. \A a \in {"start_save", "end_save"} : \A b : Owed([Idle EXCEPT !.at = a, !.seen = b])
      BY DEF Owed, Idle
    <3>2. QED
      BY <2>3, <3>1 DEF StartTask, EndTask
  <2>4. CASE StartSave(h) \/ EndSave(h)
    BY <2>4, OwedIdle, OwedUpdate DEF StartSave, EndSave, Statuses
  <2>5. CASE CancelOrder(h)
    BY <2>5, OwedUpdate, OwedStay DEF CancelOrder, Statuses
  <2>6. CASE CancelTask(h) \/ ReceiveRepeated(h) \/ LinkRefused(h)
    BY <2>6, OwedIdle DEF CancelTask, ReceiveRepeated, LinkRefused, Finish
  <2>7. CASE CreatePayment(h)
    <3>1. \A i, m : Owed([Idle EXCEPT !.at = "payment_save", !.invoice = i, !.method = m])
      BY DEF Owed, Idle
    <3>2. QED
      BY <2>7, <3>1 DEF CreatePayment
  <2>8. CASE FindPayment(h)
    <3>1. PICK old : old = handlers[h]
      OBVIOUS
    <3>2. old \in Handler
      BY <3>1, HandlerNow
    <3>3. PICK s : s = [old EXCEPT !.at = "receive", !.payment = Max(Candidates(h))]
      OBVIOUS
    <3>4. Owed(s)
      BY <3>2, <3>3 DEF Owed, Handler
    <3>5. QED
      BY <2>8, <3>1, <3>3, <3>4, OwedIdle DEF FindPayment, Finish
  <2>9. CASE InvoiceLoad(h)
    BY <2>9, OwedIdle, OwedAdvance DEF InvoiceLoad, Finish, Standing
  <2>10. CASE \E p \in DOMAIN payments : ReceivePayment(h, p)
    <3>1. \A i, m : Owed(Notice(i, m))
      BY DEF Owed, Notice, Idle
    <3>2. QED
      BY <2>10, <3>1, OwedStay DEF ReceivePayment
  <2>11. QED
    BY <2>1, <2>2, <2>3, <2>4, <2>5, <2>6, <2>7, <2>8, <2>9, <2>10
<1>3. QED
  BY <1>1, <1>2, MoneyStep

\* updateOrderStatus appends a row, never a `completed` one.
LEMMA StatusInsertMoney ==
  ASSUME TypeOK, MoneyInv, NEW h \in Slots, StatusInsert(h)
  PROVE  MoneyInv'
<1>1. PICK old : old = handlers[h]
  OBVIOUS
<1>2. old \in Handler /\ Owed(old) /\ old.at = "status_insert"
  BY <1>1, HandlerNow DEF MoneyInv, StatusInsert, Standing
<1>3. old.status # "completed" /\ statusLog' = Append(statusLog, old.status)
      /\ UNCHANGED payments
  BY <1>1, <1>2 DEF StatusInsert, Owed
<1>4. \A i \in DOMAIN statusLog' : statusLog'[i] = "completed" =>
        i \in DOMAIN statusLog /\ statusLog[i] = "completed"
  <2>1. old.status \in Statuses /\ statusLog \in Seq(Statuses)
    BY <1>2 DEF Handler, TypeOK
  <2>2. QED
    BY <1>3, <2>1
<1>5. ReceivedNotDropped' /\ DroppedForAnother' /\ CompletedOnlyIfPaid'
  BY <1>3, <1>4 DEF MoneyInv, ReceivedNotDropped, DroppedForAnother, CompletedOnlyIfPaid,
                    PaymentsOf
<1>6. \A i : HasReceipt(i) => HasReceipt(i)'
  BY <1>3 DEF HasReceipt, PaymentsOf
<1>7. PICK s : s = [old EXCEPT !.at = "status_save",
                               !.snap.statuses = @ \cup {Len(statusLog) + 1}]
  OBVIOUS
<1>8. Owed(s)' /\ Owed(Idle)'
  <2>1. s.at = "status_save"
    BY <1>2, <1>7 DEF Handler
  <2>2. QED
    BY <2>1 DEF Owed, Idle
<1>9. Goto(h, s) \/ Goto(h, Idle)
  BY <1>1, <1>7 DEF StatusInsert
<1>10. QED
  BY <1>5, <1>6, <1>8, <1>9, OwedMove DEF MoneyInv

LEMMA SavePaymentMoney ==
  ASSUME TypeOK, MoneyInv, NEW h \in Slots, SavePayment(h)
  PROVE  MoneyInv'
<1>1. Goto(h, Idle) /\ UNCHANGED statusLog
  BY DEF SavePayment, Finish
<1>2. PICK n : n = Len(payments) + 1
  OBVIOUS
<1>3. /\ DOMAIN payments' = DOMAIN payments \cup {n} /\ n \notin DOMAIN payments
      /\ \A p \in DOMAIN payments : payments'[p] = payments[p]
      /\ ~payments'[n].received /\ ~payments'[n].dropped
  <2>1. payments'[Len(payments) + 1] = [invoice |-> handlers[h].invoice,
          method |-> handlers[h].method, received |-> FALSE, dropped |-> FALSE]
    BY PaymentAdded
  <2>2. ~payments'[n].received /\ ~payments'[n].dropped
    BY <1>2, <2>1
  <2>3. /\ DOMAIN payments' = DOMAIN payments \cup {Len(payments) + 1}
        /\ Len(payments) + 1 \notin DOMAIN payments
        /\ \A p \in DOMAIN payments : payments'[p] = payments[p]
    BY PaymentAdded
  <2>4. QED
    BY <1>2, <2>2, <2>3
<1>4. \A i : HasReceipt(i) => HasReceipt(i)'
  BY <1>3 DEF HasReceipt, PaymentsOf
<1>5. ReceivedNotDropped' /\ CompletedOnlyIfPaid'
  BY <1>1, <1>3 DEF MoneyInv, ReceivedNotDropped, CompletedOnlyIfPaid
<1>6. DroppedForAnother'
  <2>1. ASSUME NEW q \in DOMAIN payments', payments'[q].dropped
        PROVE  \E r \in DOMAIN payments' : /\ payments'[r].invoice = payments'[q].invoice
                                          /\ payments'[r].received
    <3>1. q \in DOMAIN payments /\ payments'[q] = payments[q]
      BY <1>3, <2>1
    <3>2. PICK r \in PaymentsOf(payments[q].invoice) : payments[r].received
      BY <2>1, <3>1 DEF MoneyInv, DroppedForAnother
    <3>3. QED
      BY <1>3, <3>1, <3>2 DEF PaymentsOf
  <2>2. QED
    BY <2>1 DEF DroppedForAnother, PaymentsOf
<1>7. Owed(Idle)'
  BY DEF Owed, Idle
<1>8. QED
  BY <1>1, <1>4, <1>5, <1>6, <1>7, OwedMove DEF MoneyInv

\* The payment saved as received is no longer dropped, even if it was: a stale save
\* takes nothing from the others.
LEMMA ReceiveMoney ==
  ASSUME TypeOK, MoneyInv, NEW h \in Slots, Receive(h)
  PROVE  MoneyInv'
<1>1. PICK p : p = handlers[h].payment
  OBVIOUS
<1>2. /\ DOMAIN payments' = DOMAIN payments /\ p \in DOMAIN payments
      /\ p \in PaymentsOf(handlers[h].invoice)
      /\ \A q \in DOMAIN payments : q # p => payments'[q] = payments[q]
      /\ payments'[p] = [payments[p] EXCEPT !.received = TRUE, !.dropped = FALSE]
  BY <1>1, PaymentReceived
<1>3. payments'[p].received /\ ~payments'[p].dropped
  BY <1>2, PaymentTyped DEF Payment
<1>4. \A i : PaymentsOf(i)' = PaymentsOf(i)
  BY InvoicesKept
<1>5. \A i : HasReceipt(i) => HasReceipt(i)'
  BY <1>2, <1>3, <1>4 DEF HasReceipt, PaymentsOf
<1>6. ReceivedNotDropped' /\ CompletedOnlyIfPaid'
  BY <1>2, <1>3 DEF MoneyInv, ReceivedNotDropped, CompletedOnlyIfPaid, Receive
<1>7. DroppedForAnother'
  <2>1. ASSUME NEW q \in DOMAIN payments', payments'[q].dropped
        PROVE  \E r \in DOMAIN payments' : /\ payments'[r].invoice = payments'[q].invoice
                                          /\ payments'[r].received
    <3>1. q # p /\ payments'[q] = payments[q] /\ q \in DOMAIN payments
      BY <1>2, <1>3, <2>1
    <3>2. HasReceipt(payments[q].invoice)
      BY <2>1, <3>1 DEF MoneyInv, DroppedForAnother, HasReceipt
    <3>3. PICK j : j = payments[q].invoice
      OBVIOUS
    <3>4. HasReceipt(j)'
      BY <1>5, <3>2, <3>3
    <3>5. QED
      BY <3>1, <3>3, <3>4 DEF HasReceipt, PaymentsOf
  <2>2. QED
    BY <2>1 DEF DroppedForAnother, PaymentsOf
<1>8. PICK old : old = handlers[h]
  OBVIOUS
<1>9. PICK s : s = [old EXCEPT !.at = "drop"]
  OBVIOUS
<1>10. Goto(h, s) /\ s.at = "drop" /\ s.invoice = old.invoice
  BY <1>8, <1>9, HandlerNow DEF Receive, Advance, Goto, TypeOK, Handler
<1>11. HasReceipt(old.invoice)'
  BY <1>2, <1>3, <1>4, <1>8 DEF HasReceipt
<1>12. Owed(s)'
  <2>1. HasReceipt(s.invoice)'
    BY <1>10, <1>11 DEF HasReceipt, PaymentsOf
  <2>2. QED
    BY <1>10, <2>1 DEF Owed
<1>13. QED
  BY <1>5, <1>6, <1>7, <1>10, <1>12, OwedMove DEF MoneyInv

LEMMA DropOthersMoney ==
  ASSUME TypeOK, MoneyInv, NEW h \in Slots, DropOthers(h)
  PROVE  MoneyInv'
<1>1. PICK i : i = handlers[h].invoice
  OBVIOUS
<1>2. HasReceipt(i)
  BY <1>1 DEF MoneyInv, Owed, DropOthers, Standing
<1>3. /\ DOMAIN payments' = DOMAIN payments
      /\ \A q \in DOMAIN payments :
           payments'[q] = IF q \in PaymentsOf(i) /\ IsOpen(q)
                          THEN [payments[q] EXCEPT !.dropped = TRUE] ELSE payments[q]
  BY <1>1, OthersDropped
<1>4. \A q \in DOMAIN payments : /\ payments'[q].received = payments[q].received
                                 /\ payments'[q].dropped =>
                                      payments[q].dropped \/ (q \in PaymentsOf(i) /\ IsOpen(q))
  BY <1>3, PaymentTyped DEF Payment
<1>5. \A j : PaymentsOf(j)' = PaymentsOf(j)
  BY InvoicesKept
<1>6. \A j : HasReceipt(j) <=> HasReceipt(j)'
  BY <1>3, <1>4, <1>5 DEF HasReceipt, PaymentsOf
<1>7. ReceivedNotDropped' /\ CompletedOnlyIfPaid'
  BY <1>3, <1>4 DEF MoneyInv, ReceivedNotDropped, CompletedOnlyIfPaid, IsOpen, DropOthers
<1>8. DroppedForAnother'
  <2>1. ASSUME NEW q \in DOMAIN payments', payments'[q].dropped
        PROVE  \E r \in DOMAIN payments' : /\ payments'[r].invoice = payments'[q].invoice
                                          /\ payments'[r].received
    <3>1. PICK j : j = payments[q].invoice
      OBVIOUS
    <3>2. payments'[q].invoice = j
      BY <1>3, <3>1, InvoicesKept
    <3>3. HasReceipt(j)
      BY <1>2, <1>3, <1>4, <2>1, <3>1
         DEF MoneyInv, DroppedForAnother, HasReceipt, PaymentsOf
    <3>4. HasReceipt(j)'
      BY <1>6, <3>3
    <3>5. QED
      BY <3>2, <3>4 DEF HasReceipt, PaymentsOf
  <2>2. QED
    BY <2>1 DEF DroppedForAnother, PaymentsOf
<1>9. PICK s : Goto(h, s) /\ Owed(s)
  BY OwedAdvance DEF DropOthers, Standing
<1>10. Owed(s)'
  BY <1>6, <1>9 DEF Owed
<1>11. QED
  BY <1>6, <1>7, <1>8, <1>9, <1>10, OwedMove DEF MoneyInv

LEMMA CompleteMoney ==
  ASSUME TypeOK, MoneyInv, NEW h \in Slots, Complete(h)
  PROVE  MoneyInv'
<1>1. Goto(h, Idle) /\ UNCHANGED payments
  BY DEF Complete, Finish
<1>2. HasReceipt(handlers[h].invoice)
  BY DEF MoneyInv, Owed, Complete, Standing
<1>3. CompletedOnlyIfPaid' /\ ReceivedNotDropped' /\ DroppedForAnother'
  BY <1>1, <1>2 DEF MoneyInv, CompletedOnlyIfPaid, ReceivedNotDropped, DroppedForAnother,
                    HasReceipt, PaymentsOf
<1>4. \A i : HasReceipt(i) => HasReceipt(i)'
  BY <1>1 DEF HasReceipt, PaymentsOf
<1>5. Owed(Idle)'
  BY DEF Owed, Idle
<1>6. QED
  BY <1>1, <1>3, <1>4, <1>5, OwedMove DEF MoneyInv

LEMMA CrashMoney ==
  ASSUME TypeOK, MoneyInv, Crash
  PROVE  MoneyInv'
<1>1. UNCHANGED <<statusLog, payments>> /\ handlers' = [h \in Slots |-> Idle]
  BY DEF Crash, rows
<1>2. \A h \in Slots : Owed(handlers[h])'
  BY <1>1 DEF Owed, Idle
<1>3. QED
  BY <1>1, <1>2 DEF MoneyInv, CompletedOnlyIfPaid, ReceivedNotDropped, DroppedForAnother,
                    PaymentsOf

LEMMA InitMoney ==
  ASSUME Init
  PROVE  MoneyInv
<1>1. DOMAIN payments = {} /\ DOMAIN statusLog = {1} /\ statusLog[1] = "accepted"
  <2>1. payments = << >> /\ statusLog = <<"accepted">>
    BY DEF Init
  <2>2. Len(statusLog) = 1 /\ statusLog[1] = "accepted" /\ DOMAIN payments = 1..0
    BY <2>1
  <2>3. DOMAIN statusLog = 1..1
    BY <2>1
  <2>4. QED
    BY <2>2, <2>3
<1>2. \A h \in Slots : Owed(handlers[h])
  BY OwedIdle DEF Init
<1>3. QED
  BY <1>1, <1>2 DEF MoneyInv, CompletedOnlyIfPaid, ReceivedNotDropped, DroppedForAnother

LEMMA NextMoney ==
  ASSUME TypeOK, MoneyInv, [Next]_vars
  PROVE  MoneyInv'
<1>1. ASSUME NEW h \in Slots, Resume(h) PROVE MoneyInv'
  BY <1>1, QuietSteps, StatusInsertMoney, SavePaymentMoney, ReceiveMoney, DropOthersMoney,
     CompleteMoney DEF Resume
<1>2. ASSUME NEW h \in Slots, Request(h) PROVE MoneyInv'
  BY <1>2, QuietSteps DEF Request
<1>3. CASE UNCHANGED vars
  BY <1>3 DEF vars, rows, MoneyInv, Owed, HasReceipt, PaymentsOf, CompletedOnlyIfPaid,
              ReceivedNotDropped, DroppedForAnother
<1>4. QED
  BY <1>1, <1>2, <1>3, CrashMoney DEF Next

LEMMA MoneyAlways == Spec => []MoneyInv
<1>1. Init => MoneyInv
  BY InitMoney
<1>2. TypeOK /\ MoneyInv /\ [Next]_vars => MoneyInv'
  BY NextMoney
<1>3. QED
  BY <1>1, <1>2, TypeCorrect, PTL DEF Spec

\* However notifications overlap and wherever the process ends, no payment is dropped
\* unless another of its invoice has been received (markPaymentReceived).
THEOREM MoneyTheorem == Spec => []DroppedForAnother
<1>1. MoneyInv => DroppedForAnother
  BY DEF MoneyInv
<1>2. QED
  BY <1>1, MoneyAlways, PTL

\* No payment is both received and dropped, though every notification drops the other
\* payments of its invoice by whole-row saves.
THEOREM ReceivedTheorem == Spec => []ReceivedNotDropped
<1>1. MoneyInv => ReceivedNotDropped
  BY DEF MoneyInv
<1>2. QED
  BY <1>1, MoneyAlways, PTL

\* No order is recorded as completed without a received payment, in whatever order task,
\* links and notifications come.
THEOREM CompletedTheorem == Spec => []CompletedOnlyIfPaid
<1>1. MoneyInv => CompletedOnlyIfPaid
  BY DEF MoneyInv
<1>2. QED
  BY <1>1, MoneyAlways, PTL

(***************************************************************************)
(* The payments implement InvoiceSettlement while notifications do not     *)
(* overlap: the check a notification passed still holds when its payment   *)
(* is saved, because nobody else receives or drops payments meanwhile.     *)
(***************************************************************************)
AllOpen(i) == \A q \in PaymentsOf(i) : IsOpen(q)

OneReceiving == \A h, k \in Slots : Receiving(h) /\ Receiving(k) => h = k

CheckHolds ==
  \A h \in Slots : handlers[h].at \in {"find", "receive"} => AllOpen(handlers[h].invoice)

BookInv == ~overlapped => OneReceiving /\ CheckHolds

\* A handler that is not receiving stays so, or goes on from where it stood.
LEMMA BookMove ==
  ASSUME TypeOK, BookInv, ~overlapped, NEW h \in Slots, NEW s, Goto(h, s),
         s.at \in {"find", "receive", "drop", "invoice_load", "complete"} => Receiving(h),
         \A k \in Slots : handlers[k].at \in {"find", "receive"} /\ k # h =>
            AllOpen(handlers[k].invoice)',
         s.at \in {"find", "receive"} => AllOpen(s.invoice)'
  PROVE  BookInv'
<1>1. handlers'[h] = s /\ \A k \in Slots \ {h} : handlers'[k] = handlers[k]
  BY DEF TypeOK, Goto
<1>2. \A k \in Slots : Receiving(k)' => Receiving(k)
  BY <1>1 DEF Receiving
<1>3. OneReceiving'
  BY <1>2 DEF BookInv, OneReceiving
<1>4. CheckHolds'
  <2>1. ASSUME NEW k \in Slots, handlers'[k].at \in {"find", "receive"}
        PROVE  \A q \in DOMAIN payments' : payments'[q].invoice = handlers'[k].invoice =>
                  ~payments'[q].received /\ ~payments'[q].dropped
    <3>1. CASE k = h
      BY <1>1, <2>1, <3>1 DEF AllOpen, PaymentsOf, IsOpen
    <3>2. CASE k # h
      <4>1. PICK t : t = handlers[k]
        OBVIOUS
      <4>2. handlers'[k] = t
        BY <1>1, <3>2, <4>1
      <4>3. AllOpen(handlers[k].invoice)'
        BY <2>1, <3>2, <4>1, <4>2
      <4>4. QED
        BY <1>1, <3>2, <4>1, <4>2, <4>3 DEF AllOpen, PaymentsOf, IsOpen
    <3>3. QED
      BY <3>1, <3>2
  <2>2. QED
    BY <2>1 DEF CheckHolds, AllOpen, PaymentsOf, IsOpen
<1>5. QED
  BY <1>3, <1>4 DEF BookInv

LEMMA BookStay ==
  ASSUME TypeOK, BookInv, UNCHANGED <<payments, overlapped>>, NEW h \in Slots, NEW s,
         Goto(h, s),
         s.at \in {"find", "receive", "drop", "invoice_load", "complete"} => Receiving(h),
         s.at \in {"find", "receive"} /\ ~overlapped => AllOpen(s.invoice)
  PROVE  BookInv'
<1>1. CASE overlapped
  BY <1>1 DEF BookInv
<1>2. CASE ~overlapped
  <2>1. \A i : AllOpen(i) => AllOpen(i)'
    BY DEF AllOpen, PaymentsOf, IsOpen
  <2>2. ASSUME NEW k \in Slots, handlers[k].at \in {"find", "receive"}, k # h
        PROVE  AllOpen(handlers[k].invoice)'
    <3>1. PICK i : i = handlers[k].invoice
      OBVIOUS
    <3>2. AllOpen(i)'
      BY <1>2, <2>1, <2>2, <3>1 DEF BookInv, CheckHolds
    <3>3. handlers'[k].invoice = i
      BY <2>2, <3>1 DEF TypeOK, Goto
    <3>4. QED
      BY <3>2, <3>3 DEF AllOpen, PaymentsOf, IsOpen
  <2>3. s.at \in {"find", "receive"} => AllOpen(s.invoice)'
    BY <1>2 DEF AllOpen, PaymentsOf, IsOpen
  <2>4. QED
    BY <1>2, <2>2, <2>3, BookMove
<1>3. QED
  BY <1>1, <1>2

\* The handler goes on to an await at which nothing is checked any more.
LEMMA BookAdvance ==
  ASSUME TypeOK, NEW h \in Slots, NEW a, Advance(h, a),
         a \in {"drop", "invoice_load", "complete"} => Receiving(h),
         a \notin {"find", "receive"}
  PROVE  \E s : /\ Goto(h, s) /\ s.at \notin {"find", "receive"}
                /\ s.at \in {"drop", "invoice_load", "complete"} => Receiving(h)
<1>1. PICK old : old = handlers[h]
  OBVIOUS
<1>2. old \in Handler
  BY <1>1, HandlerNow
<1>3. PICK s : s = [old EXCEPT !.at = a]
  OBVIOUS
<1>4. s.at = a
  BY <1>2, <1>3 DEF Handler
<1>5. Goto(h, s)
  BY <1>1, <1>3 DEF Goto, Advance, TypeOK
<1>6. QED
  BY <1>4, <1>5

LEMMA BookQuiet ==
  ASSUME TypeOK, BookInv, NEW h \in Slots,
         \/ StatusLoad(h) \/ StatusInsert(h) \/ StatusSave(h) \/ StartTask(h) \/ StartSave(h)
         \/ EndTask(h) \/ EndSave(h) \/ CancelOrder(h) \/ CancelTask(h) \/ CreatePayment(h)
         \/ ReceiveRepeated(h) \/ LinkRefused(h) \/ InvoiceLoad(h) \/ Complete(h)
  PROVE  BookInv'
<1> DEFINE Outside(s) ==
      /\ s.at \notin {"find", "receive"}
      /\ s.at \in {"drop", "invoice_load", "complete"} => Receiving(h)
<1>1. UNCHANGED <<payments, overlapped>>
  BY DEF StatusLoad, StatusInsert, StatusSave, StartTask, StartSave, EndTask, EndSave,
         CancelOrder, CancelTask, CreatePayment, ReceiveRepeated, LinkRefused, InvoiceLoad,
         Complete, rows, past
<1>2. Outside(Idle)
  BY DEF Idle
<1>3. \A st, b : Outside(UpdateStatus(st)) /\ Outside([UpdateStatus(st) EXCEPT !.seen = b])
  BY DEF UpdateStatus, Idle
<1>4. (\E s : Goto(h, s) /\ Outside(s)) \/ UNCHANGED handlers
  <2>1. CASE StatusLoad(h) \/ StatusInsert(h)
    <3>1. PICK old : old = handlers[h]
      OBVIOUS
    <3>2. old \in Handler
      BY <3>1, HandlerNow
    <3>3. \A o : Outside([old EXCEPT !.at = "status_insert", !.snap = o])
      BY <3>2 DEF Handler
    <3>4. CASE StatusLoad(h)
      BY <3>1, <3>3, <3>4 DEF StatusLoad
    <3>5. CASE StatusInsert(h)
      <4>1. PICK s : s = [old EXCEPT !.at = "status_save",
                                     !.snap.statuses = @ \cup {Len(statusLog) + 1}]
        OBVIOUS
      <4>2. Goto(h, s) \/ Goto(h, Idle)
        BY <3>1, <3>5, <4>1 DEF StatusInsert
      <4>3. Outside(s)
        BY <3>2, <4>1 DEF Handler
      <4>4. QED
        BY <1>2, <4>2, <4>3
    <3>6. QED
      BY <2>1, <3>4, <3>5
  <2>2. CASE StatusSave(h) \/ InvoiceLoad(h)
    BY <1>2, <2>2, BookAdvance DEF StatusSave, InvoiceLoad, Finish, Standing, Receiving
  <2>3. CASE StartTask(h) \/ EndTask(h) \/ CreatePayment(h)
    <3>1. \A a \in {"start_save", "end_save"} : \A b :
             Outside([Idle EXCEPT !.at = a, !.seen = b])
      BY DEF Idle
    <3>2. \A i, m : Outside([Idle EXCEPT !.at = "payment_save", !.invoice = i, !.method = m])
      BY DEF Idle
    <3>3. QED
      BY <2>3, <3>1, <3>2 DEF StartTask, EndTask, CreatePayment
  <2>4. CASE StartSave(h) \/ EndSave(h) \/ CancelOrder(h)
    BY <1>2, <1>3, <2>4 DEF StartSave, EndSave, CancelOrder
  <2>5. CASE CancelTask(h) \/ ReceiveRepeated(h) \/ LinkRefused(h) \/ Complete(h)
    BY <1>2, <2>5 DEF CancelTask, ReceiveRepeated, LinkRefused, Complete, Finish
  <2>6. QED
    BY <2>1, <2>2, <2>3, <2>4, <2>5
<1>5. CASE UNCHANGED handlers
  BY <1>1, <1>5 DEF BookInv, OneReceiving, CheckHolds, Receiving, AllOpen, PaymentsOf, IsOpen
<1>6. CASE \E s : Goto(h, s) /\ Outside(s)
  <2>1. PICK s : Goto(h, s) /\ Outside(s)
    BY <1>6
  <2>2. QED
    BY <1>1, <2>1, BookStay
<1>7. QED
  BY <1>4, <1>5, <1>6

\* A payment link asked for meanwhile is open.
LEMMA SavePaymentBook ==
  ASSUME TypeOK, BookInv, NEW h \in Slots, SavePayment(h)
  PROVE  BookInv'
<1>1. Goto(h, Idle) /\ UNCHANGED overlapped
  BY DEF SavePayment, Finish, past
<1>2. \A i : AllOpen(i) => AllOpen(i)'
  <2>1. PICK n : n = Len(payments) + 1
    OBVIOUS
  <2>2. payments'[Len(payments) + 1] = [invoice |-> handlers[h].invoice,
          method |-> handlers[h].method, received |-> FALSE, dropped |-> FALSE]
    BY PaymentAdded
  <2>3. ~payments'[n].received /\ ~payments'[n].dropped
    BY <2>1, <2>2
  <2>4. /\ DOMAIN payments' = DOMAIN payments \cup {n}
        /\ \A p \in DOMAIN payments : payments'[p] = payments[p]
    BY <2>1, PaymentAdded
  <2>5. QED
    BY <2>3, <2>4 DEF AllOpen, PaymentsOf, IsOpen
<1>3. CASE overlapped
  BY <1>1, <1>3 DEF BookInv
<1>4. CASE ~overlapped
  <2>1. ASSUME NEW k \in Slots, handlers[k].at \in {"find", "receive"}, k # h
        PROVE  AllOpen(handlers[k].invoice)'
    <3>1. PICK i : i = handlers[k].invoice
      OBVIOUS
    <3>2. AllOpen(i)'
      BY <1>2, <1>4, <2>1, <3>1 DEF BookInv, CheckHolds
    <3>3. handlers'[k].invoice = i
      BY <1>1, <2>1, <3>1 DEF TypeOK, Goto
    <3>4. QED
      BY <3>2, <3>3 DEF AllOpen, PaymentsOf, IsOpen
  <2>2. Idle.at = "idle"
    BY DEF Idle
  <2>3. QED
    BY <1>1, <1>4, <2>1, <2>2, BookMove
<1>5. QED
  BY <1>3, <1>4

LEMMA FindPaymentBook ==
  ASSUME TypeOK, BookInv, NEW h \in Slots, FindPayment(h)
  PROVE  BookInv'
<1>1. PICK old : old = handlers[h]
  OBVIOUS
<1>2. old \in Handler /\ old.at = "find" /\ Receiving(h)
  BY <1>1, HandlerNow DEF FindPayment, Standing, Receiving
<1>3. PICK s : s = [old EXCEPT !.at = "receive", !.payment = Max(Candidates(h))]
  OBVIOUS
<1>4. s.at = "receive" /\ s.invoice = old.invoice
  BY <1>2, <1>3 DEF Handler
<1>5. ~overlapped => AllOpen(s.invoice)
  BY <1>1, <1>2, <1>4 DEF BookInv, CheckHolds
<1>6. UNCHANGED <<payments, overlapped>> /\ (Goto(h, s) \/ Goto(h, Idle))
  BY <1>1, <1>3 DEF FindPayment, Finish, rows, past
<1>7. Idle.at = "idle"
  BY DEF Idle
<1>8. QED
  BY <1>2, <1>4, <1>5, <1>6, <1>7, BookStay

\* A notification that overlaps no other finds nobody receiving, and goes on only
\* when every payment of the invoice is open.
LEMMA ReceivePaymentBook ==
  ASSUME TypeOK, BookInv, NEW h \in Slots, NEW p \in DOMAIN payments, ReceivePayment(h, p)
  PROVE  BookInv'
<1>1. CASE overlapped'
  BY <1>1 DEF BookInv
<1>2. CASE ~overlapped'
  <2>1. ~overlapped /\ \A k \in Slots : ~Receiving(k)
    BY <1>2 DEF ReceivePayment, Notified
  <2>2. UNCHANGED payments
    BY DEF ReceivePayment, rows
  <2>3. PICK s : s = Notice(payments[p].invoice, payments[p].method)
    OBVIOUS
  <2>4. s.at = "find" /\ s.invoice = payments[p].invoice
    BY <2>3 DEF Notice, Idle
  <2>5. CASE UNCHANGED handlers
    BY <2>1, <2>2, <2>5 DEF BookInv, OneReceiving, CheckHolds, Receiving
  <2>6. CASE Goto(h, s) /\ AllOpen(payments[p].invoice)
    <3>1. handlers'[h] = s /\ \A k \in Slots \ {h} : handlers'[k] = handlers[k]
      BY <2>6 DEF TypeOK, Goto
    <3>2. OneReceiving'
      BY <2>1, <3>1 DEF OneReceiving, Receiving
    <3>3. CheckHolds'
      BY <2>1, <2>2, <2>4, <2>6, <3>1
         DEF CheckHolds, Receiving, AllOpen, PaymentsOf, IsOpen
    <3>4. QED
      BY <3>2, <3>3 DEF BookInv
  <2>7. QED
    BY <2>3, <2>5, <2>6 DEF ReceivePayment, AllOpen
<1>3. QED
  BY <1>1, <1>2

LEMMA PaymentSavesBook ==
  ASSUME TypeOK, BookInv, NEW h \in Slots, Receive(h) \/ DropOthers(h)
  PROVE  BookInv'
<1>1. UNCHANGED overlapped /\ Receiving(h)
  BY DEF Receive, DropOthers, past, Standing, Receiving
<1>2. PICK s : Goto(h, s) /\ s.at \notin {"find", "receive"}
  BY <1>1, BookAdvance DEF Receive, DropOthers
<1>3. CASE overlapped
  BY <1>1, <1>3 DEF BookInv
<1>4. CASE ~overlapped
  <2>1. \A k \in Slots : k # h => handlers[k].at \notin {"find", "receive"}
    BY <1>1, <1>4 DEF BookInv, OneReceiving, Receiving
  <2>2. QED
    BY <1>1, <1>2, <1>4, <2>1, BookMove
<1>5. QED
  BY <1>3, <1>4

LEMMA NextBook ==
  ASSUME TypeOK, BookInv, [Next]_vars
  PROVE  BookInv'
<1>1. ASSUME NEW h \in Slots, Resume(h) PROVE BookInv'
  BY <1>1, BookQuiet, SavePaymentBook, FindPaymentBook, PaymentSavesBook DEF Resume
<1>2. ASSUME NEW h \in Slots, Request(h) PROVE BookInv'
  BY <1>2, BookQuiet, ReceivePaymentBook DEF Request
<1>3. CASE Crash
  <2>1. \A h \in Slots : handlers'[h].at = "idle"
    BY <1>3 DEF Crash, Idle
  <2>2. QED
    BY <2>1 DEF BookInv, OneReceiving, CheckHolds, Receiving
<1>4. CASE UNCHANGED vars
  BY <1>4 DEF vars, rows, past, BookInv, OneReceiving, CheckHolds, Receiving, AllOpen,
              PaymentsOf, IsOpen
<1>5. QED
  BY <1>1, <1>2, <1>3, <1>4 DEF Next

\* The ledger, row by row.
Page == [invoice : Invoices, state : {"open", "received", "dropped"}]

LEMMA FunctionIsSeq ==
  ASSUME NEW n \in Nat, NEW S, NEW f \in [1..n -> S]
  PROVE  f \in Seq(S) /\ Len(f) = n
  OBVIOUS

\* A sequence with one more row is the sequence with that row appended.
LEMMA OneMoreRow ==
  ASSUME NEW S, NEW f \in Seq(S), NEW row \in S, NEW n, n = Len(f) + 1,
         NEW g \in [1..n -> S], g[n] = row, \A p \in DOMAIN f : g[p] = f[p]
  PROVE  g = Append(f, row)
<1>1. n \in Nat /\ DOMAIN f = 1..Len(f) /\ Len(f) \in Nat
  OBVIOUS
<1>2. Append(f, row) \in [1..n -> S]
  <2>1. ASSUME NEW e \in Seq(S) PROVE e \in [1..Len(e) -> S]
    OBVIOUS
  <2>2. Append(f, row) \in Seq(S) /\ Len(Append(f, row)) = n
    OBVIOUS
  <2>3. QED
    BY <2>1, <2>2, Zenon
<1>3. \A p \in 1..n : g[p] = Append(f, row)[p]
  BY <1>1
<1>4. QED
  BY <1>2, <1>3

LEMMA LedgerTyped ==
  ASSUME TypeOK
  PROVE  /\ DOMAIN Ledger = DOMAIN payments
         /\ Ledger \in Seq(Page) /\ Len(Ledger) = Len(payments)
         /\ \A p \in DOMAIN payments : Ledger[p] \in Page
<1>1. PICK n \in Nat : payments \in [1..n -> Payment] /\ n = Len(payments)
  BY DEF TypeOK
<1>2. \A p \in 1..n : payments[p].invoice \in Invoices
  BY <1>1 DEF Payment
<1>3. Ledger \in [1..n -> Page]
  BY <1>1, <1>2 DEF Ledger, State, Page
<1>4. Ledger \in Seq(Page) /\ Len(Ledger) = n
  BY <1>3, FunctionIsSeq
<1>5. QED
  BY <1>1, <1>3, <1>4

LEMMA LedgerStill ==
  ASSUME UNCHANGED payments
  PROVE  UNCHANGED Ledger
  BY DEF Ledger, State

LEMMA OpensBook ==
  ASSUME TypeOK, NEW h \in Slots, SavePayment(h)
  PROVE  Book!Next
<1>1. PICK n : n = Len(payments) + 1
  OBVIOUS
<1>2. PICK i : i = handlers[h].invoice
  OBVIOUS
<1>3. PICK row : row = [invoice |-> i, state |-> "open"]
  OBVIOUS
<1>4. Ledger' = Append(Ledger, row)
  <2>1. payments'[Len(payments) + 1] = [invoice |-> handlers[h].invoice,
          method |-> handlers[h].method, received |-> FALSE, dropped |-> FALSE]
    BY PaymentAdded
  <2>2. ~payments'[n].received /\ ~payments'[n].dropped /\ payments'[n].invoice = i
    BY <1>1, <1>2, <2>1
  <2>3. /\ DOMAIN payments' = DOMAIN payments \cup {n}
        /\ \A p \in DOMAIN payments : payments'[p] = payments[p]
    BY <1>1, PaymentAdded
  <2>4. Ledger \in Seq(Page) /\ DOMAIN Ledger = DOMAIN payments /\ n = Len(Ledger) + 1
    BY <1>1, LedgerTyped
  <2>5. row \in Page
    BY <1>2, <1>3, PaymentAdded DEF Page
  <2>6. Ledger'[n] = row /\ \A p \in DOMAIN Ledger : Ledger'[p] = Ledger[p]
    BY <1>3, <2>2, <2>3, <2>4 DEF Ledger, State
  <2>7. Ledger' \in [1..n -> Page]
    <3>1. DOMAIN Ledger' = DOMAIN payments' /\ DOMAIN payments' = 1..n
      BY <1>1, <2>3 DEF TypeOK, Ledger
    <3>2. \A p \in 1..n : Ledger'[p] \in Page
      BY <2>3, <2>4, <2>5, <2>6, <3>1, LedgerTyped
    <3>3. QED
      BY <3>1, <3>2 DEF Ledger
  <2>8. QED
    BY <2>4, <2>5, <2>6, <2>7, OneMoreRow
<1>5. i \in Invoices
  BY <1>2, PaymentAdded
<1>6. QED
  BY <1>3, <1>4, <1>5 DEF Book!Next, Book!Open

\* The payment saved as received was open, as was every other of its invoice.
LEMMA ReceivesBook ==
  ASSUME TypeOK, BookInv, ~overlapped, NEW h \in Slots, Receive(h)
  PROVE  Book!Next
<1>1. PICK p : p = handlers[h].payment
  OBVIOUS
<1>2. /\ DOMAIN payments' = DOMAIN payments /\ p \in DOMAIN payments
      /\ p \in PaymentsOf(handlers[h].invoice)
      /\ \A q \in DOMAIN payments : q # p => payments'[q] = payments[q]
      /\ payments'[p] = [payments[p] EXCEPT !.received = TRUE, !.dropped = FALSE]
  BY <1>1, PaymentReceived
<1>3. payments'[p].received /\ payments'[p].invoice = payments[p].invoice
  BY <1>2, PaymentTyped, InvoicesKept DEF Payment
<1>4. AllOpen(handlers[h].invoice)
  BY DEF BookInv, CheckHolds, Receive, Standing
<1>5. \A q \in Book!SameInvoice(p) : Ledger[q].state = "open"
  BY <1>2, <1>4 DEF Book!SameInvoice, Ledger, State, AllOpen, PaymentsOf, IsOpen
<1>6. Ledger' = [Ledger EXCEPT ![p].state = "received"]
  <2>1. PICK row : row = [Ledger[p] EXCEPT !.state = "received"]
    OBVIOUS
  <2>2. row = [invoice |-> payments[p].invoice, state |-> "received"]
    BY <1>2, <2>1 DEF Ledger
  <2>3. Ledger'[p] = row
    BY <1>2, <1>3, <2>2 DEF Ledger, State
  <2>4. \A q \in DOMAIN payments : q # p => Ledger'[q] = Ledger[q]
    BY <1>2 DEF Ledger, State
  <2>5. Ledger' = [q \in DOMAIN payments |-> Ledger'[q]]
    BY <1>2 DEF Ledger
  <2>6. Ledger = [q \in DOMAIN payments |-> Ledger[q]]
    BY DEF Ledger
  <2>7. [Ledger EXCEPT ![p] = row] = [q \in DOMAIN payments |-> Ledger'[q]]
    BY <1>2, <2>3, <2>4, <2>6
  <2>8. QED
    BY <2>1, <2>5, <2>7
<1>7. p \in DOMAIN Ledger
  BY <1>2 DEF Ledger
<1>8. QED
  BY <1>5, <1>6, <1>7 DEF Book!Next, Book!Receive

\* The others are dropped for the payment that has been received.
LEMMA DropsBook ==
  ASSUME TypeOK, MoneyInv, NEW h \in Slots, DropOthers(h)
  PROVE  Book!Next
<1>1. PICK i : i = handlers[h].invoice
  OBVIOUS
<1>2. PICK p \in PaymentsOf(i) : payments[p].received
  BY <1>1 DEF MoneyInv, Owed, HasReceipt, DropOthers, Standing
<1>3. p \in DOMAIN Ledger /\ Ledger[p].state = "received"
  BY <1>2 DEF Ledger, State, PaymentsOf
<1>4. Book!SameInvoice(p) = PaymentsOf(i)
  BY <1>2 DEF Book!SameInvoice, Ledger, PaymentsOf
<1>5. /\ DOMAIN payments' = DOMAIN payments
      /\ \A q \in DOMAIN payments :
           payments'[q] = IF q \in PaymentsOf(i) /\ IsOpen(q)
                          THEN [payments[q] EXCEPT !.dropped = TRUE] ELSE payments[q]
  BY <1>1, OthersDropped
<1>6. ASSUME NEW q \in DOMAIN payments
      PROVE  Ledger'[q] = IF q \in PaymentsOf(i) /\ Ledger[q].state = "open"
                          THEN [Ledger[q] EXCEPT !.state = "dropped"] ELSE Ledger[q]
  <2>1. Ledger[q] = [invoice |-> payments[q].invoice, state |-> State(q)]
    BY DEF Ledger
  <2>2. Ledger[q].state = "open" <=> IsOpen(q)
    BY <2>1 DEF State, IsOpen
  <2>3. CASE q \in PaymentsOf(i) /\ IsOpen(q)
    <3>1. payments'[q] = [payments[q] EXCEPT !.dropped = TRUE]
      BY <1>5, <2>3
    <3>2. ~payments'[q].received /\ payments'[q].dropped
          /\ payments'[q].invoice = payments[q].invoice
      BY <2>3, <3>1, PaymentTyped DEF Payment, IsOpen
    <3>3. Ledger'[q] = [invoice |-> payments[q].invoice, state |-> "dropped"]
      BY <1>5, <3>2 DEF Ledger, State
    <3>4. [Ledger[q] EXCEPT !.state = "dropped"]
            = [invoice |-> payments[q].invoice, state |-> "dropped"]
      BY <2>1
    <3>5. QED
      BY <2>2, <2>3, <3>3, <3>4
  <2>4. CASE ~(q \in PaymentsOf(i) /\ IsOpen(q))
    <3>1. payments'[q] = payments[q]
      BY <1>5, <2>4
    <3>2. Ledger'[q] = Ledger[q]
      BY <1>5, <3>1 DEF Ledger, State
    <3>3. QED
      BY <2>2, <2>4, <3>2
  <2>5. QED
    BY <2>3, <2>4
<1>7. Ledger' = [q \in DOMAIN Ledger |-> IF q \in PaymentsOf(i) /\ Ledger[q].state = "open"
                                         THEN [Ledger[q] EXCEPT !.state = "dropped"]
                                         ELSE Ledger[q]]
  <2>1. Ledger' = [q \in DOMAIN payments |-> Ledger'[q]] /\ DOMAIN Ledger = DOMAIN payments
    BY <1>5 DEF Ledger
  <2>2. QED
    BY <1>6, <2>1
<1>8. QED
  BY <1>3, <1>4, <1>7 DEF Book!Next, Book!Drop

LEMMA StepKeepsTheBook ==
  ASSUME TypeOK, MoneyInv, BookInv, [Next]_vars, ~overlapped'
  PROVE  [Book!Next]_Ledger
<1>1. ~overlapped
  <2>1. ASSUME NEW h \in Slots, Resume(h) PROVE UNCHANGED overlapped
    BY <2>1 DEF Resume, StatusLoad, StatusInsert, StatusSave, StartSave, EndSave, CancelTask,
         SavePayment, FindPayment, Receive, ReceiveRepeated, LinkRefused, DropOthers,
         InvoiceLoad, Complete, past
  <2>2. ASSUME NEW h \in Slots, Request(h) PROVE overlapped => overlapped'
    BY <2>2 DEF Request, StartTask, EndTask, CancelOrder, CreatePayment, ReceivePayment,
         Notified, past
  <2>3. QED
    BY <2>1, <2>2 DEF Next, Crash, vars, past
<1>2. CASE UNCHANGED payments
  BY <1>2, LedgerStill
<1>3. CASE payments' # payments
  <2>1. PICK h \in Slots : SavePayment(h) \/ Receive(h) \/ DropOthers(h)
    BY <1>3 DEF Next, Resume, Request, Crash, StatusLoad, StatusInsert, StatusSave, StartSave,
         EndSave, CancelTask, FindPayment, ReceiveRepeated, LinkRefused, InvoiceLoad, Complete,
         StartTask, EndTask, CancelOrder, CreatePayment, ReceivePayment, vars, rows
  <2>2. QED
    BY <1>1, <2>1, OpensBook, ReceivesBook, DropsBook
<1>4. QED
  BY <1>2, <1>3

\* As long as no two notifications overlap, whatever else interleaves with them and
\* wherever the process ends, every step that changes payments opens one, receives
\* one of an invoice whose payments are all open, or drops the open ones of an
\* invoice with a received one: an invoice is never paid twice.
THEOREM BookTheorem == Spec => KeepsTheBook
<1>1. Init => MoneyInv
  BY InitMoney
<1>2. Init => BookInv
  BY DEF Init, Idle, BookInv, OneReceiving, CheckHolds, Receiving
<1>3. Init => Book!Init
  <2>1. ASSUME Init PROVE Ledger = << >>
    <3>1. payments = << >>
      BY <2>1 DEF Init
    <3>2. Ledger \in [1..0 -> Page]
      BY <3>1 DEF Ledger
    <3>3. QED
      BY <3>2
  <2>2. QED
    BY <2>1 DEF Book!Init
<1>4. TypeOK /\ MoneyInv /\ [Next]_vars => MoneyInv'
  BY NextMoney
<1>5. TypeOK /\ BookInv /\ [Next]_vars => BookInv'
  BY NextBook
<1>6. TypeOK /\ MoneyInv /\ BookInv /\ [Next]_vars =>
        [~overlapped' => [Book!Next]_Ledger]_vars
  BY StepKeepsTheBook
<1>7. QED
  BY <1>1, <1>2, <1>3, <1>4, <1>5, <1>6, TypeCorrect, PTL DEF Spec, KeepsTheBook

(***************************************************************************)
(* Finished work.  Whoever saves an update carries its own row in its       *)
(* snapshot, so the order never loses them all.  And while no end has come *)
(* before a start was recorded, no on_going row comes after the first      *)
(* payment_pending one, and the last to save carries one of those.         *)
(***************************************************************************)
Undisturbed == cancels = 0 /\ ~crashed /\ ~Paid

AtStatus(s) == s.at \in {"status_load", "status_insert", "status_save"}

Starts(s) == s.at = "start_save" \/ (AtStatus(s) /\ s.status = "on_going")
Pends(s)  == AtStatus(s) /\ s.status = "payment_pending"
Ends(s)   == s.at = "end_save" \/ Pends(s)

Sensible(s) ==
  /\ s.at # "cancel_task"
  /\ AtStatus(s) => s.status \in {"on_going", "payment_pending"}
  /\ s.at = "end_save" => ~s.seen

IsPending(r) == r \in DOMAIN statusLog /\ statusLog[r] = "payment_pending"

PendingIn(o) == \E r \in o.statuses : IsPending(r)

Over ==
  \/ task = "completed"
  \/ \E h \in Slots : Ends(handlers[h])
  \/ \E r \in DOMAIN statusLog : IsPending(r)

LogInOrder ==
  /\ \A r \in DOMAIN statusLog : statusLog[r] \notin {"completed", "cancelled"}
  /\ \A r, q \in DOMAIN statusLog : IsPending(r) /\ r <= q => IsPending(q)

WorkInOrder ==
  /\ LogInOrder
  /\ task # "cancelled"
  /\ \A h \in Slots : Sensible(handlers[h])
  /\ Over => task # "pending" /\ \A h \in Slots : ~Starts(handlers[h])
  /\ \A h \in Slots : Standing(h, "status_save") /\ Pends(handlers[h]) =>
                         PendingIn(handlers[h].snap)
  /\ task = "completed" => (\E h \in Slots : Pends(handlers[h])) \/ PendingIn(order)

WorkInv == Undisturbed /\ ~hurried => WorkInOrder

\* The order has the row of an update, not only that of its acceptance.
Updated(o) == \E r \in o.statuses : r # 1

Recorded == \E r \in DOMAIN statusLog : IsPending(r)

WorkKept ==
  /\ \A r \in DOMAIN statusLog : r # 1 => statusLog[r] \in {"on_going", "payment_pending"}
  /\ statusLog[1] = "accepted"
  /\ \A h \in Slots : Sensible(handlers[h])
  /\ \A h \in Slots : Standing(h, "status_save") =>
        Updated(handlers[h].snap) /\ (Pends(handlers[h]) => Recorded)
  /\ task = "completed" => (\E h \in Slots : Pends(handlers[h])) \/ (Updated(order) /\ Recorded)

KeptInv == Undisturbed => WorkKept

\* A receipt stays, a cancellation and a restart are not taken back.
LEMMA UndisturbedBefore ==
  ASSUME TypeOK, [Next]_vars, Undisturbed'
  PROVE  Undisturbed /\ (~hurried' => ~hurried)
<1>1. cancels \in Nat /\ crashed \in BOOLEAN /\ payments \in Seq(Payment)
  BY LimitsAssumption DEF TypeOK
<1>2. cancels' = 0 /\ ~crashed' /\ ~Paid'
  BY DEF Undisturbed
<1>3. cancels = 0 /\ ~crashed
  <2>1. CASE UNCHANGED <<cancels, crashed>>
    BY <1>2, <2>1
  <2>2. CASE \E h \in Slots : CancelOrder(h)
    BY <1>1, <1>2, <2>2 DEF CancelOrder
  <2>3. CASE Crash
    BY <1>2, <2>3 DEF Crash
  <2>4. QED
    BY <2>1, <2>2, <2>3 DEF Next, Resume, Request, StatusLoad, StatusInsert, StatusSave,
      StartSave, EndSave, CancelTask, SavePayment, LinkRefused, FindPayment, Receive,
      ReceiveRepeated, DropOthers, InvoiceLoad, Complete, StartTask, EndTask, CreatePayment,
      ReceivePayment, Notified, counts, past, vars
<1>4. \A p \in DOMAIN payments : payments[p].received =>
         p \in DOMAIN payments' /\ payments'[p].received
  <2>1. CASE UNCHANGED payments
    BY <2>1
  <2>2. CASE \E h \in Slots : SavePayment(h)
    <3>1. PICK row : payments' = Append(payments, row)
      BY <2>2 DEF SavePayment
    <3>2. QED
      BY <1>1, <3>1
  <2>3. CASE \E h \in Slots : Receive(h)
    <3>1. PICK h \in Slots : Receive(h)
      BY <2>3
    <3>2. PICK q : payments' = [payments EXCEPT ![q].received = TRUE, ![q].dropped = FALSE]
      BY <3>1 DEF Receive
    <3>3. \A p \in DOMAIN payments : payments[p] \in Payment
      BY <1>1
    <3>4. QED
      BY <3>2, <3>3 DEF Payment
  <2>4. CASE \E h \in Slots : DropOthers(h)
    <3>1. PICK h \in Slots : DropOthers(h)
      BY <2>4
    <3>2. \A p \in DOMAIN payments : payments[p] \in Payment
      BY <1>1
    <3>3. QED
      BY <3>1, <3>2 DEF DropOthers, Payment
  <2>5. QED
    BY <2>1, <2>2, <2>3, <2>4 DEF Next, Resume, Request, StatusLoad, StatusInsert, StatusSave,
      StartSave, EndSave, CancelTask, LinkRefused, FindPayment, Crash,
      ReceiveRepeated, InvoiceLoad, Complete, StartTask, EndTask, CreatePayment,
      ReceivePayment, CancelOrder, rows, vars
<1>5. hurried => hurried'
  BY DEF TypeOK, Next, Resume, Request, StatusLoad, StatusInsert, StatusSave,
    StartSave, EndSave, CancelTask, SavePayment, LinkRefused, FindPayment, Receive,
    ReceiveRepeated, DropOthers, InvoiceLoad, Complete, StartTask, EndTask, EndComes,
    CreatePayment, CancelOrder, Crash, ReceivePayment, Notified, counts, past, vars
<1>6. QED
  BY <1>2, <1>3, <1>4, <1>5 DEF Undisturbed, Paid

LEMMA InitWork ==
  ASSUME Init
  PROVE  WorkInv /\ KeptInv
<1>1. DOMAIN statusLog = {1} /\ statusLog[1] = "accepted"
  <2>1. statusLog = <<"accepted">>
    BY DEF Init
  <2>2. Len(statusLog) = 1 /\ statusLog[1] = "accepted" /\ DOMAIN statusLog = 1..Len(statusLog)
    BY <2>1
  <2>3. QED
    BY <2>2
<1>2. \A h \in Slots : handlers[h].at = "idle"
  BY DEF Init, Idle
<1>3. task = "pending"
  BY DEF Init
<1>4. QED
  BY <1>1, <1>2, <1>3 DEF WorkInv, WorkInOrder, LogInOrder, Sensible, Over, Starts, Ends, Pends,
    AtStatus, IsPending, Standing, KeptInv, WorkKept

(***************************************************************************)
(* Steps that leave task and statuses alone.                               *)
(***************************************************************************)
Aside(s) == s.at \notin {"start_save", "end_save", "cancel_task"} /\ ~AtStatus(s)

\* One handler goes from s to t, which says the same about the work.
LEMMA WorkAside ==
  ASSUME TypeOK, WorkInOrder, UNCHANGED <<statusLog, task>>,
         order'.statuses = order.statuses,
         NEW h \in Slots, NEW s, Goto(h, s), Sensible(s),
         Starts(s) => Starts(handlers[h]), Ends(s) => Ends(handlers[h]),
         Pends(handlers[h]) <=> Pends(s),
         s.at = "status_save" => s = handlers[h]
  PROVE  WorkInOrder'
<1>1. handlers'[h] = s /\ \A k \in Slots \ {h} : handlers'[k] = handlers[k]
  BY DEF TypeOK, Goto
<1>2. \A r : IsPending(r)' <=> IsPending(r)
  BY DEF IsPending
<1>3. LogInOrder'
  BY <1>2 DEF WorkInOrder, LogInOrder
<1>4. \A k \in Slots : Sensible(handlers'[k])
  BY <1>1 DEF WorkInOrder
<1>5. \A k \in Slots : /\ Starts(handlers'[k]) => Starts(handlers[k])
                       /\ Ends(handlers'[k]) => Ends(handlers[k])
                       /\ Pends(handlers'[k]) <=> Pends(handlers[k])
  BY <1>1
<1>6. Over' => Over
  BY <1>2, <1>5 DEF Over
<1>7. \A k \in Slots : handlers'[k].at = "status_save" => handlers'[k] = handlers[k]
  BY <1>1
<1>8. \A o : PendingIn(o) => \E r \in o.statuses : IsPending(r)'
  BY <1>2 DEF PendingIn
<1>9. \A k \in Slots : Standing(k, "status_save")' /\ Pends(handlers'[k]) =>
          \E r \in handlers'[k].snap.statuses : IsPending(r)'
  BY <1>5, <1>7, <1>8 DEF WorkInOrder, Standing
<1>10. PendingIn(order) => PendingIn(order)'
  BY <1>2 DEF PendingIn
<1>11. QED
  BY <1>3, <1>4, <1>5, <1>6, <1>9, <1>10 DEF WorkInOrder, PendingIn

LEMMA AsideMove ==
  ASSUME TypeOK, MoneyInv, Undisturbed, Undisturbed', NEW h \in Slots,
         \/ CreatePayment(h) \/ SavePayment(h) \/ LinkRefused(h) \/ FindPayment(h)
         \/ Receive(h) \/ ReceiveRepeated(h) \/ DropOthers(h) \/ InvoiceLoad(h)
         \/ \E p \in DOMAIN payments : ReceivePayment(h, p)
  PROVE  /\ UNCHANGED <<statusLog, task>>
         /\ order'.statuses = order.statuses
         /\ Aside(handlers[h])
         /\ \E s : Goto(h, s) /\ Aside(s)
<1>1. /\ UNCHANGED <<statusLog, task>>
      /\ order'.statuses = order.statuses
  BY DEF CreatePayment, SavePayment, LinkRefused, FindPayment, Receive, ReceiveRepeated,
    DropOthers, InvoiceLoad, ReceivePayment, rows, TypeOK, OrderRow
<1>2. PICK old : old = handlers[h]
  OBVIOUS
<1>3. old \in Handler /\ old.at \in {"idle", "payment_save", "find", "receive", "drop",
        "invoice_load"}
  BY <1>2, HandlerNow DEF CreatePayment, SavePayment, LinkRefused, FindPayment, Receive,
    ReceiveRepeated, DropOthers, InvoiceLoad, ReceivePayment, Standing, Free
<1>4. Aside(old)
  BY <1>3 DEF Aside, AtStatus
<1>5. \E s : Goto(h, s) /\ Aside(s)
  <2>1. Aside(Idle)
    BY DEF Aside, AtStatus, Idle
  <2>2. \A i, m : Aside(Notice(i, m)) /\
                  Aside([Idle EXCEPT !.at = "payment_save", !.invoice = i, !.method = m])
    BY DEF Aside, AtStatus, Idle, Notice
  <2>3. \A p : Aside([old EXCEPT !.at = "receive", !.payment = p])
    BY <1>3 DEF Aside, AtStatus, Handler
  <2>4. \A a \in {"drop", "invoice_load", "complete"} : Aside([old EXCEPT !.at = a])
    BY <1>3 DEF Aside, AtStatus, Handler
  <2>5. CASE CreatePayment(h)
    BY <2>2, <2>5 DEF CreatePayment
  <2>6. CASE SavePayment(h) \/ LinkRefused(h) \/ ReceiveRepeated(h)
    BY <2>1, <2>6 DEF SavePayment, LinkRefused, ReceiveRepeated, Finish
  <2>7. CASE FindPayment(h)
    BY <1>2, <2>1, <2>3, <2>7 DEF FindPayment, Finish
  <2>8. CASE Receive(h) \/ DropOthers(h) \/ InvoiceLoad(h)
    <3>1. \A a : Advance(h, a) => Goto(h, [old EXCEPT !.at = a])
      BY <1>2 DEF Advance, Goto, TypeOK
    <3>2. QED
      BY <2>1, <2>4, <2>8, <3>1 DEF Receive, DropOthers, InvoiceLoad, Finish
  <2>9. CASE \E p \in DOMAIN payments : ReceivePayment(h, p)
    BY <1>2, <1>4, <2>2, <2>9, StayIsGoto DEF ReceivePayment
  <2>10. QED
    BY <2>5, <2>6, <2>7, <2>8, <2>9
<1>6. QED
  BY <1>1, <1>2, <1>4, <1>5

LEMMA AsideStep ==
  ASSUME TypeOK, MoneyInv, WorkInOrder, Undisturbed, Undisturbed', NEW h \in Slots,
         \/ CreatePayment(h) \/ SavePayment(h) \/ LinkRefused(h) \/ FindPayment(h)
         \/ Receive(h) \/ ReceiveRepeated(h) \/ DropOthers(h) \/ InvoiceLoad(h)
         \/ \E p \in DOMAIN payments : ReceivePayment(h, p)
  PROVE  WorkInOrder'
<1>1. PICK s : Goto(h, s) /\ Aside(s)
  BY AsideMove
<1>2. Aside(handlers[h]) /\ UNCHANGED <<statusLog, task>> /\ order'.statuses = order.statuses
  BY AsideMove
<1>3. /\ Sensible(s) /\ ~Starts(s) /\ ~Ends(s) /\ ~Pends(s) /\ s.at # "status_save"
  BY <1>1 DEF Aside, Sensible, Starts, Ends, Pends, AtStatus
<1>4. ~Pends(handlers[h])
  BY <1>2 DEF Aside, Pends
<1>5. QED
  BY <1>1, <1>2, <1>3, <1>4, WorkAside

(***************************************************************************)
(* The task's start, its end, and their updates of the order's status.     *)
(***************************************************************************)
LEMMA UpdateOf ==
  ASSUME NEW st
  PROVE  UpdateStatus(st).at = "status_load" /\ UpdateStatus(st).status = st
  BY DEF UpdateStatus, Idle

LEMMA StartWork ==
  ASSUME TypeOK, WorkInOrder, NEW h \in Slots, StartTask(h) \/ StartSave(h)
  PROVE  WorkInOrder'
<1>1. UNCHANGED <<statusLog, order>>
  BY DEF StartTask, StartSave, rows
<1>2. ~Over /\ task' \in {"pending", "in_progress"}
  BY DEF StartTask, StartSave, Standing, WorkInOrder, Starts, Over, rows
<1>3. PICK s : /\ Goto(h, s)
               /\ \/ s.at \in {"idle", "start_save"}
                  \/ s.at = "status_load" /\ s.status = "on_going"
  <2>1. /\ Idle.at = "idle"
        /\ \A b : [Idle EXCEPT !.at = "start_save", !.seen = b].at = "start_save"
    BY DEF Idle
  <2>2. CASE StartTask(h)
    <3>1. PICK s : s = [Idle EXCEPT !.at = "start_save", !.seen = Ever(order, "on_going")]
      OBVIOUS
    <3>2. Goto(h, s)
      BY <2>2, <3>1 DEF StartTask
    <3>3. QED
      BY <2>1, <3>1, <3>2
  <2>3. CASE StartSave(h)
    <3>1. Goto(h, Idle) \/ Goto(h, UpdateStatus("on_going"))
      BY <2>3 DEF StartSave
    <3>2. QED
      BY <2>1, <3>1, UpdateOf
  <2>4. QED
    BY <2>2, <2>3
<1>4. handlers'[h] = s /\ \A k \in Slots \ {h} : handlers'[k] = handlers[k]
  BY <1>3 DEF TypeOK, Goto
<1>5. ~Ends(s) /\ Sensible(s) /\ ~Pends(s)
  BY <1>3 DEF Ends, Pends, Starts, Sensible, AtStatus
<1>6. \A r : IsPending(r)' <=> IsPending(r)
  BY <1>1 DEF IsPending
<1>7. LogInOrder'
  BY <1>1, <1>6 DEF WorkInOrder, LogInOrder
<1>8. \A k \in Slots : Sensible(handlers'[k]) /\ ~Ends(handlers'[k])
  BY <1>2, <1>4, <1>5 DEF WorkInOrder, Over
<1>9. ~Over'
  BY <1>1, <1>2, <1>6, <1>8 DEF Over
<1>10. QED
  BY <1>2, <1>7, <1>8, <1>9 DEF WorkInOrder, Ends

LEMMA EndWork ==
  ASSUME TypeOK, WorkInOrder, ~hurried', NEW h \in Slots, EndTask(h) \/ EndSave(h)
  PROVE  WorkInOrder'
<1>1. UNCHANGED <<statusLog, order>>
  BY DEF EndTask, EndSave, rows
<1>2. PICK s : /\ Goto(h, s) /\ Ends(s) /\ Sensible(s) /\ s.at # "status_save"
               /\ EndSave(h) => Pends(s)
  <2>1. CASE EndTask(h)
    <3>1. ~Ever(order, "completed")
      BY DEF WorkInOrder, LogInOrder, Ever, TypeOK, RowsOf
    <3>2. ~EndSave(h)
      BY <2>1 DEF EndTask, EndSave, Free, Standing
    <3>3. QED
      BY <2>1, <3>1, <3>2 DEF EndTask, Idle, Ends, Sensible, AtStatus
  <2>2. CASE EndSave(h)
    <3>1. ~handlers[h].seen
      BY <2>2 DEF EndSave, Standing, WorkInOrder, Sensible
    <3>2. QED
      BY <2>2, <3>1, UpdateOf DEF EndSave, Ends, Pends, Sensible, AtStatus
  <2>3. QED
    BY <2>1, <2>2
<1>3. /\ task' \in {"in_progress", "completed"}
      /\ \A k \in Slots : ~Starts(handlers[k])
  <2>1. CASE EndTask(h)
    BY <2>1 DEF EndTask, EndComes, Starting, Starts, Standing, AtStatus, rows
  <2>2. CASE EndSave(h)
    BY <2>2 DEF EndSave, Standing, WorkInOrder, Over, Ends
  <2>3. QED
    BY <2>1, <2>2
<1>4. handlers'[h] = s /\ \A k \in Slots \ {h} : handlers'[k] = handlers[k]
  BY <1>2 DEF TypeOK, Goto
<1>5. ~Starts(s)
  BY <1>2 DEF Starts, Ends, Pends, AtStatus
<1>6. \A r : IsPending(r)' <=> IsPending(r)
  BY <1>1 DEF IsPending
<1>7. LogInOrder'
  BY <1>1, <1>6 DEF WorkInOrder, LogInOrder
<1>8. \A k \in Slots : Sensible(handlers'[k]) /\ ~Starts(handlers'[k])
  BY <1>2, <1>3, <1>4, <1>5 DEF WorkInOrder
<1>9. \A k \in Slots : handlers'[k].at = "status_save" => handlers'[k] = handlers[k]
  BY <1>2, <1>4
<1>10. \A k \in Slots : Standing(k, "status_save")' /\ Pends(handlers'[k]) =>
          \E r \in handlers'[k].snap.statuses : IsPending(r)'
  BY <1>6, <1>9 DEF WorkInOrder, Standing, PendingIn
<1>11. task' = "completed" => \E k \in Slots : Pends(handlers'[k])
  <2>1. CASE EndSave(h)
    BY <1>2, <1>4, <2>1
  <2>2. CASE EndTask(h)
    BY <2>2 DEF EndTask, rows
  <2>3. QED
    BY <2>1, <2>2
<1>12. QED
  BY <1>3, <1>7, <1>8, <1>10, <1>11 DEF WorkInOrder, PendingIn

\* An update loads the order, or inserts its row and adds it to its snapshot.
LEMMA UpdateWork ==
  ASSUME TypeOK, WorkInOrder, NEW h \in Slots, StatusLoad(h) \/ StatusInsert(h)
  PROVE  WorkInOrder'
<1>1. PICK old : old = handlers[h]
  OBVIOUS
<1>2. old \in Handler /\ old.at \in {"status_load", "status_insert"} /\ Sensible(old)
  BY <1>1, HandlerNow DEF StatusLoad, StatusInsert, Standing, WorkInOrder
<1>3. old.status \in {"on_going", "payment_pending"}
  BY <1>2 DEF Sensible, AtStatus
<1>4. CASE StatusLoad(h)
  <2>1. PICK s : s = [old EXCEPT !.at = "status_insert", !.snap = order]
    OBVIOUS
  <2>2. Goto(h, s) /\ UNCHANGED <<statusLog, task, order>>
    BY <1>1, <1>4, <2>1 DEF StatusLoad, rows
  <2>3. s.at = "status_insert" /\ s.status = old.status
    BY <1>2, <2>1 DEF Handler
  <2>4. QED
    BY <1>1, <1>2, <1>3, <2>2, <2>3, WorkAside DEF Sensible, Starts, Ends, Pends, AtStatus
<1>5. CASE StatusInsert(h)
  <2>1. PICK row : row = Len(statusLog) + 1
    OBVIOUS
  <2>2. PICK s : s = [old EXCEPT !.at = "status_save", !.snap.statuses = @ \cup {row}]
    OBVIOUS
  <2>3. /\ Goto(h, s) /\ UNCHANGED task
        /\ statusLog' = Append(statusLog, old.status)
        /\ order' = [order EXCEPT !.statuses = @ \cup {row}]
    BY <1>1, <1>3, <1>5, <2>1, <2>2 DEF StatusInsert
  <2>4. s.at = "status_save" /\ s.status = old.status /\ row \in s.snap.statuses
    BY <1>2, <2>2 DEF Handler, OrderRow
  <2>5. handlers'[h] = s /\ \A k \in Slots \ {h} : handlers'[k] = handlers[k]
    BY <2>3 DEF TypeOK, Goto
  <2>6. /\ DOMAIN statusLog = 1..(row - 1) /\ DOMAIN statusLog' = 1..row /\ row \in Nat \ {0}
        /\ statusLog'[row] = old.status
        /\ \A r \in DOMAIN statusLog : statusLog'[r] = statusLog[r]
    BY <2>1, <2>3 DEF TypeOK
  <2>7. \A r : IsPending(r)' <=> IsPending(r) \/ (r = row /\ old.status = "payment_pending")
    BY <2>6 DEF IsPending
  <2>8. /\ Starts(s) <=> Starts(old)
        /\ Ends(s) <=> Ends(old)
        /\ Pends(s) <=> Pends(old)
        /\ Starts(old) \/ Pends(old)
        /\ Pends(old) <=> old.status = "payment_pending"
        /\ Sensible(s)
    BY <1>2, <1>3, <2>4 DEF Starts, Ends, Pends, AtStatus, Sensible
  <2>9. /\ \A k \in Slots : Starts(handlers'[k]) <=> Starts(handlers[k])
        /\ \A k \in Slots : Ends(handlers'[k]) <=> Ends(handlers[k])
        /\ \A k \in Slots : Pends(handlers'[k]) <=> Pends(handlers[k])
    BY <1>1, <2>5, <2>8
  <2>10. Over' <=> Over
    <3>1. old.status = "payment_pending" => Over
      BY <1>1, <2>8 DEF Over, Ends
    <3>2. \A r \in DOMAIN statusLog' : IsPending(r)' => Over
      <4>1. \A r : IsPending(r) => Over
        BY DEF Over, IsPending
      <4>2. QED
        BY <2>7, <3>1, <4>1
    <3>3. (\E r \in DOMAIN statusLog : IsPending(r)) =>
             \E r \in DOMAIN statusLog' : IsPending(r)'
      BY <2>6, <2>7
    <3>4. QED
      BY <2>3, <2>9, <3>2, <3>3 DEF Over
  <2>11. LogInOrder'
    <3>1. old.status # "payment_pending" => ~Over
      BY <1>1, <2>8 DEF WorkInOrder
    <3>2. ASSUME NEW r \in DOMAIN statusLog', NEW q \in DOMAIN statusLog',
                 IsPending(r)', r <= q
          PROVE  IsPending(q)'
      <4>1. CASE r = row
        BY <2>6, <2>7, <3>2, <4>1
      <4>2. CASE r # row
        <5>1. IsPending(r) /\ r \in DOMAIN statusLog
          BY <2>6, <2>7, <3>2, <4>2
        <5>2. old.status = "payment_pending"
          BY <3>1, <5>1 DEF Over
        <5>3. QED
          BY <2>6, <2>7, <3>2, <5>1, <5>2 DEF WorkInOrder, LogInOrder
      <4>3. QED
        BY <4>1, <4>2
    <3>3. \A r \in DOMAIN statusLog' : statusLog'[r] \notin {"completed", "cancelled"}
      BY <1>3, <2>6 DEF WorkInOrder, LogInOrder
    <3>4. QED
      BY <3>2, <3>3 DEF LogInOrder
  <2>12. \A k \in Slots : Sensible(handlers'[k])
    BY <2>5, <2>8 DEF WorkInOrder
  <2>13. \A o : PendingIn(o) => \E r \in o.statuses : IsPending(r)'
    BY <2>7 DEF PendingIn
  <2>14. \A k \in Slots : Standing(k, "status_save")' /\ Pends(handlers'[k]) =>
          \E r \in handlers'[k].snap.statuses : IsPending(r)'
    BY <2>4, <2>5, <2>7, <2>8, <2>13 DEF WorkInOrder, Standing
  <2>15. PendingIn(order) => PendingIn(order)'
    BY <2>3, <2>13 DEF PendingIn, TypeOK, OrderRow
  <2>16. QED
    BY <2>3, <2>9, <2>10, <2>11, <2>12, <2>14, <2>15 DEF WorkInOrder, PendingIn
<1>6. QED
  BY <1>4, <1>5

LEMMA StatusSaveWork ==
  ASSUME TypeOK, WorkInOrder, NEW h \in Slots, StatusSave(h)
  PROVE  WorkInOrder'
<1>1. PICK old : old = handlers[h]
  OBVIOUS
<1>2. old \in Handler /\ old.at = "status_save" /\ Sensible(old)
  BY <1>1, HandlerNow DEF StatusSave, Standing, WorkInOrder
<1>3. old.status \in {"on_going", "payment_pending"}
  BY <1>2 DEF Sensible, AtStatus
<1>4. Goto(h, Idle) /\ UNCHANGED <<statusLog, task>> /\ order' = old.snap
  BY <1>1, <1>3 DEF StatusSave, Finish
<1>5. handlers'[h] = Idle /\ \A k \in Slots \ {h} : handlers'[k] = handlers[k]
  BY <1>4 DEF TypeOK, Goto
<1>6. Sensible(Idle) /\ ~Starts(Idle) /\ ~Ends(Idle) /\ ~Pends(Idle) /\ Idle.at # "status_save"
  BY DEF Idle, Sensible, Starts, Ends, Pends, AtStatus
<1>7. \A r : IsPending(r)' <=> IsPending(r)
  BY <1>4 DEF IsPending
<1>8. LogInOrder'
  BY <1>4, <1>7 DEF WorkInOrder, LogInOrder
<1>9. \A k \in Slots : /\ Sensible(handlers'[k])
                       /\ Starts(handlers'[k]) => Starts(handlers[k])
                       /\ Ends(handlers'[k]) => Ends(handlers[k])
                       /\ handlers'[k].at = "status_save" => handlers'[k] = handlers[k]
  BY <1>5, <1>6 DEF WorkInOrder
<1>10. Over' => Over
  BY <1>4, <1>7, <1>9 DEF Over
<1>11. \A o : PendingIn(o) => \E r \in o.statuses : IsPending(r)'
  BY <1>7 DEF PendingIn
<1>12. \A k \in Slots : Standing(k, "status_save")' /\ Pends(handlers'[k]) =>
          \E r \in handlers'[k].snap.statuses : IsPending(r)'
  BY <1>9, <1>11 DEF WorkInOrder, Standing
<1>13. Over => PendingIn(order')
  <2>1. Over => Pends(old)
    BY <1>1, <1>2, <1>3 DEF WorkInOrder, Starts, Pends, AtStatus
  <2>2. Pends(old) => PendingIn(old.snap)
    BY <1>1, <1>2 DEF WorkInOrder, Standing
  <2>3. QED
    BY <1>4, <2>1, <2>2 DEF PendingIn
<1>14. QED
  BY <1>4, <1>7, <1>8, <1>9, <1>10, <1>12, <1>13 DEF WorkInOrder, PendingIn, Over

LEMMA NextWork ==
  ASSUME TypeOK, MoneyInv, WorkInv, [Next]_vars
  PROVE  WorkInv'
<1> SUFFICES ASSUME Undisturbed', ~hurried' PROVE WorkInOrder'
  BY DEF WorkInv
<1>1. Undisturbed /\ WorkInOrder
  BY UndisturbedBefore DEF WorkInv
<1>2. ASSUME NEW h \in Slots, Resume(h) PROVE WorkInOrder'
  <2>1. ~CancelTask(h)
    BY <1>1 DEF CancelTask, Standing, WorkInOrder, Sensible
  <2>2. ~Complete(h)
    BY <1>1 DEF Complete, Standing, MoneyInv, Owed, HasReceipt, PaymentsOf, Undisturbed, Paid
  <2>3. QED
    BY <1>1, <1>2, <2>1, <2>2, AsideStep, StartWork, EndWork, UpdateWork, StatusSaveWork
       DEF Resume
<1>3. ASSUME NEW h \in Slots, Request(h) PROVE WorkInOrder'
  <2>1. ~CancelOrder(h)
    BY LimitsAssumption DEF CancelOrder, Undisturbed, TypeOK
  <2>2. QED
    BY <1>1, <1>3, <2>1, AsideStep, StartWork, EndWork DEF Request
<1>4. ~Crash
  BY DEF Crash, Undisturbed
<1>5. CASE UNCHANGED vars
  BY <1>1, <1>5 DEF vars, rows, WorkInOrder, LogInOrder, Over, IsPending, PendingIn, Standing
<1>6. QED
  BY <1>2, <1>3, <1>4, <1>5 DEF Next

LEMMA PendingRead ==
  ASSUME TypeOK, LogInOrder, PendingIn(order)
  PROVE  Latest(order) = "payment_pending"
<1>1. PICK r \in order.statuses : IsPending(r)
  BY DEF PendingIn
<1>2. order.statuses \subseteq 1..Len(statusLog) /\ Len(statusLog) \in Nat
  BY DEF TypeOK, RowsOf
<1>3. Max(order.statuses) \in order.statuses /\ Max(order.statuses) >= r
  BY <1>1, <1>2, MaxInSet
<1>4. IsPending(Max(order.statuses))
  BY <1>1, <1>2, <1>3 DEF LogInOrder, TypeOK
<1>5. QED
  BY <1>4 DEF IsPending, Latest

(***************************************************************************)
(* What holds also when an end has come before its start was recorded.     *)
(***************************************************************************)
\* One handler goes from s to t, and no row is added.
LEMMA KeptAside ==
  ASSUME TypeOK, WorkKept, UNCHANGED statusLog, order'.statuses = order.statuses,
         NEW h \in Slots, NEW s, Goto(h, s), Sensible(s), s.at = "status_save" => s = handlers[h],
         task' = "completed" =>
           \/ Pends(s)
           \/ task = "completed" /\ ~Pends(handlers[h])
  PROVE  WorkKept'
<1>1. handlers'[h] = s /\ \A k \in Slots \ {h} : handlers'[k] = handlers[k]
  BY DEF TypeOK, Goto
<1>2. \A r : IsPending(r)' <=> IsPending(r)
  BY DEF IsPending
<1>3. Recorded' <=> Recorded
  BY <1>2 DEF Recorded
<1>4. \A k \in Slots : Sensible(handlers'[k])
  BY <1>1 DEF WorkKept
<1>5. \A k \in Slots : handlers'[k].at = "status_save" =>
         Updated(handlers'[k].snap) /\ (Pends(handlers'[k]) => Recorded)
  BY <1>1 DEF WorkKept, Standing
<1>6. Updated(order') <=> Updated(order)
  BY DEF Updated
<1>7. task' = "completed" =>
         (\E k \in Slots : Pends(handlers'[k])) \/ (Updated(order') /\ Recorded')
  BY <1>1, <1>3, <1>6 DEF WorkKept
<1>8. QED
  BY <1>3, <1>4, <1>5, <1>7 DEF WorkKept, Standing, Updated

LEMMA KeptAsideStep ==
  ASSUME TypeOK, MoneyInv, WorkKept, Undisturbed, Undisturbed', NEW h \in Slots,
         \/ CreatePayment(h) \/ SavePayment(h) \/ LinkRefused(h) \/ FindPayment(h)
         \/ Receive(h) \/ ReceiveRepeated(h) \/ DropOthers(h) \/ InvoiceLoad(h)
         \/ \E p \in DOMAIN payments : ReceivePayment(h, p)
  PROVE  WorkKept'
<1>1. PICK s : Goto(h, s) /\ Aside(s)
  BY AsideMove
<1>2. Aside(handlers[h]) /\ UNCHANGED <<statusLog, task>> /\ order'.statuses = order.statuses
  BY AsideMove
<1>3. Sensible(s) /\ s.at # "status_save" /\ ~Pends(handlers[h])
  BY <1>1, <1>2 DEF Aside, Sensible, Pends, AtStatus
<1>4. QED
  BY <1>1, <1>2, <1>3, KeptAside

LEMMA NotFinished ==
  ASSUME TypeOK, WorkKept
  PROVE  ~Ever(order, "completed")
<1>1. \A r \in DOMAIN statusLog : statusLog[r] # "completed"
  BY DEF WorkKept
<1>2. QED
  BY <1>1 DEF Ever, TypeOK, RowsOf

LEMMA KeysKept ==
  ASSUME TypeOK, WorkKept, NEW h \in Slots,
         StartTask(h) \/ StartSave(h) \/ EndTask(h) \/ EndSave(h)
  PROVE  WorkKept'
<1>1. UNCHANGED <<statusLog, order>>
  BY DEF StartTask, StartSave, EndTask, EndSave, rows
<1>2. PICK s : /\ Goto(h, s) /\ Sensible(s) /\ s.at # "status_save"
               /\ task' = "completed" => Pends(s)
  <2>1. /\ Idle.at = "idle"
        /\ \A b : [Idle EXCEPT !.at = "start_save", !.seen = b].at = "start_save"
        /\ \A b : /\ [Idle EXCEPT !.at = "end_save", !.seen = b].at = "end_save"
                  /\ [Idle EXCEPT !.at = "end_save", !.seen = b].seen = b
    BY DEF Idle
  <2>2. CASE StartTask(h)
    <3>1. PICK s : s = [Idle EXCEPT !.at = "start_save", !.seen = Ever(order, "on_going")]
      OBVIOUS
    <3>2. Goto(h, s) /\ task' # "completed" /\ s.at = "start_save"
      BY <2>1, <2>2, <3>1 DEF StartTask, rows
    <3>3. QED
      BY <3>2 DEF Sensible, AtStatus
  <2>3. CASE StartSave(h)
    <3>1. Goto(h, Idle) \/ Goto(h, UpdateStatus("on_going"))
      BY <2>3 DEF StartSave
    <3>2. task' # "completed"
      BY <2>3 DEF StartSave
    <3>3. QED
      BY <2>1, <3>1, <3>2, UpdateOf DEF Sensible, AtStatus
  <2>4. CASE EndTask(h)
    <3>1. PICK s : s = [Idle EXCEPT !.at = "end_save", !.seen = Ever(order, "completed")]
      OBVIOUS
    <3>2. Goto(h, s) /\ task' # "completed" /\ s.at = "end_save" /\ ~s.seen
      BY <2>1, <2>4, <3>1, NotFinished DEF EndTask, rows
    <3>3. QED
      BY <3>2 DEF Sensible, AtStatus
  <2>5. CASE EndSave(h)
    <3>1. ~handlers[h].seen
      BY <2>5 DEF EndSave, Standing, WorkKept, Sensible
    <3>2. Goto(h, UpdateStatus("payment_pending"))
      BY <2>5, <3>1 DEF EndSave
    <3>3. QED
      BY <3>2, UpdateOf DEF Sensible, AtStatus, Pends
  <2>6. QED
    BY <2>2, <2>3, <2>4, <2>5
<1>3. QED
  BY <1>1, <1>2, KeptAside

\* An update loads the order, or adds its row to the log, the order and its snapshot.
LEMMA UpdateKept ==
  ASSUME TypeOK, WorkKept, NEW h \in Slots, StatusLoad(h) \/ StatusInsert(h)
  PROVE  WorkKept'
<1>1. PICK old : old = handlers[h]
  OBVIOUS
<1>2. old \in Handler /\ old.at \in {"status_load", "status_insert"} /\ Sensible(old)
  BY <1>1, HandlerNow DEF StatusLoad, StatusInsert, Standing, WorkKept
<1>3. old.status \in {"on_going", "payment_pending"}
  BY <1>2 DEF Sensible, AtStatus
<1>4. CASE StatusLoad(h)
  <2>1. PICK s : s = [old EXCEPT !.at = "status_insert", !.snap = order]
    OBVIOUS
  <2>2. Goto(h, s) /\ UNCHANGED <<statusLog, task, order>>
    BY <1>1, <1>4, <2>1 DEF StatusLoad, rows
  <2>3. s.at = "status_insert" /\ s.status = old.status
    BY <1>2, <2>1 DEF Handler
  <2>4. Sensible(s) /\ (Pends(s) <=> Pends(old))
    BY <1>2, <1>3, <2>3 DEF Sensible, Pends, AtStatus
  <2>5. QED
    BY <1>1, <2>2, <2>3, <2>4, KeptAside
<1>5. CASE StatusInsert(h)
  <2>1. PICK row : row = Len(statusLog) + 1
    OBVIOUS
  <2>2. PICK s : s = [old EXCEPT !.at = "status_save", !.snap.statuses = @ \cup {row}]
    OBVIOUS
  <2>3. /\ Goto(h, s) /\ UNCHANGED task
        /\ statusLog' = Append(statusLog, old.status)
        /\ order' = [order EXCEPT !.statuses = @ \cup {row}]
    BY <1>1, <1>3, <1>5, <2>1, <2>2 DEF StatusInsert
  <2>4. s.at = "status_save" /\ s.status = old.status /\ row \in s.snap.statuses
    BY <1>2, <2>2 DEF Handler, OrderRow
  <2>5. handlers'[h] = s /\ \A k \in Slots \ {h} : handlers'[k] = handlers[k]
    BY <2>3 DEF TypeOK, Goto
  <2>6. /\ DOMAIN statusLog = 1..(row - 1) /\ DOMAIN statusLog' = 1..row /\ row \in Nat \ {0}
        /\ statusLog'[row] = old.status
        /\ \A r \in DOMAIN statusLog : statusLog'[r] = statusLog[r]
    BY <2>1, <2>3 DEF TypeOK
  <2>7. 1 \in DOMAIN statusLog
    <3>1. order.statuses # {} /\ order.statuses \subseteq DOMAIN statusLog
      BY DEF TypeOK, RowsOf
    <3>2. QED
      BY <2>6, <3>1
  <2>8. /\ \A r \in DOMAIN statusLog' : r # 1 =>
              statusLog'[r] \in {"on_going", "payment_pending"}
        /\ statusLog'[1] = "accepted"
    BY <1>3, <2>6, <2>7 DEF WorkKept
  <2>9. row # 1 /\ Updated(s.snap) /\ Updated(order')
    <3>1. row # 1
      BY <2>6, <2>7
    <3>2. row \in order'.statuses
      BY <2>3 DEF TypeOK, OrderRow
    <3>3. QED
      BY <2>4, <3>1, <3>2 DEF Updated
  <2>10. /\ Recorded => Recorded'
         /\ Pends(s) => Recorded'
    BY <2>4, <2>6 DEF Recorded, IsPending, Pends
  <2>11. Sensible(s) /\ (Pends(s) <=> Pends(old))
    BY <1>2, <1>3, <2>4 DEF Sensible, Pends, AtStatus
  <2>12. \A k \in Slots : Sensible(handlers'[k])
    BY <2>5, <2>11 DEF WorkKept
  <2>13. \A k \in Slots : handlers'[k].at = "status_save" =>
            Updated(handlers'[k].snap) /\ (Pends(handlers'[k]) => Recorded')
    BY <2>5, <2>9, <2>10 DEF WorkKept, Standing
  <2>14. task' = "completed" =>
            (\E k \in Slots : Pends(handlers'[k])) \/ (Updated(order') /\ Recorded')
    BY <1>1, <2>3, <2>5, <2>9, <2>10, <2>11 DEF WorkKept
  <2>15. QED
    BY <2>8, <2>12, <2>13, <2>14 DEF WorkKept, Standing, Updated
<1>6. QED
  BY <1>4, <1>5

LEMMA StatusSaveKept ==
  ASSUME TypeOK, WorkKept, NEW h \in Slots, StatusSave(h)
  PROVE  WorkKept'
<1>1. PICK old : old = handlers[h]
  OBVIOUS
<1>2. old \in Handler /\ old.at = "status_save" /\ Sensible(old)
  BY <1>1, HandlerNow DEF StatusSave, Standing, WorkKept
<1>3. old.status \in {"on_going", "payment_pending"}
  BY <1>2 DEF Sensible, AtStatus
<1>4. Goto(h, Idle) /\ UNCHANGED <<statusLog, task>> /\ order' = old.snap
  BY <1>1, <1>3 DEF StatusSave, Finish
<1>5. handlers'[h] = Idle /\ \A k \in Slots \ {h} : handlers'[k] = handlers[k]
  BY <1>4 DEF TypeOK, Goto
<1>6. Sensible(Idle) /\ ~Pends(Idle) /\ Idle.at # "status_save"
  BY DEF Idle, Sensible, Pends, AtStatus
<1>7. Recorded' <=> Recorded
  BY <1>4 DEF Recorded, IsPending
<1>8. Updated(order') /\ (Pends(old) => Recorded)
  BY <1>1, <1>2, <1>4 DEF WorkKept, Standing
<1>9. \A k \in Slots : /\ Sensible(handlers'[k])
                       /\ handlers'[k].at = "status_save" => handlers'[k] = handlers[k]
  BY <1>5, <1>6 DEF WorkKept
<1>10. \A k \in Slots : handlers'[k].at = "status_save" =>
          Updated(handlers'[k].snap) /\ (Pends(handlers'[k]) => Recorded)
  BY <1>9 DEF WorkKept, Standing
<1>11. task' = "completed" =>
          (\E k \in Slots : Pends(handlers'[k])) \/ (Updated(order') /\ Recorded)
  BY <1>1, <1>4, <1>5, <1>8 DEF WorkKept
<1>12. QED
  BY <1>4, <1>7, <1>9, <1>10, <1>11 DEF WorkKept, Standing, Updated

LEMMA NextKept ==
  ASSUME TypeOK, MoneyInv, KeptInv, [Next]_vars
  PROVE  KeptInv'
<1> SUFFICES ASSUME Undisturbed' PROVE WorkKept'
  BY DEF KeptInv
<1>1. Undisturbed /\ WorkKept
  BY UndisturbedBefore DEF KeptInv
<1>2. ASSUME NEW h \in Slots, Resume(h) PROVE WorkKept'
  <2>1. ~CancelTask(h)
    BY <1>1 DEF CancelTask, Standing, WorkKept, Sensible
  <2>2. ~Complete(h)
    BY <1>1 DEF Complete, Standing, MoneyInv, Owed, HasReceipt, PaymentsOf, Undisturbed, Paid
  <2>3. QED
    BY <1>1, <1>2, <2>1, <2>2, KeptAsideStep, KeysKept, UpdateKept, StatusSaveKept DEF Resume
<1>3. ASSUME NEW h \in Slots, Request(h) PROVE WorkKept'
  <2>1. ~CancelOrder(h)
    BY LimitsAssumption DEF CancelOrder, Undisturbed, TypeOK
  <2>2. QED
    BY <1>1, <1>3, <2>1, KeptAsideStep, KeysKept DEF Request
<1>4. ~Crash
  BY DEF Crash, Undisturbed
<1>5. CASE UNCHANGED vars
  BY <1>1, <1>5 DEF vars, rows, WorkKept, Recorded, IsPending, Updated, Standing
<1>6. QED
  BY <1>2, <1>3, <1>4, <1>5 DEF Next

LEMMA UpdateRead ==
  ASSUME TypeOK, WorkKept, Updated(order)
  PROVE  Latest(order) \in {"on_going", "payment_pending"}
<1>1. PICK r \in order.statuses : r # 1
  BY DEF Updated
<1>2. order.statuses \subseteq 1..Len(statusLog) /\ Len(statusLog) \in Nat
  BY DEF TypeOK, RowsOf
<1>3. Max(order.statuses) \in order.statuses /\ Max(order.statuses) >= r
  BY <1>1, <1>2, MaxInSet
<1>4. Max(order.statuses) # 1 /\ Max(order.statuses) \in DOMAIN statusLog
  BY <1>1, <1>2, <1>3 DEF TypeOK
<1>5. QED
  BY <1>4 DEF WorkKept, Latest

\* Finished work nobody has paid for has a payment_pending row and reads that status
\* once every request is over (commitTask, updateOrderStatus), or on_going when an end
\* came before its start was recorded, for any number of repeated callbacks, links and
\* notifications: placeOrder's test for an unpaid order finds it in the first case.
THEOREM UnpaidTheorem == Spec => []UnpaidWorkReadsPending
<1>1. Init => WorkInv /\ KeptInv
  BY InitWork
<1>2. TypeOK /\ MoneyInv /\ WorkInv /\ [Next]_vars => WorkInv'
  BY NextWork
<1>3. TypeOK /\ MoneyInv /\ KeptInv /\ [Next]_vars => KeptInv'
  BY NextKept
<1>4. TypeOK /\ WorkInv /\ KeptInv => UnpaidWorkReadsPending
  <2> SUFFICES ASSUME TypeOK, WorkKept, ~hurried => WorkInOrder, Quiet, task = "completed"
               PROVE  /\ Recorded
                      /\ \/ Latest(order) = "payment_pending"
                         \/ hurried /\ Latest(order) = "on_going"
    BY DEF WorkInv, KeptInv, UnpaidWorkReadsPending, Undisturbed, Recorded, IsPending
  <2>1. \A h \in Slots : ~Pends(handlers[h])
    BY DEF Quiet, Free, Pends, AtStatus
  <2>2. Recorded /\ Latest(order) \in {"on_going", "payment_pending"}
    BY <2>1, UpdateRead DEF WorkKept
  <2>3. CASE hurried
    BY <2>2, <2>3
  <2>4. CASE ~hurried
    BY <2>1, <2>2, <2>4, PendingRead DEF WorkInOrder
  <2>5. QED
    BY <2>3, <2>4
<1>5. QED
  BY <1>1, <1>2, <1>3, <1>4, TypeCorrect, MoneyAlways, PTL DEF Spec

=============================================================================
