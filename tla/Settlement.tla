----------------------------- MODULE Settlement -----------------------------
(***************************************************************************)
(* From an accepted instant order to a paid one: the worker's start and    *)
(* end callbacks (task.service.ts), the customer's payment links and the   *)
(* payment provider's notifications (finance.service.ts), a cancellation   *)
(* and updateOrderStatus (orders.service.ts).                              *)
(*                                                                         *)
(* As in OrderDispatch a step is the code between two awaits, a handler    *)
(* works on the snapshot it loaded, and save(order) writes it back whole.  *)
(* InvoiceSettlement says what the payments of an invoice promise.         *)
(***************************************************************************)
EXTENDS Naturals, Sequences, FiniteSets, FiniteSetsExt

CONSTANTS Invoices,    \* invoice ids the finance API hands out for the order
          Methods,     \* payment methods
          NoInvoice,   \* no invoice yet in a handler's local variable
          NoMethod,
          Slots,       \* handlers that may run at the same time (bound)
          MaxPayments, \* payment links the customer asks for (bound)
          MaxNotices,  \* notifications of the provider, repeated ones too (bound)
          MaxCancels,  \* cancellation requests of the customer (bound)
          MaxRequests, \* links and cancellations together (bound)
          MaxRows,     \* status rows up to which the worker presses keys (bound)
          Faults       \* what may fail: a subset of {"crash", "finance"}

ASSUME InvoicesAssumption == NoInvoice \notin Invoices /\ NoMethod \notin Methods
ASSUME SlotsAssumption    == IsFiniteSet(Slots)
ASSUME LimitsAssumption   == MaxPayments \in Nat /\ MaxNotices \in Nat /\ MaxCancels \in Nat
                            /\ MaxRequests \in Nat /\ MaxRows \in Nat
ASSUME FaultsAssumption   == Faults \subseteq {"crash", "finance"}

VARIABLES
  statusLog,  \* every order_status row since the acceptance, by createdAt
  order,      \* the rows the order's relations hold now; the accepted call
  task,       \* the status of the order's task
  payments,   \* every payment row, by created_at
  asked,      \* payment links asked for
  notices,    \* notifications received from the provider
  cancels,    \* cancellation requests received
  crashed,    \* the process has been restarted
  overlapped, \* a notification has come while another was being handled
  hurried,    \* an end has come while a start was still being recorded
  handlers    \* the running handlers: where each is, and what it holds

rows   == <<statusLog, order, task, payments>>
counts == <<asked, notices, cancels>>
past   == <<crashed, overlapped, hurried>>
vars   == <<rows, counts, past, handlers>>

Statuses     == {"accepted", "on_going", "payment_pending", "completed", "cancelled"}
TaskStatuses == {"pending", "in_progress", "completed", "cancelled"}

\* What getOrderById returns and save(order) writes, as far as this module goes.
OrderRow == [statuses : SUBSET Nat, invoices : SUBSET Invoices, call : BOOLEAN]

Payment == [invoice : Invoices, method : Methods, received : BOOLEAN, dropped : BOOLEAN]

NoOrder == [statuses |-> {}, invoices |-> {}, call |-> FALSE]

\* A handler: the await it stands at, its snapshot of the order, and its locals;
\* `seen` is what it found in the rows it loaded first.
Handler == [at : {"idle", "start_save", "end_save", "status_load", "status_insert",
                  "status_save", "cancel_task", "payment_save", "find", "receive", "drop",
                  "invoice_load", "complete"},
            snap : OrderRow, status : Statuses, seen : BOOLEAN, payment : Nat,
            invoice : Invoices \cup {NoInvoice}, method : Methods \cup {NoMethod}]

Idle == [at |-> "idle", snap |-> NoOrder, status |-> "accepted", seen |-> FALSE,
         payment |-> 0, invoice |-> NoInvoice, method |-> NoMethod]

\* orderStatuses[0] under ORDER BY createdAt DESC.
Latest(o) == statusLog[Max(o.statuses)]

\* task.order.orderStatuses holds a row of that status.
Ever(o, st) == \E s \in o.statuses : statusLog[s] = st

PaymentsOf(i) == {p \in DOMAIN payments : payments[p].invoice = i}

\* payment_received_at IS NULL AND payment_dropped_at IS NULL
IsOpen(p) == ~payments[p].received /\ ~payments[p].dropped

Free(h)        == handlers[h].at = "idle"
Standing(h, a) == handlers[h].at = a
Goto(h, state) == handlers' = [handlers EXCEPT ![h] = state]
Finish(h)      == Goto(h, Idle)
Advance(h, a)  == handlers' = [handlers EXCEPT ![h].at = a]

(***************************************************************************)
(* updateOrderStatus(orderId, status): load, insert, save the snapshot.    *)
(***************************************************************************)
StatusLoad(h) ==
  /\ Standing(h, "status_load")
  /\ Goto(h, [handlers[h] EXCEPT !.at = "status_insert", !.snap = order])
  /\ UNCHANGED <<rows, counts, past>>

\* Mutant: the new row is pushed onto the order without being saved.
StatusInsertUnsaved(h) ==
  /\ Standing(h, "status_insert")
  /\ Goto(h, [handlers[h] EXCEPT !.at = "status_save",
                 !.snap.statuses = @ \cup {Len(statusLog) + 1}])
  /\ UNCHANGED <<rows, counts, past>>

\* A cancellation that finds the worker's accepted call places the cancel call
\* and ends in a TypeError on the gateway's answer: nothing is saved.
StatusInsert(h) ==
  LET row  == Len(statusLog) + 1
      dies == handlers[h].status = "cancelled" /\ handlers[h].snap.call IN
  /\ Standing(h, "status_insert")
  /\ statusLog' = Append(statusLog, handlers[h].status)
  /\ order' = [order EXCEPT !.statuses = @ \cup {row}]
  /\ Goto(h, IF dies THEN Idle
             ELSE [handlers[h] EXCEPT !.at = "status_save", !.snap.statuses = @ \cup {row}])
  /\ UNCHANGED <<task, payments, counts, past>>

\* A status row or an invoice linked since the snapshot was taken is detached.
StatusSave(h) ==
  /\ Standing(h, "status_save")
  /\ order' = handlers[h].snap
  /\ IF handlers[h].status = "cancelled" /\ handlers[h].seen
     THEN Advance(h, "cancel_task") ELSE Finish(h)
  /\ UNCHANGED <<statusLog, task, payments, counts, past>>

UpdateStatus(st) == [Idle EXCEPT !.at = "status_load", !.status = st]

(***************************************************************************)
(* The worker's callbacks.  The controller does not await the service.     *)
(***************************************************************************)
\* startCurrentPendingTaskByOrderId finds the task, with the order's statuses.
StartTask(h) ==
  /\ Free(h)
  /\ task = "pending"
  /\ Len(statusLog) < MaxRows
  /\ Goto(h, [Idle EXCEPT !.at = "start_save", !.seen = Ever(order, "on_going")])
  /\ UNCHANGED <<rows, counts, past>>

\* The task as it was loaded is saved in progress, whatever it has become since.
StartSave(h) ==
  /\ Standing(h, "start_save")
  /\ task' = "in_progress"
  /\ Goto(h, IF handlers[h].seen THEN Idle ELSE UpdateStatus("on_going"))
  /\ UNCHANGED <<statusLog, order, payments, counts, past>>

Starting(h) ==
  \/ Standing(h, "start_save")
  \/ handlers[h].at \in {"status_load", "status_insert", "status_save"}
     /\ handlers[h].status = "on_going"

\* The task is in progress from the start's first save on, and its status update
\* takes three more awaits: an end may come in between.
EndComes == hurried' = (hurried \/ \E k \in Slots : Starting(k))

\* Mutant: it looks for on_going among the statuses, as the start does.
EndTaskCopied(h) ==
  /\ Free(h)
  /\ task = "in_progress"
  /\ Len(statusLog) < MaxRows
  /\ EndComes
  /\ Goto(h, [Idle EXCEPT !.at = "end_save", !.seen = Ever(order, "on_going")])
  /\ UNCHANGED <<rows, counts, crashed, overlapped>>

\* completeCurrentInProgressTaskByOrderId.  The worker may end the task the moment
\* it is in progress: the customer's start request itself places the call that
\* offers the end key, and the controller keeps no request waiting for another.
EndTask(h) ==
  /\ Free(h)
  /\ task = "in_progress"
  /\ Len(statusLog) < MaxRows
  /\ EndComes
  /\ Goto(h, [Idle EXCEPT !.at = "end_save", !.seen = Ever(order, "completed")])
  /\ UNCHANGED <<rows, counts, crashed, overlapped>>

EndSave(h) ==
  /\ Standing(h, "end_save")
  /\ task' = "completed"
  /\ Goto(h, IF handlers[h].seen THEN Idle ELSE UpdateStatus("payment_pending"))
  /\ UNCHANGED <<statusLog, order, payments, counts, past>>

(***************************************************************************)
(* cancelOrder.                                                            *)
(***************************************************************************)
CancelOrder(h) ==
  /\ Free(h)
  /\ cancels < MaxCancels /\ asked + cancels < MaxRequests
  /\ cancels' = cancels + 1
  /\ IF Latest(order) = "cancelled" THEN UNCHANGED handlers
     ELSE Goto(h, [UpdateStatus("cancelled") EXCEPT !.seen = (task = "pending")])
  /\ UNCHANGED <<rows, asked, notices, past>>

\* Updated by id: the task may have been started since the request read it.
CancelTask(h) ==
  /\ Standing(h, "cancel_task")
  /\ task' = "cancelled"
  /\ Finish(h)
  /\ UNCHANGED <<statusLog, order, payments, counts, past>>

(***************************************************************************)
(* createPayment: the finance API names an invoice, a new one or one it    *)
(* already issued, which is saved with the order; then a payment link.     *)
(***************************************************************************)
CreatePayment(h) ==
  /\ Free(h)
  /\ asked < MaxPayments /\ asked + cancels < MaxRequests
  /\ asked' = asked + 1
  /\ \E i \in Invoices, m \in Methods :
       /\ order' = [order EXCEPT !.invoices = @ \cup {i}]
       /\ Goto(h, [Idle EXCEPT !.at = "payment_save", !.invoice = i, !.method = m])
  /\ UNCHANGED <<statusLog, task, payments, notices, cancels, past>>

SavePayment(h) ==
  /\ Standing(h, "payment_save")
  /\ payments' = Append(payments, [invoice |-> handlers[h].invoice,
                                   method  |-> handlers[h].method,
                                   received |-> FALSE, dropped |-> FALSE])
  /\ Finish(h)
  /\ UNCHANGED <<statusLog, order, task, counts, past>>

\* The finance API refuses the payment link: the invoice stays linked.
LinkRefused(h) ==
  /\ "finance" \in Faults
  /\ Standing(h, "payment_save")
  /\ Finish(h)
  /\ UNCHANGED <<rows, counts, past>>

(***************************************************************************)
(* receivePayment: the provider notifies that an invoice has been paid by  *)
(* some method, and may do so again.                                       *)
(***************************************************************************)
Receiving(h) == handlers[h].at \in {"find", "receive", "drop", "invoice_load", "complete"}

\* A notification comes; it overlaps another when one is still being handled.
Notified ==
  /\ notices < MaxNotices
  /\ notices' = notices + 1
  /\ overlapped' = (overlapped \/ \E k \in Slots : Receiving(k))

Notice(i, m) == [Idle EXCEPT !.at = "find", !.invoice = i, !.method = m]

\* Mutant: only the payments of the notified method are looked at.
ReceivePaymentByMethod(h, p) ==
  LET i == payments[p].invoice
      m == payments[p].method IN
  /\ Free(h)
  /\ Notified
  /\ IF \A q \in PaymentsOf(i) : payments[q].method = m => IsOpen(q)
     THEN Goto(h, Notice(i, m)) ELSE UNCHANGED handlers
  /\ UNCHANGED <<rows, asked, cancels, crashed, hurried>>

\* "payment has already been received"
ReceivePayment(h, p) ==
  /\ Free(h)
  /\ Notified
  /\ IF \A q \in PaymentsOf(payments[p].invoice) : IsOpen(q)
     THEN Goto(h, Notice(payments[p].invoice, payments[p].method))
     ELSE UNCHANGED handlers
  /\ UNCHANGED <<rows, asked, cancels, crashed, hurried>>

Candidates(h) == {p \in PaymentsOf(handlers[h].invoice) :
                    payments[p].method = handlers[h].method /\ IsOpen(p)}

\* Mutant: the other payments are dropped before this one is saved.
FindPaymentDropping(h) ==
  /\ Standing(h, "find")
  /\ Candidates(h) # {}
  /\ Goto(h, [handlers[h] EXCEPT !.at = "receive", !.payment = Max(Candidates(h))])
  /\ payments' = [p \in DOMAIN payments |->
                    IF p \in PaymentsOf(handlers[h].invoice) \ {Max(Candidates(h))}
                    THEN [payments[p] EXCEPT !.dropped = TRUE] ELSE payments[p]]
  /\ UNCHANGED <<statusLog, order, task, counts, past>>

\* The last open payment of that invoice and method; none, and a TypeError ends
\* the request.
FindPayment(h) ==
  /\ Standing(h, "find")
  /\ IF Candidates(h) = {} THEN Finish(h)
     ELSE Goto(h, [handlers[h] EXCEPT !.at = "receive", !.payment = Max(Candidates(h))])
  /\ UNCHANGED <<rows, counts, past>>

\* Mutant: the payment is changed in memory and not saved.
ReceiveUnsaved(h) ==
  /\ Standing(h, "receive")
  /\ Advance(h, "drop")
  /\ UNCHANGED <<rows, counts, past>>

\* The payment is saved as it was loaded, now received: also when another request
\* has dropped it since.
Receive(h) ==
  /\ Standing(h, "receive")
  /\ payments' = [payments EXCEPT ![handlers[h].payment].received = TRUE,
                                  ![handlers[h].payment].dropped = FALSE]
  /\ Advance(h, "drop")
  /\ UNCHANGED <<statusLog, order, task, counts, past>>

\* transaction_id is unique: the save throws when the notification repeats the
\* transaction that another payment of the invoice has been saved with.
ReceiveRepeated(h) ==
  /\ Standing(h, "receive")
  /\ \E p \in PaymentsOf(handlers[h].invoice) \ {handlers[h].payment} :
       payments[p].received /\ payments[p].method = handlers[h].method
  /\ Finish(h)
  /\ UNCHANGED <<rows, counts, past>>

\* Mutant: the payment just received is not excluded.
DropOthersAll(h) ==
  /\ Standing(h, "drop")
  /\ payments' = [p \in DOMAIN payments |->
                    IF p \in PaymentsOf(handlers[h].invoice)
                    THEN [payments[p] EXCEPT !.dropped = TRUE] ELSE payments[p]]
  /\ Advance(h, "invoice_load")
  /\ UNCHANGED <<statusLog, order, task, counts, past>>

DropOthers(h) ==
  /\ Standing(h, "drop")
  /\ payments' = [p \in DOMAIN payments |->
                    IF p \in PaymentsOf(handlers[h].invoice) /\ IsOpen(p)
                    THEN [payments[p] EXCEPT !.dropped = TRUE] ELSE payments[p]]
  /\ Advance(h, "invoice_load")
  /\ UNCHANGED <<statusLog, order, task, counts, past>>

\* `_payment.invoice.order.id`: a TypeError when a save has detached the invoice.
InvoiceLoad(h) ==
  /\ Standing(h, "invoice_load")
  /\ IF handlers[h].invoice \in order.invoices THEN Advance(h, "complete") ELSE Finish(h)
  /\ UNCHANGED <<rows, counts, past>>

\* updateOrderStatusAfterPayment inserts the row; its order is not saved.
Complete(h) ==
  /\ Standing(h, "complete")
  /\ statusLog' = Append(statusLog, "completed")
  /\ order' = [order EXCEPT !.statuses = @ \cup {Len(statusLog) + 1}]
  /\ Finish(h)
  /\ UNCHANGED <<task, payments, counts, past>>

\* The process ends, and every running request with it: Node does so for the
\* rejection of a commitTask that nobody awaits.  The rows remain.
Crash ==
  /\ "crash" \in Faults
  /\ ~crashed
  /\ crashed' = TRUE
  /\ handlers' = [h \in Slots |-> Idle]
  /\ UNCHANGED <<rows, counts, overlapped, hurried>>

(***************************************************************************)
(* The order has been accepted and its task created; a stale save may have *)
(* detached the accepted call.                                             *)
(***************************************************************************)
Init ==
  /\ statusLog = <<"accepted">>
  /\ order \in {[statuses |-> {1}, invoices |-> {}, call |-> kept] : kept \in BOOLEAN}
  /\ task = "pending"
  /\ payments = << >>
  /\ asked = 0
  /\ notices = 0
  /\ cancels = 0
  /\ crashed = FALSE
  /\ overlapped = FALSE
  /\ hurried = FALSE
  /\ handlers = [h \in Slots |-> Idle]

Resume(h) ==
  \/ StatusLoad(h) \/ StatusInsert(h) \/ StatusSave(h)
  \/ StartSave(h) \/ EndSave(h) \/ CancelTask(h) \/ SavePayment(h) \/ LinkRefused(h)
  \/ FindPayment(h) \/ Receive(h) \/ ReceiveRepeated(h) \/ DropOthers(h)
  \/ InvoiceLoad(h) \/ Complete(h)

Request(h) ==
  \/ StartTask(h) \/ EndTask(h) \/ CancelOrder(h) \/ CreatePayment(h)
  \/ \E p \in DOMAIN payments : ReceivePayment(h, p)

Next == Crash \/ \E h \in Slots : Resume(h) \/ Request(h)

Spec == Init /\ [][Next]_vars

(***************************************************************************)
(* Type invariant: rows and handlers have the shape the entities give them *)
(* and name no row that does not exist; the order always has a status.     *)
(***************************************************************************)
RowsOf(o) == o.statuses \subseteq DOMAIN statusLog

HandlerRows(s) ==
  /\ RowsOf(s.snap)
  /\ s.at = "status_save" => s.snap.statuses # {}
  /\ s.at \in {"payment_save", "find", "receive", "drop", "invoice_load", "complete"} =>
       s.invoice \in Invoices /\ s.method \in Methods
  /\ s.at = "receive" => s.payment \in PaymentsOf(s.invoice)

TypeOK ==
  /\ statusLog \in Seq(Statuses)
  /\ order \in OrderRow
  /\ RowsOf(order) /\ order.statuses # {}
  /\ task \in TaskStatuses
  /\ payments \in Seq(Payment)
  /\ asked \in 0..MaxPayments /\ notices \in 0..MaxNotices /\ cancels \in 0..MaxCancels
  /\ crashed \in BOOLEAN /\ overlapped \in BOOLEAN /\ hurried \in BOOLEAN
  /\ handlers \in [Slots -> Handler]
  /\ \A h \in Slots : HandlerRows(handlers[h])

(***************************************************************************)
(* Properties that hold.                                                   *)
(***************************************************************************)
\* However notifications overlap, no payment is both received and dropped, and none
\* is dropped unless one of its invoice has been received: a request that dies
\* between its saves leaves the customer a way to pay.
ReceivedNotDropped ==
  \A p \in DOMAIN payments : ~(payments[p].received /\ payments[p].dropped)

DroppedForAnother ==
  \A p \in DOMAIN payments : payments[p].dropped =>
     \E q \in PaymentsOf(payments[p].invoice) : payments[q].received

\* An order is recorded as completed only when one of its payments has been
\* received, whatever the order in which task, links and notifications come.
CompletedOnlyIfPaid ==
  (\E i \in DOMAIN statusLog : statusLog[i] = "completed") =>
     \E p \in DOMAIN payments : payments[p].received

\* Finished work that nobody has paid for has a payment_pending row, and once every
\* request is over the order reads payment_pending, so that placeOrder's test for an
\* unpaid order finds it, whatever the repeated start and end callbacks and payment
\* links have saved over each other.  Only an end that came while a start was still
\* being recorded may leave it reading on_going: the start's row is then the later
\* one, or its save has detached the other.
Quiet == \A h \in Slots : Free(h)

Paid == \E p \in DOMAIN payments : payments[p].received

UnpaidWorkReadsPending ==
  Quiet /\ task = "completed" /\ ~Paid /\ cancels = 0 /\ ~crashed =>
     /\ \E i \in DOMAIN statusLog : statusLog[i] = "payment_pending"
     /\ Latest(order) = "payment_pending" \/ (hurried /\ Latest(order) = "on_going")

\* As long as no two notifications overlap, the payments keep the promise of
\* InvoiceSettlement: repeated notifications, restarts between two saves and links
\* asked for in between never have an invoice paid twice or reopen a payment.
State(p) == IF payments[p].received THEN "received"
            ELSE IF payments[p].dropped THEN "dropped" ELSE "open"

Ledger == [p \in DOMAIN payments |-> [invoice |-> payments[p].invoice, state |-> State(p)]]

Book == INSTANCE InvoiceSettlement WITH book <- Ledger

KeepsTheBook == Book!Init /\ [][~overlapped' => [Book!Next]_Ledger]_vars

(***************************************************************************)
(* Statements of the code's messages that it does not keep.                *)
(***************************************************************************)
\* "payment has already been received": a second one is refused.
AtMostOneReceived ==
  \A p, q \in DOMAIN payments :
     payments[p].received /\ payments[q].received
       /\ payments[p].invoice = payments[q].invoice => p = q

\* "You have an unpaid order": an order with a payment received is not one.
PaidNotPending == Quiet /\ Paid /\ ~crashed => Latest(order) # "payment_pending"
=============================================================================
