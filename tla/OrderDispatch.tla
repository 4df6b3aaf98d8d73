--------------------------- MODULE OrderDispatch ---------------------------
(***************************************************************************)
(* The search for a worker for ONE placed order: the Bull jobs             *)
(* searchWorker, callWorker and discardCheck (orders.processor.ts), the    *)
(* IVR callbacks accept, reject and receive (ivr.service.ts), the          *)
(* customer's cancellation and updateOrderStatus (orders.service.ts).      *)
(*                                                                         *)
(* Every handler runs interleaved with every other one at each `await`;    *)
(* a step of this module is the code between two awaits that touch shared  *)
(* state.  A handler works on the snapshot of the order that getOrderById  *)
(* gave it, and save(order) writes that snapshot back as a whole.          *)
(***************************************************************************)
EXTENDS Naturals, Sequences, FiniteSets, FiniteSetsExt

CONSTANTS Workers,     \* the workers of the order's microarea
          NoWorker,    \* no worker yet in a handler's local variable
          MaxRetry,    \* env MAX_RETRY_PER_WORKER
          Package,     \* which first task and follow-up calls the package asks for
          Slots,       \* handlers that may run at the same time (bound)
          MaxAnswers,  \* calls the workers pick up (bound)
          MaxCancels,  \* cancellation requests of the customer (bound)
          Faults       \* external services that may fail: a subset of {"ivr", "fcm"}

ASSUME WorkersAssumption == IsFiniteSet(Workers) /\ NoWorker \notin Workers
ASSUME RetryAssumption   == MaxRetry \in Nat
ASSUME PackageAssumption == Package \in {"plain", "trial", "instant"}
ASSUME FaultsAssumption  == Faults \subseteq {"ivr", "fcm"}
ASSUME BoundsAssumption  == IsFiniteSet(Slots) /\ MaxAnswers \in Nat /\ MaxCancels \in Nat

VARIABLES
  statusLog,      \* every order_status row, in order of createdAt: its status
  calls,          \* every ivr_placed_calls row: the worker called, and the phone line
  responses,      \* per worker, every ivr_call_responses row in order of createdAt
  orderWorkers,   \* every order_worker row: the worker assigned
  tasks,          \* every task row: its status
  order,          \* the order row: the rows its relations hold now, its searchCursor
  jobs,           \* the Bull queue 'orders'
  pendingUpdates, \* updateOrderStatus(accepted) calls started without await
  cancels,        \* cancellation requests received
  notices,        \* what the customer's phone was notified of: "served", "unserved"
  ends,           \* how often the process has ended and been started again
  handlers        \* the running handlers: where each is, and what it holds

db   == <<statusLog, calls, responses, orderWorkers, tasks, order>>
rest == <<pendingUpdates, cancels, notices, ends>>
vars == <<db, jobs, rest, handlers>>

Statuses  == {"placed", "searching", "accepted", "failed", "cancelled"}
Flags     == {"connecting", "connected", "accepted", "rejected", "not_reachable"}
Lines     == {"ringing", "talking", "closed"}
FollowUps == {"confirmation", "reminder", "eta50"}

\* What getOrderById returns, and what save(order) writes: the ids of the rows
\* each loaded relation holds, the workers found by the search, the cursor.
OrderRow == [statuses  : SUBSET Nat, calls : SUBSET Nat, workers : SUBSET Nat,
             tasks     : SUBSET Nat, potential : Seq(Workers), cursor : Nat]

NoOrder == [statuses |-> {}, calls |-> {}, workers |-> {}, tasks |-> {},
            potential |-> << >>, cursor |-> 0]

\* A handler: the await it stands at, its snapshot of the order, and its locals.
Handler == [at : {"idle", "status_load", "status_insert", "cancel_call", "status_save",
                  "search", "search_save", "next_load", "next_calls", "next_skip",
                  "next_take", "place", "verdict", "assign",
                  "task1", "task2", "task3", "respond", "follow_up", "cancel_tasks"},
            snap : OrderRow, status : Statuses, call : Nat, worker : Workers \cup {NoWorker},
            flag : Flags, tasks : SUBSET Nat, told : SUBSET Workers]

Idle == [at |-> "idle", snap |-> NoOrder, status |-> "placed", call |-> 0, worker |-> NoWorker,
         flag |-> "connecting", tasks |-> {}, told |-> {}]

(***************************************************************************)
(* Reading the order.                                                      *)
(***************************************************************************)
\* orderStatuses[0] under ORDER BY createdAt DESC.
Latest(o) == statusLog[Max(o.statuses)]

Cancelled(o) == Latest(o) = "cancelled"

\* orderStatuses.some(s => s.status === st)
Ever(o, st) == \E s \in o.statuses : statusLog[s] = st

\* The rows of a worker's response log that belong to one call.
ResponsesOf(c) == {i \in DOMAIN responses[calls[c].worker] :
                     responses[calls[c].worker][i].call = c}

HasFlag(c, flag) == \E i \in ResponsesOf(c) : responses[calls[c].worker][i].flag = flag

\* The worker of each loaded call that carries a worker_accepted response.
AcceptedBy(o) == {calls[c].worker : c \in {d \in o.calls : HasFlag(d, "accepted")}}

(***************************************************************************)
(* save(order): TypeORM makes the database equal to the snapshot.  A row   *)
(* inserted into a loaded relation since the snapshot was taken loses its  *)
(* foreign key; order_worker.orderId is NOT NULL, so there the save fails. *)
(***************************************************************************)
CanSave(snap) == order.workers \subseteq snap.workers

Save(snap) == order' = snap

(***************************************************************************)
(* Handlers.                                                               *)
(***************************************************************************)
Free(h)        == handlers[h].at = "idle"
Standing(h, a) == handlers[h].at = a
Goto(h, state) == handlers' = [handlers EXCEPT ![h] = state]
Finish(h)      == Goto(h, Idle)
Advance(h, a)  == handlers' = [handlers EXCEPT ![h].at = a]

\* updateIvrCallResponse: retryCount grows from the call's latest response, and
\* only for the two flags that count; it starts from 1 otherwise.
RetryCount(c, flag) ==
  IF flag \in {"rejected", "not_reachable"} /\ ResponsesOf(c) # {}
  THEN responses[calls[c].worker][Max(ResponsesOf(c))].retry + 1
  ELSE 1

Respond(c, flag) ==
  responses' = [responses EXCEPT ![calls[c].worker] =
                  Append(@, [call |-> c, flag |-> flag, retry |-> RetryCount(c, flag)])]

\* A notification to the customer's phone; when Firebase fails the handler throws.
Notify(n) == notices' \in {notices \cup {n}} \cup {notices : f \in Faults \cap {"fcm"}}

\* A handler that has loaded the order and is about to insert a status row.
Loaded(st, pending) ==
  [Idle EXCEPT !.at = "status_insert", !.snap = order, !.status = st, !.tasks = pending,
               !.told = IF st = "cancelled" THEN AcceptedBy(order) ELSE {}]

(***************************************************************************)
(* updateOrderStatus(orderId, status): load, insert the status row, for a  *)
(* cancellation call the worker who accepted, save the snapshot.           *)
(***************************************************************************)
StatusLoad(h) ==
  /\ Standing(h, "status_load")
  /\ Goto(h, Loaded(handlers[h].status, handlers[h].tasks))
  /\ UNCHANGED <<db, jobs, rest>>

\* Mutant: the new row is pushed onto the order without being saved.
StatusInsertUnsaved(h) ==
  LET row == Len(statusLog) + 1 IN
  /\ Standing(h, "status_insert")
  /\ Goto(h, [handlers[h] EXCEPT
                !.snap.statuses = @ \cup {row},
                !.at = IF handlers[h].told = {} THEN "status_save" ELSE "cancel_call"])
  /\ UNCHANGED <<db, jobs, rest>>

StatusInsert(h) ==
  LET row == Len(statusLog) + 1 IN
  /\ Standing(h, "status_insert")
  /\ statusLog' = Append(statusLog, handlers[h].status)
  /\ order' = [order EXCEPT !.statuses = @ \cup {row}]
  /\ Goto(h, [handlers[h] EXCEPT
                !.snap.statuses = @ \cup {row},
                !.at = IF handlers[h].told = {} THEN "status_save" ELSE "cancel_call"])
  /\ UNCHANGED <<calls, responses, orderWorkers, tasks, jobs, rest>>

\* The ORDER_CANCEL_CALL is placed and answered with "connecting"; then
\* updateIvrCallResponse reads `.worker` of the gateway's answer, which has
\* none, and the TypeError ends the request: the snapshot is not saved and the
\* caller never reaches its own cleanup.
CancelCall(h) ==
  LET c == Len(calls) + 1 IN
  /\ Standing(h, "cancel_call")
  /\ \/ \E w \in handlers[h].told :
          /\ calls' = Append(calls, [worker |-> w, line |-> "closed"])
          /\ order' = [order EXCEPT !.calls = @ \cup {c}]
          /\ responses' = [responses EXCEPT ![w] =
                             Append(@, [call |-> c, flag |-> "connecting", retry |-> 1])]
     \/ "ivr" \in Faults /\ UNCHANGED <<calls, order, responses>>
  /\ Finish(h)
  /\ UNCHANGED <<statusLog, orderWorkers, tasks, jobs, rest>>

\* What the caller of updateOrderStatus does next; a failed search notifies the
\* customer, the acceptance nobody awaits has nothing left to do.
AfterStatus(st) ==
  CASE st = "searching" -> "search"
    [] st = "cancelled" -> "cancel_tasks"
    [] OTHER            -> "idle"

StatusSave(h) ==
  LET st   == handlers[h].status
      next == AfterStatus(st) IN
  /\ Standing(h, "status_save")
  /\ \/ /\ CanSave(handlers[h].snap)
        /\ Save(handlers[h].snap)
        /\ Goto(h, [Idle EXCEPT !.at = next,
                      !.tasks = IF next = "idle" THEN {} ELSE handlers[h].tasks])
        /\ IF st = "failed" THEN Notify("unserved") ELSE UNCHANGED notices
     \/ /\ ~CanSave(handlers[h].snap)
        /\ st # "accepted"
        /\ Finish(h)
        /\ UNCHANGED <<order, notices>>
  /\ UNCHANGED <<statusLog, calls, responses, orderWorkers, tasks, jobs,
                 pendingUpdates, cancels, ends>>

\* The job a handler runs; only a callWorker job can be recording a failure when
\* the process ends, for searchWorker is over before anybody is called.
UpdatesTo(h, st) ==
  handlers[h].status = st /\ handlers[h].at \in {"status_load", "status_insert", "status_save"}

RunsSearch(h) == UpdatesTo(h, "searching") \/ handlers[h].at \in {"search", "search_save"}

RunsCall(h) ==
  \/ UpdatesTo(h, "failed")
  \/ handlers[h].at \in {"next_load", "next_calls", "next_skip", "next_take", "place"}

RunsCheck(h) == Standing(h, "verdict")

\* Nobody catches what updateOrderStatus(accepted) throws: its failed save ends the
\* process.  Every handler and every update not yet begun is lost; the jobs that were
\* running stall and are handed out again, but for one that has stalled before.
ProcessEnd(h) ==
  LET running == {k \in Slots : RunsSearch(k) \/ RunsCall(k) \/ RunsCheck(k)} IN
  /\ Standing(h, "status_save")
  /\ handlers[h].status = "accepted"
  /\ ~CanSave(handlers[h].snap)
  /\ handlers' = [k \in Slots |-> Idle]
  /\ pendingUpdates' = 0
  /\ ends' = ends + 1
  /\ \E back \in SUBSET running :
       /\ ends = 0 => back = running
       /\ jobs' = [jobs EXCEPT
                     !.search  = @ \/ \E k \in back : RunsSearch(k),
                     !.call    = @ + Cardinality({k \in back : RunsCall(k)}),
                     !.discard = @ \cup {handlers[k].call : k \in {j \in back : RunsCheck(j)}}]
  /\ UNCHANGED <<db, cancels, notices>>

(***************************************************************************)
(* Job searchWorker.                                                       *)
(***************************************************************************)
Stopped(o) == Latest(o) \in {"cancelled", "failed"}

SearchWorker(h) ==
  /\ Free(h)
  /\ jobs.search
  /\ jobs' = [jobs EXCEPT !.search = FALSE]
  /\ IF Stopped(order) THEN UNCHANGED handlers
     ELSE Goto(h, [Idle EXCEPT !.at = "status_load", !.status = "searching"])
  /\ UNCHANGED <<db, rest>>

\* The lists of workers a search may come to: no worker twice.
WorkerLists ==
  {s \in UNION {[1..n -> Workers] : n \in 0..Cardinality(Workers)} :
     \A i, j \in DOMAIN s : s[i] = s[j] => i = j}

\* getFreeWorkers and the workers' time preferences decide who is willing.
FindWilling(h) ==
  /\ Standing(h, "search")
  /\ \E willing \in WorkerLists :
       Goto(h, IF willing = << >>
               THEN [Idle EXCEPT !.at = "status_load", !.status = "failed"]
               ELSE [Idle EXCEPT !.at = "search_save",
                                 !.snap = [order EXCEPT !.potential = willing]])
  /\ UNCHANGED <<db, jobs, rest>>

\* `delete order.orderStatuses` keeps the status rows out of this save.
SearchSave(h) ==
  LET snap == [handlers[h].snap EXCEPT !.statuses = order.statuses] IN
  /\ Standing(h, "search_save")
  /\ IF CanSave(snap)
     THEN Save(snap) /\ jobs' = [jobs EXCEPT !.call = @ + 1]
     ELSE UNCHANGED <<order, jobs>>
  /\ Finish(h)
  /\ UNCHANGED <<statusLog, calls, responses, orderWorkers, tasks, rest>>

(***************************************************************************)
(* Job callWorker: getNextWorkerToCall, then placeIVRCall.                 *)
(***************************************************************************)
\* Mutant: a redelivered callWorker job runs although none is queued.
CallWorkerRedelivered(h) ==
  /\ Free(h)
  /\ jobs' = [jobs EXCEPT !.call = @ - 1]
  /\ IF Stopped(order) THEN UNCHANGED handlers
     ELSE Goto(h, [Idle EXCEPT !.at = "next_load"])
  /\ UNCHANGED <<db, rest>>

CallWorker(h) ==
  /\ Free(h)
  /\ jobs.call > 0
  /\ jobs' = [jobs EXCEPT !.call = @ - 1]
  /\ IF Stopped(order) THEN UNCHANGED handlers
     ELSE Goto(h, [Idle EXCEPT !.at = "next_load"])
  /\ UNCHANGED <<db, rest>>

\* Mutant: one round too many.
ExhaustedLate(o) == o.cursor > (MaxRetry + 1) * Len(o.potential)

\* Mutant: the number of workers is forgotten.
ExhaustedEarly(o) == o.cursor >= MaxRetry

Exhausted(o) == o.cursor > MaxRetry * Len(o.potential)

\* Mutant: an exhausted search is taken for one already recorded as failed.
NobodyLeftUnrecorded(o) == Ever(o, "accepted") \/ Exhausted(o)

\* getNextWorkerToCall answers null without changing anything.
NobodyLeft(o) == Ever(o, "accepted") \/ (Exhausted(o) /\ Ever(o, "failed"))

\* On an empty list of workers `potentialWorkers[NaN].id` throws.
NextLoad(h) ==
  /\ Standing(h, "next_load")
  /\ IF NobodyLeft(order) THEN Finish(h) /\ Notify("unserved")
     ELSE /\ Goto(h, IF Exhausted(order)
                     THEN [Idle EXCEPT !.at = "status_load", !.status = "failed"]
                     ELSE IF order.potential = << >> THEN Idle
                     ELSE [Idle EXCEPT !.at = "next_calls", !.snap = order,
                             !.worker = order.potential[(order.cursor % Len(order.potential)) + 1]])
          /\ UNCHANGED notices
  /\ UNCHANGED <<db, jobs, pendingUpdates, cancels, ends>>

\* calls[0].responses[0]: the latest response of the worker to this order's calls.
ResponsesHere(w) == {i \in DOMAIN responses[w] : responses[w][i].call \in order.calls}

Declined(w) ==
  /\ ResponsesHere(w) # {}
  /\ LET last == responses[w][Max(ResponsesHere(w))] IN
       last.retry > MaxRetry \/ last.flag = "rejected"

NextCalls(h) ==
  /\ Standing(h, "next_calls")
  /\ Advance(h, IF Declined(handlers[h].worker) THEN "next_skip" ELSE "next_take")
  /\ UNCHANGED <<db, jobs, rest>>

\* Mutant: the cursor is not part of what is saved.
NextSaveWithoutCursor(h) ==
  LET snap == handlers[h].snap IN
  /\ Standing(h, "next_skip") \/ Standing(h, "next_take")
  /\ CanSave(snap)
  /\ Save(snap)
  /\ Goto(h, IF Standing(h, "next_skip") THEN [Idle EXCEPT !.at = "next_load"]
             ELSE [Idle EXCEPT !.at = "place", !.worker = handlers[h].worker])
  /\ UNCHANGED <<statusLog, calls, responses, orderWorkers, tasks, jobs, rest>>

\* searchCursor++ and save; a save that fails in the skipping branch is caught,
\* tried once more after it with the same snapshot, and fails again.
NextSave(h) ==
  LET snap == [handlers[h].snap EXCEPT !.cursor = @ + 1] IN
  /\ Standing(h, "next_skip") \/ Standing(h, "next_take")
  /\ \/ /\ CanSave(snap)
        /\ Save(snap)
        /\ Goto(h, IF Standing(h, "next_skip") THEN [Idle EXCEPT !.at = "next_load"]
                   ELSE [Idle EXCEPT !.at = "place", !.worker = handlers[h].worker])
     \/ /\ ~CanSave(snap)
        /\ Finish(h)
        /\ UNCHANGED order
  /\ UNCHANGED <<statusLog, calls, responses, orderWorkers, tasks, jobs, rest>>

\* The gateway takes the ORDER_PROPOSAL_CALL, the call row and its first response
\* are inserted and the discard check is queued; when the gateway fails the job
\* dies with the cursor already moved.
PlaceCall(h) ==
  LET c == Len(calls) + 1
      w == handlers[h].worker IN
  /\ Standing(h, "place")
  /\ \/ /\ calls' = Append(calls, [worker |-> w, line |-> "ringing"])
        /\ order' = [order EXCEPT !.calls = @ \cup {c}]
        /\ responses' = [responses EXCEPT ![w] =
                           Append(@, [call |-> c, flag |-> "connecting", retry |-> 1])]
        /\ jobs' = [jobs EXCEPT !.discard = @ \cup {c}]
     \/ "ivr" \in Faults /\ UNCHANGED <<calls, order, responses, jobs>>
  /\ Finish(h)
  /\ UNCHANGED <<statusLog, orderWorkers, tasks, rest>>

(***************************************************************************)
(* Job discardCheck.  A call whose order link was lost makes               *)
(* `call.order.id` throw, and the job dies.                                *)
(***************************************************************************)
\* Mutant: an answered call is taken for a settled one.
DiscardCheckTrusting(h, c) ==
  /\ Free(h)
  /\ c \in jobs.discard
  /\ jobs' = [jobs EXCEPT !.discard = @ \ {c}]
  /\ IF c \notin order.calls \/ Cancelled(order) \/ HasFlag(c, "connected")
     THEN UNCHANGED handlers
     ELSE Goto(h, [Idle EXCEPT !.at = "verdict", !.call = c, !.flag = "not_reachable"])
  /\ UNCHANGED <<db, rest>>

DiscardCheck(h, c) ==
  /\ Free(h)
  /\ c \in jobs.discard
  /\ jobs' = [jobs EXCEPT !.discard = @ \ {c}]
  /\ IF c \notin order.calls \/ Cancelled(order)
        \/ (HasFlag(c, "connected") /\ HasFlag(c, "accepted"))
     THEN UNCHANGED handlers
     ELSE Goto(h, [Idle EXCEPT !.at = "verdict", !.call = c,
                     !.flag = IF HasFlag(c, "connected") THEN "rejected"
                              ELSE "not_reachable"])
  /\ UNCHANGED <<db, rest>>

Verdict(h) ==
  /\ Standing(h, "verdict")
  /\ Respond(handlers[h].call, handlers[h].flag)
  /\ jobs' = [jobs EXCEPT !.call = @ + 1]
  /\ Finish(h)
  /\ UNCHANGED <<statusLog, calls, orderWorkers, tasks, order, rest>>

(***************************************************************************)
(* The worker on the phone: she may pick up, and once she has she may      *)
(* press one key; or never answer.                                         *)
(***************************************************************************)
ReceiveCall(c) ==
  /\ calls[c].line = "ringing"
  /\ Cardinality({d \in DOMAIN calls : HasFlag(d, "connected")}) < MaxAnswers
  /\ calls' = [calls EXCEPT ![c].line = "talking"]
  /\ Respond(c, "connected")
  /\ UNCHANGED <<statusLog, orderWorkers, tasks, order, jobs, rest, handlers>>

\* rejectOrder; without its order link the call makes the callback throw.
RejectOrder(c) ==
  /\ calls[c].line = "talking"
  /\ calls' = [calls EXCEPT ![c].line = "closed"]
  /\ IF c \in order.calls
     THEN Respond(c, "rejected") /\ jobs' = [jobs EXCEPT !.call = @ + 1]
     ELSE UNCHANGED <<responses, jobs>>
  /\ UNCHANGED <<statusLog, orderWorkers, tasks, order, rest, handlers>>

\* Mutant: a refused acceptance asks for the next worker, as a rejection does.
AcceptOrderRescheduling(h, c) ==
  /\ Free(h)
  /\ calls[c].line = "talking"
  /\ calls' = [calls EXCEPT ![c].line = "closed"]
  /\ IF Latest(order) \in {"cancelled", "accepted"}
     THEN UNCHANGED handlers /\ jobs' = [jobs EXCEPT !.call = @ + 1]
     ELSE Goto(h, [Idle EXCEPT !.at = "assign", !.call = c]) /\ UNCHANGED jobs
  /\ UNCHANGED <<statusLog, responses, orderWorkers, tasks, order, rest>>

\* acceptOrder up to the notification it awaits: refused on a cancelled order
\* and on one already accepted.
AcceptOrder(h, c) ==
  /\ Free(h)
  /\ calls[c].line = "talking"
  /\ calls' = [calls EXCEPT ![c].line = "closed"]
  /\ IF Latest(order) \in {"cancelled", "accepted"} THEN UNCHANGED handlers
     ELSE Goto(h, [Idle EXCEPT !.at = "assign", !.call = c])
  /\ UNCHANGED <<statusLog, responses, orderWorkers, tasks, order, jobs, rest>>

\* The notification is sent (or throws), the worker is assigned, and the status
\* update is started and not awaited.
Assign(h) ==
  LET row == Len(orderWorkers) + 1 IN
  /\ Standing(h, "assign")
  /\ \/ /\ notices' = notices \cup {"served"}
        /\ orderWorkers' = Append(orderWorkers, calls[handlers[h].call].worker)
        /\ order' = [order EXCEPT !.workers = @ \cup {row}]
        /\ pendingUpdates' = pendingUpdates + 1
        /\ Advance(h, IF Package = "plain" THEN "respond" ELSE "task1")
     \/ /\ "fcm" \in Faults
        /\ Finish(h)
        /\ UNCHANGED <<notices, orderWorkers, order, pendingUpdates>>
  /\ UNCHANGED <<statusLog, calls, responses, tasks, jobs, cancels, ends>>

\* Mutant: the started update is run but stays on the list.
AcceptedUpdateTwice(h) ==
  /\ Free(h)
  /\ pendingUpdates > 0
  /\ Goto(h, Loaded("accepted", {}))
  /\ UNCHANGED <<db, jobs, rest>>

\* The un-awaited updateOrderStatus(accepted) loads the order.
AcceptedUpdate(h) ==
  /\ Free(h)
  /\ pendingUpdates > 0
  /\ pendingUpdates' = pendingUpdates - 1
  /\ Goto(h, Loaded("accepted", {}))
  /\ UNCHANGED <<db, jobs, cancels, notices, ends>>

\* The first task is saved three times: the first save inserts it, the later
\* ones write its status and its order link again.
CreateTask(h) ==
  LET row == Len(tasks) + 1 IN
  /\ Standing(h, "task1")
  /\ tasks' = Append(tasks, "pending")
  /\ order' = [order EXCEPT !.tasks = @ \cup {row}]
  /\ Goto(h, [handlers[h] EXCEPT !.at = "task2", !.tasks = {row}])
  /\ UNCHANGED <<statusLog, calls, responses, orderWorkers, jobs, rest>>

\* Mutant: the entity has no id yet, so saving it again inserts it again.
SaveTaskInserting(h) ==
  /\ Standing(h, "task2") \/ Standing(h, "task3")
  /\ tasks' = Append(tasks, "pending")
  /\ order' = [order EXCEPT !.tasks = @ \cup {Len(tasks) + 1}]
  /\ IF Standing(h, "task2") THEN Advance(h, "task3")
     ELSE Goto(h, [Idle EXCEPT !.at = "respond", !.call = handlers[h].call])
  /\ UNCHANGED <<statusLog, calls, responses, orderWorkers, jobs, rest>>

SaveTaskAgain(h) ==
  /\ Standing(h, "task2") \/ Standing(h, "task3")
  /\ tasks' = [t \in DOMAIN tasks |-> IF t \in handlers[h].tasks THEN "pending" ELSE tasks[t]]
  /\ order' = [order EXCEPT !.tasks = @ \cup handlers[h].tasks]
  /\ IF Standing(h, "task2") THEN Advance(h, "task3") /\ UNCHANGED jobs
     ELSE /\ Goto(h, [Idle EXCEPT !.at = "respond", !.call = handlers[h].call])
          /\ IF Package = "instant"
             THEN jobs' = [jobs EXCEPT !.followUps = @ \cup {"confirmation"}]
             ELSE UNCHANGED jobs
  /\ UNCHANGED <<statusLog, calls, responses, orderWorkers, rest>>

\* Mutant: the follow-up is scheduled before the acceptance is on record.
RespondAcceptedLate(h) ==
  /\ Standing(h, "respond")
  /\ UNCHANGED responses
  /\ IF Package = "plain" THEN Finish(h) ELSE Goto(h, [Idle EXCEPT !.at = "follow_up"])
  /\ UNCHANGED <<statusLog, calls, orderWorkers, tasks, order, jobs, rest>>

RespondAccepted(h) ==
  /\ Standing(h, "respond")
  /\ Respond(handlers[h].call, "accepted")
  /\ IF Package = "plain" THEN Finish(h) ELSE Goto(h, [Idle EXCEPT !.at = "follow_up"])
  /\ UNCHANGED <<statusLog, calls, orderWorkers, tasks, order, jobs, rest>>

\* callWorkerReminder and taskWorkerTrackingETA50Passed take the ETA from an
\* accepted call of the order, and throw when the order holds none.
FollowUp(h) ==
  /\ Standing(h, "follow_up")
  /\ IF AcceptedBy(order) = {} THEN UNCHANGED jobs
     ELSE jobs' = [jobs EXCEPT !.followUps =
                     @ \cup {IF Package = "trial" THEN "reminder" ELSE "eta50"}]
  /\ Finish(h)
  /\ UNCHANGED <<db, rest>>

(***************************************************************************)
(* cancelOrder: the customer cancels; the tasks to cancel are the ones     *)
(* pending in the snapshot the request began with.                         *)
(***************************************************************************)
CancelOrder(h) ==
  /\ Free(h)
  /\ cancels < MaxCancels
  /\ cancels' = cancels + 1
  /\ IF Cancelled(order) THEN UNCHANGED handlers
     ELSE Goto(h, [Idle EXCEPT !.at = "status_load", !.status = "cancelled",
                     !.tasks = {t \in order.tasks : tasks[t] = "pending"}])
  /\ UNCHANGED <<db, jobs, pendingUpdates, notices, ends>>

CancelTasks(h) ==
  /\ Standing(h, "cancel_tasks")
  /\ tasks' = [t \in DOMAIN tasks |-> IF t \in handlers[h].tasks THEN "cancelled" ELSE tasks[t]]
  /\ Finish(h)
  /\ UNCHANGED <<statusLog, calls, responses, orderWorkers, order, jobs, rest>>

(***************************************************************************)
(* The order has been placed, the workers free at that moment saved with   *)
(* it, and its searchWorker job queued.                                    *)
(***************************************************************************)
Init ==
  /\ statusLog = <<"placed">>
  /\ calls = << >>
  /\ responses = [w \in Workers |-> << >>]
  /\ orderWorkers = << >>
  /\ tasks = << >>
  /\ order \in {[NoOrder EXCEPT !.statuses = {1}, !.potential = free] : free \in WorkerLists}
  /\ jobs = [search |-> TRUE, call |-> 0, discard |-> {}, followUps |-> {}]
  /\ pendingUpdates = 0
  /\ cancels = 0
  /\ notices = {}
  /\ ends = 0
  /\ handlers = [h \in Slots |-> Idle]

\* A running handler goes on from the await it stands at.
Resume(h) ==
  \/ StatusLoad(h) \/ StatusInsert(h) \/ CancelCall(h) \/ StatusSave(h) \/ ProcessEnd(h)
  \/ FindWilling(h) \/ SearchSave(h)
  \/ NextLoad(h) \/ NextCalls(h) \/ NextSave(h) \/ PlaceCall(h)
  \/ Verdict(h)
  \/ Assign(h) \/ CreateTask(h) \/ SaveTaskAgain(h) \/ RespondAccepted(h) \/ FollowUp(h)
  \/ CancelTasks(h)

\* Bull takes a job, or the event loop an update nobody awaits.
StartJob(h) ==
  \/ SearchWorker(h) \/ CallWorker(h) \/ AcceptedUpdate(h)
  \/ \E c \in jobs.discard : DiscardCheck(h, c)

\* What people do: nothing obliges them to.
People ==
  \/ \E c \in DOMAIN calls : ReceiveCall(c) \/ RejectOrder(c)
  \/ \E h \in Slots : CancelOrder(h) \/ \E c \in DOMAIN calls : AcceptOrder(h, c)

System == \E h \in Slots : Resume(h) \/ StartJob(h)

Next == System \/ People

Spec == Init /\ [][Next]_vars

\* Bull hands out every due job and Node resumes every settled promise; nothing
\* is assumed of the people on the phone or of the customer.
FairSpec == Spec /\ WF_vars(System)

(***************************************************************************)
(* Type invariant: every row, job and handler is of the shape the entities *)
(* and handlers give it; the counters of queued work never go below zero.  *)
(***************************************************************************)
TypeOK ==
  /\ statusLog \in Seq(Statuses)
  /\ calls \in Seq([worker : Workers, line : Lines])
  /\ responses \in [Workers -> Seq([call : Nat, flag : Flags, retry : Nat])]
  /\ orderWorkers \in Seq(Workers)
  /\ tasks \in Seq({"pending", "cancelled"})
  /\ order \in OrderRow
  /\ jobs \in [search : BOOLEAN, call : Nat, discard : SUBSET Nat, followUps : SUBSET FollowUps]
  /\ pendingUpdates \in Nat
  /\ cancels \in 0..MaxCancels
  /\ notices \in SUBSET {"served", "unserved"}
  /\ ends \in Nat
  /\ handlers \in [Slots -> Handler]

(***************************************************************************)
(* Properties that hold.                                                   *)
(***************************************************************************)
\* Rows are detached and linked again by stale saves, but no order, snapshot, job
\* or handler ever names a row that does not exist, and the order always has a
\* status: orderStatuses[0] is never undefined.
RowsOf(o) ==
  /\ o.statuses \subseteq DOMAIN statusLog
  /\ o.calls \subseteq DOMAIN calls
  /\ o.workers \subseteq DOMAIN orderWorkers
  /\ o.tasks \subseteq DOMAIN tasks

HandlerRows(s) ==
  /\ RowsOf(s.snap)
  /\ s.tasks \subseteq DOMAIN tasks
  /\ s.at \in {"verdict", "assign", "task1", "task2", "task3", "respond"} =>
       s.call \in DOMAIN calls
  /\ s.at \in {"next_calls", "next_skip", "next_take", "place"} => s.worker \in Workers
  /\ s.at \in {"status_save", "next_calls", "next_skip", "next_take"} => s.snap.statuses # {}

RowsExist ==
  /\ RowsOf(order)
  /\ order.statuses # {}
  /\ jobs.discard \subseteq DOMAIN calls
  /\ \A h \in Slots : HandlerRows(handlers[h])

\* However the snapshots of overlapping handlers overwrite each other, the saved
\* searchCursor never passes the retry budget of all the workers by more than one.
CursorBounded == order.cursor <= MaxRetry * Cardinality(Workers) + 1

\* Every worker assigned by acceptOrder has exactly one `accepted` status row, or
\* one still on its way in the un-awaited update: no acceptance without a worker and
\* none recorded twice.  Only a second acceptance forgets one, when its failed save
\* ends the process; the order has, or will have, the row of another even then.
Recording == {h \in Slots : Standing(h, "status_insert") /\ handlers[h].status = "accepted"}

AcceptanceRows == {i \in DOMAIN statusLog : statusLog[i] = "accepted"}

AcceptancesAccounted ==
  LET accounted == Cardinality(AcceptanceRows) + pendingUpdates + Cardinality(Recording) IN
  /\ accounted <= Len(orderWorkers)
  /\ orderWorkers # << >> => accounted > 0
  /\ ends > 0 => Len(orderWorkers) > 1
  /\ ends = 0 => accounted = Len(orderWorkers)

\* An order that still reads `searching` has something left that will move it on:
\* a job, an update under way or a running handler.  (Not after a process end: a stale
\* save may have left an accepted order reading `searching`, with nothing to run.)
SearchAlive ==
  ends = 0 /\ Latest(order) = "searching" =>
     \/ jobs.search \/ jobs.call > 0 \/ jobs.discard # {} \/ pendingUpdates > 0
     \/ \E h \in Slots : ~Free(h)

\* The chains of calls going on for the order: jobs and handlers each of which may
\* lead to one more proposal call.  Only a worker pressing reject adds one to the
\* first, since the discard check of her call goes on as well; a process end, which
\* hands the running jobs out again, adds none.
Searching(h) ==
  \/ handlers[h].at \in {"search", "search_save", "next_load", "next_calls", "next_skip",
                         "next_take", "place", "verdict"}
  \/ /\ handlers[h].at \in {"status_load", "status_insert", "status_save"}
     /\ handlers[h].status \in {"searching", "failed"}

Chains ==
  (IF jobs.search THEN 1 ELSE 0) + jobs.call + Cardinality(jobs.discard)
    + Cardinality({h \in Slots : Searching(h)})

ChainsBounded ==
  Chains <= 1 + Cardinality({c \in DOMAIN calls :
                               calls[c].line = "closed" /\ HasFlag(c, "rejected")})

\* An order nobody cancelled is recorded as failed either before any call, when nobody
\* is willing, or after every worker the search found has been called, or is about to
\* be.  (A cancellation puts back the list of workers it loaded; a process end loses the
\* worker a handler was about to call, with the cursor past her.)
ProposalsTo(w) == Cardinality({c \in DOMAIN calls : calls[c].worker = w})

FailedAfterRingingAll ==
  /\ cancels = 0 /\ ends = 0 /\ calls # << >>
  /\ \E i \in DOMAIN statusLog : statusLog[i] = "failed"
  =>
     \A k \in DOMAIN order.potential :
        LET w == order.potential[k] IN
        ProposalsTo(w) > 0 \/ \E h \in Slots : handlers[h].worker = w

\* The three saves of the first task (the TypeORM workaround in acceptOrder) make
\* one task row per assigned worker, also when a cancellation comes between them: never
\* two, and none is missing unless the process ended before the first save.
OneTaskPerAssignment ==
  LET given == Len(tasks) + Cardinality({h \in Slots : Standing(h, "task1")}) IN
  /\ given <= Len(orderWorkers)
  /\ ends = 0 => given = Len(orderWorkers)

\* Nothing is running and nothing is queued but the follow-up calls.
Quiet ==
  /\ ~jobs.search /\ jobs.call = 0 /\ jobs.discard = {} /\ pendingUpdates = 0
  /\ \A h \in Slots : Free(h)

\* A worker pressed reject: her call is over, taken for rejected and not accepted.
Refused(c) == calls[c].line = "closed" /\ HasFlag(c, "rejected") /\ ~HasFlag(c, "accepted")

\* Once everything has run, the first task of an instant order nobody cancelled has
\* both its follow-up calls queued, although the second is derived from rows that
\* overlapping saves may detach.  Two things lose it: a worker who pressed reject, whose
\* second chain may detach a call of the first, and the end of the process in which
\* acceptOrder was to queue them.
FollowUpsQueued ==
  Quiet /\ cancels = 0 /\ ends = 0 /\ tasks # << >> /\ (\A c \in DOMAIN calls : ~Refused(c)) =>
     {"confirmation", "eta50"} \subseteq jobs.followUps

\* Once everything has run, the customer of an order nobody cancelled has been told
\* how it ended: no path of the search ends in silence, with or without process ends.
CustomerTold == Quiet /\ cancels = 0 => notices # {}

\* MAX_RETRY_PER_WORKER: no worker is proposed the order more often than the
\* retries allow, one first call and MaxRetry more.
RetryBudget == \A w \in Workers : ProposalsTo(w) <= MaxRetry + 1

\* The search keeps to that budget as long as nobody presses a key, whoever picks up.
\* (A cancellation puts back the cursor it loaded.)
RetryBudgetUnpressed ==
  cancels = 0 /\ (\A c \in DOMAIN calls : calls[c].line # "closed") => RetryBudget

\* The search ends: an order does not read `searching` for ever.
Settles == (Latest(order) = "searching") ~> (Latest(order) # "searching")

(***************************************************************************)
(* Statements of the code's comments and messages that it does not keep.   *)
(***************************************************************************)
\* "Order already accepted": a second acceptance is refused.
AtMostOnePrimary == Len(orderWorkers) <= 1

\* "order is cancelled by customer": a cancellation that was recorded is still
\* the order's status when nothing runs any more.
CancellationKept ==
  Quiet /\ (\E i \in DOMAIN statusLog : statusLog[i] = "cancelled") => Cancelled(order)
=============================================================================
