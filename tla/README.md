# Hellotask backend: a TLA+ verification project

Hellotask is a NestJS backend (PostgreSQL through TypeORM, Redis through Bull,
Firebase, an IVR telephone gateway and a finance API) through which customers
hire domestic workers who have no smartphone: the program *calls* them, and they
answer by pressing keys. This directory holds a TLA+ model of that program, the
TLC configurations that check it on small instances, and proofs checked by TLAPS.

- `OrderDispatch.tla` — the search for a worker for one order (the core);
  `MCOrderDispatch.tla` and `Dispatch*.cfg` are its instances for TLC,
  `OrderDispatchProofs.tla` (types, rows, cursor, acceptances), `OrderDispatchSearch.tla`
  (tasks, chains, how a search goes on and ends) and `OrderDispatchCalls.tla` (who is
  called, how often, and the follow-up calls) its theorems.
- `Settlement.tla` — the work and the payments of an accepted instant order;
  `InvoiceSettlement.tla` — what the payments promise, as a specification of its own;
  `MCSettlement.tla`, `Settlement*.cfg`; `SettlementProofs.tla`.
- Around the dispatch: `OrderPlacement.tla`, `Scheduling.tla`, `TimePreference.tla`,
  `VisitCalls.tla`; composed in `MCOrderServices.tla` (`OrderServices.cfg`); theorems in
  `PlacementProofs.tla` (the first two) and `CallProofs.tla` (the others).
- The back office: `CustomerAddresses.tla`, `WorkerAdmin.tla`, `LocationTree.tla`,
  `LocationResolution.tla`, `Ewallet.tla`, `Accounts.tla`; composed in
  `MCBackOffice.tla` (`BackOffice.cfg`); theorems in `BackOfficeProofs.tla`.
- `RowLemmas.tla` — lemmas about rows, sets of rows and slots, used by the proofs.
- `PROJECT.json` — components, runs, hazards, findings and the map from each
  definition to the source lines it stands for.

Run one configuration with `tlc -workers 2 -config DispatchTwoAnswers.cfg
MCOrderDispatch.tla`, the proofs of one module with `tlapm OrderDispatchProofs.tla`.

## 1. Inventory

Paths are under `src/src/`. "Hard" is what makes the part difficult to test;
"correct when" is what a model of it should show.

| Component | State | Operations | Talks to | Hard | Correct when |
|---|---|---|---|---|---|
| Order dispatch (`orders/orders.processor.ts`, `orders/orders.service.ts`, `ivr/ivr.service.ts`) | order row with its relations (status rows, calls, assigned workers, tasks, potential workers), `searchCursor`, response log of each call, Bull queue `orders` | jobs `searchWorker`, `callWorker`, `discardCheck`; callbacks accept / reject / receive; `cancelOrder`; `updateOrderStatus` | IVR gateway, Firebase, Bull | jobs and callbacks overlap at each `await`; whole-entity saves of stale snapshots; a job queues its own successor; an un-awaited status update | a searching order always goes on; one acceptance; a cancellation stays; retry budget kept; customer told |
| Backup workers (`orders.processor.ts`) | — | `searchBackupWorker`, `callBackupWorker` | — | — | dead code: only these jobs queue each other |
| Order placement (`orders.service.ts`) | estimates, the customer's orders, their first status row, delayed search jobs | `estimate`, `validateOrder`, `placeOrder` | Bull, locations, workers | two requests for one estimate; a save of the order after its job is queued; a crash between the saves and the job | one order per estimate; a status before the job, a job for every order; an order being searched lists workers to ring |
| Scheduling arithmetic (`getSearchDelay`, `validateOrder`, `getWorkDates`, `getTaskDateList`, `getFreeWorkers`, `createDateArray`) | none | pure date and HHMM computations | — | boundaries, mixed UTC / local time, `\|\|` for `&&`, shared `Date` object | a search starts at the first allowed minute; tasks fall on work days and hours |
| Tasks (`task/task.service.ts`) and payments (`finance/finance.service.ts`) | task rows, invoice, payments with `received` / `dropped` | start / complete callbacks, `commitTask`, `createPayment`, `receivePayment` | IVR, finance API, payment provider | repeated payment notifications; un-awaited `commitTask`; stale saves of the order | paid once; a received payment never dropped; completed iff paid |
| Wallets (`finance.service.ts`) | balances, external | credit, debit | finance API | balance checked in one request and used in the next; an amount nobody checks; an answer lost | overdrawn only by what no check has seen and by overlapping debits, and by how much |
| Worker time preference (`ivr/cron.service.ts`, `ivr/ivr.processor.ts`, `ivr.service.ts`) | one row per worker and day: id of its last call, retry count, answer | daily job, retry job, callbacks | IVR, Bull | late answer to a replaced call; whole-row saves; a job handed out twice | at most 3 calls; retried until answered; the last answer stands |
| Follow-up calls and keys (`orders.processor.ts`, `task.service.ts`, `ivr.service.ts`) | task and order status of each visit, follow-up jobs with their attempts, calls that wait for a key | confirmation, reminder and ETA jobs; `taskStartEndByCustomer`; start and end keys | IVR, Bull | a check made when the call is placed, a key pressed later; a job that fails after its call rang, or is cut off twice | one task in progress per worker; a job rings no oftener than it may be tried, and falls silent only for a reason |
| Call-back requests (`ivr.service.ts` `callbackRequest`, `workerOnTheWay`) | one row nothing reads | choose call flow, place the call by a timer | IVR | tasks change before the call | right flow |
| Customers (`customers/`) | row, addresses with one default, location log | create, `updateCustomer`, delete | Firebase, locations | one request creates, updates and deletes over ten awaits; overlapping updates; a crash between clearing and saving the default | at most one default, and one unless given up |
| Workers (`workers/`) | worker row, identity document, payment methods with one default, status row | `createWorker`, `updateWorker`, `deleteWorker` | locations | four tables without a transaction; a worker without a status makes every search in her area throw | at most one default; every live worker has a status |
| Locations (`locations/`) | zone / sourcing zone / microarea rows, soft-deleted; the connection pool | create, update (move), delete, seed; `resolveLocation` | PostGIS | a child created or moved while its parent is deleted; a query runner held while further connections are taken | no orphan; connections come back |
| Users (`users/`) | row, Firebase account | create, update, delete | Firebase | two stores written one after the other; a deleted row loaded and saved | the account says what the row says |
| Packages | single rows | CRUD | — | — | — |
| Notification (`notification/`) | none | push, topic, SMS | Firebase | fails at any time | see dispatch |
| Auth, abilities, pub-sub, shell, DTOs, call-flow data | none | guards, wiring, templates | — | — | — |

How they interact. A GraphQL resolver calls a service; the services share the
database through TypeORM repositories and the Bull queue `orders`. The IVR
gateway calls back over HTTP (`ivr.controller.ts`), the payment provider too
(`finance.controller.ts`). Each of these entry points is an `async` function:
Node runs it from one `await` to the next, and *every* other handler may run in
between. No database transaction spans two awaits in the modelled parts.
Named processors of one Bull queue each add their concurrency to the queue's,
so several jobs of the queue `orders` run at the same time as well.

## 2. Order dispatch

### State and steps

| TLA+ | Code |
|---|---|
| `statusLog` | `order_status` table in order of `createdAt` |
| `calls`, `responses` | `ivr_placed_calls` with the state of the phone line (external), `ivr_call_responses` per worker |
| `orderWorkers`, `tasks` | `order_worker`, `task` |
| `order` | the order row: ids of the rows its relations hold *now*, potential workers, `searchCursor` |
| `jobs` | the Bull queue: is `searchWorker` due, how many `callWorker`, for which calls a `discardCheck`, which follow-up calls |
| `pendingUpdates` | `updateOrderStatus(accepted)` started and not awaited (`ivr.service.ts:334`) |
| `cancels` | cancellation requests so far (bound) |
| `notices` | what the customer's phone has been told |
| `ends` | how often the process has ended and come back |
| `handlers` | the running async functions: the await each stands at, its snapshot of the order, its locals |

`Save(snap)` is `orderRepository.save(order)`: TypeORM makes the database equal
to the object *as it was loaded*. A row that another handler added to a loaded
one-to-many relation since then loses its foreign key; for `order_worker`, whose
foreign key is NOT NULL, the save throws (`CanSave`). This one fact is behind
most of what is interesting here.

| Handler | Actions |
|---|---|
| `searchWorker` | `SearchWorker`, then `StatusLoad` / `StatusInsert` / `StatusSave` (updateOrderStatus), `FindWilling`, `SearchSave`; or a status update `failed` and the notice |
| `callWorker` | `CallWorker`, `NextLoad`, `NextCalls`, `NextSave` (getNextWorkerToCall), `PlaceCall` (placeIVRCall and the queued discard check) |
| `discardCheck` | `DiscardCheck`, `Verdict` |
| receive / reject callbacks | `ReceiveCall`, `RejectOrder` |
| accept callback | `AcceptOrder`, `Assign`, `CreateTask`, `SaveTaskAgain` (twice), `RespondAccepted`, `FollowUp`; and `AcceptedUpdate`, the update nobody awaits |
| `cancelOrder` | `CancelOrder`, the status update with `CancelCall`, `CancelTasks` |
| the process | `ProcessEnd`: the save of the accepted update throws, and nobody catches it |

`FindWilling` and `Init` choose any duplicate-free list of workers: which
workers are free and willing is `getFreeWorkers` and time preference data.
`Package` abstracts a package to what acceptance does for it: `plain` creates no
task, `trial` one and a reminder, `instant` one and two follow-up calls.

### Abstractions to keep in mind

- Every service call may be arbitrarily slow, so a discard check (60 s later)
  may run while the worker still talks. The model has no clock.
- One key press per picked-up call, and callbacks are neither lost nor doubled.
- `PlaceCall` is one step: a callback that arrives before the call's row is
  inserted is not modelled.
- The process ends only where the code itself ends it: `acceptOrder` neither awaits nor
  catches `updateOrderStatus(accepted)` (`ivr.service.ts:334`), and Node 16 ends the
  process when its save throws, which takes a second acceptance (`CanSave`). Every
  handler and every update not yet begun is lost; calls under way at the gateway go on,
  and so do the queued jobs. A job that was running has stalled: Bull hands it out again,
  once (`maxStalledCount` is 1); at a later end any of them may be failed instead. A
  second end needs a third acceptance, which no run has: the theorems cover it. Ends for
  another reason (a deployment, a lost machine) are not modelled here.
- Two routes of the controller are left out. `order/accept/confirmation/cancel` ends in
  `rejectOrder`, with a call no worker of the search is waiting at; `order/cancel` ends in
  `ivrService.cancelOrder` (`ivr.service.ts:437`), which records the same status as the
  customer's `cancelOrder` and then cancels every task, not the pending ones alone.
- The potential workers keep their order, though the join table has no ORDER BY.
- `save(order)` is one step (TypeORM wraps it in a transaction).

### Runs

All runs have two workers, `MaxRetry = 1` and two handler slots. All the races of
this code are between two handlers, one of which holds a snapshot, and the
smallest list on which the cursor wraps around is two workers with one retry; a
third slot or worker adds volume and no new kind of step. `MaxAnswers` bounds
how many calls are picked up, `MaxCancels` the cancellations. Workers and slots
are interchangeable (`Symmetry`), except in the liveness run. Deadlock is not
checked: an order that has settled has nothing left to do.

| Run | Asks | Shows |
|---|---|---|
| `two_answers` | two answers in any interleaving with the search | nine invariants hold (below) |
| `instant_cancelled` | an instant order accepted and cancelled at any point, gateway and Firebase failing at will | one task per assignment out of three saves; both follow-ups queued unless it was cancelled; cursor and acceptances accounted for |
| `settles` | liveness, with Firebase failing | no order reads `searching` for ever |
| `gateway_fault` | the same with the IVR gateway failing | **violated**: finding 1 |
| `second_acceptance` | is a second acceptance refused? | **violated**: finding 2 |
| `retries` | is a worker called at most `MaxRetry + 1` times? | **violated**: finding 3 |
| `cancellation_lost` | does a recorded cancellation stay? | **violated**: finding 4 |

Invariants of `two_answers`: `TypeOK`; `RowsExist` (no dangling row id in any
order, snapshot or job, and `orderStatuses[0]` exists); `CursorBounded`;
`AcceptancesAccounted` (assignments = accepted rows + updates under way; after a process
end fewer rows than assignments, but never none);
`ChainsBounded` (only a rejection forks the chain of calls);
`FailedAfterRingingAll`; `SearchAlive` (a searching order has a job, an update
or a handler that moves it on); `CustomerTold` (no silent ending);
`RetryBudgetUnpressed` (the retry budget is kept as long as nobody presses a key,
which locates finding 3 in the rejection). `FailedAfterRingingAll` and
`RetryBudgetUnpressed` are about orders nobody cancelled: the status update of a
cancellation saves the order it loaded, with an earlier list of workers or an earlier
cursor.

Four invariants stop at a process end, and should: `SearchAlive` is false after one (two
workers assigned, the accepted row detached by a stale save, the order reads `searching`
and nothing is queued), `FailedAfterRingingAll` because the worker a cut-off job was
about to call is passed over, `FollowUpsQueued` and the half of `OneTaskPerAssignment` that
no task is missing because the handler that was to queue or save them is lost. What holds
across ends: the types and rows, the cursor, one chain of calls plus one per rejection,
no acceptance or task doubled, and a customer who is told how it ended.

`FollowUpsQueued` has an exception too, which takes two answers and is finding 3 again: a
worker who presses reject starts a second chain of calls, and when that chain saves an
order it loaded before the call that is then accepted was linked,
`taskWorkerTrackingETA50Passed` finds no accepted call and throws
(`orders.service.ts:1034`): the customer gets her worker and no arrival call is made. In
`instant_cancelled` one call is picked up (so nothing ends the process there); with two (`MaxAnswers = 2`, no cancellation and
no fault, 2.8 million states) the invariant holds as well, and section 6 proves it for any
number.

Fairness (`FairSpec`) is weak fairness of `System` alone: Bull hands out due
jobs and Node resumes settled promises. Nothing is assumed of workers or
customers: they may never answer. Since one fair action covers all handlers, the
run needs no claim about which of two runnable handlers goes first; every chain
is finite because the cursor only grows within a chain.

### Findings

1. **A refused proposal call ends the search.** `orders.processor.ts:212`: the
   exception of `placeIVRCall` ends the job after the cursor has been saved and
   before `discardCheck` is queued; the order reads `searching` for ever.
2. **Two primary workers.** `ivr.service.ts:304` tests the latest status, which
   an un-awaited update (line 334) writes after the notification of line 311.
3. **Over the retry budget.** A rejected call keeps its discard check; its
   `callWorker` and the one `rejectOrder` queued run side by side with stale
   cursors.
4. **A cancellation is lost.** `orders.service.ts:942` saves a snapshot loaded
   before the cancellation; the cancelled row loses its order.

## 3. Settlement

`OrderDispatch` ends with an accepted order; `Settlement` takes one accepted
*instant* order on to its payment. The two modules share no variable: they meet in
the state `Init` of `Settlement`, a last status row `accepted`, one pending task,
and the accepted call, which a stale save of the dispatch may have detached from
the order (`order.call`).

### State and steps

| TLA+ | Code |
|---|---|
| `statusLog`, `order` | as in section 2; the order's relations are its status rows, its invoices and whether it holds the accepted call |
| `task` | `taskStatus` of the order's task |
| `payments` | the `payment` table by `created_at`: invoice, method, `payment_received_at`, `payment_dropped_at` |
| `asked`, `notices`, `cancels` | requests so far (bounds) |
| `crashed`, `overlapped`, `hurried` | history: the process was restarted; a notification came while another was being handled; an end came while a start was still being recorded |
| `handlers` | the running async functions, as in section 2 |

| Handler | Actions |
|---|---|
| start callback | `StartTask`, `StartSave`, then `StatusLoad` / `StatusInsert` / `StatusSave` |
| end callback | `EndTask`, `EndSave`, then the same with `payment_pending` |
| `cancelOrder` | `CancelOrder`, the status update, `CancelTask` |
| `createPayment` | `CreatePayment` (the invoice is linked), `SavePayment` or `LinkRefused` |
| `receivePayment` | `ReceivePayment` (the check), `FindPayment`, `Receive` or `ReceiveRepeated`, `DropOthers`, `InvoiceLoad`, `Complete` |
| the process | `Crash` |

Each of the five awaits of `receivePayment` is a step of its own, because each
of its questions (has something been received, which payment is open, whose
order is it) is answered before the next write and may be stale by then.

### Abstractions to keep in mind

- Which invoice a link belongs to is the finance API's answer, any member of
  `Invoices`: a new id or one it issued before.
- `Receive` writes the payment as it was loaded: TypeORM compares the object with
  the row of that moment and writes back what differs, so a drop in between is undone.
- `transaction_id` is unique. A notification may be another transaction of the same
  method, which is saved, or a repetition, whose save throws when another payment
  carries that id; `Receive` and `ReceiveRepeated` are the two outcomes.
- The end may be asked for as soon as the task is saved as in progress, while the start
  is still recording `on_going`: `taskStartEndByCustomer` places the call with the end
  key at once, and the controller keeps no callback waiting (`ivr.controller.ts:186-203`).
  `hurried` marks it. The later `on_going` row then hides the `payment_pending` one.
  Start and end callbacks may each be doubled.
- `Crash` ends every running request and keeps the rows. It happens at most once,
  anywhere. One cause is in the code: `task.service.ts:192` does not await
  `commitTask`, and Node ends the process for the rejection nobody handles.
- In a cancellation that finds the accepted call, `placeIVRCall` answers without a
  worker and `updateIvrCallResponse` throws: the status row stays, `save(order)`
  and the cancelled task do not happen (`StatusInsert`).
- The push notifications at the end of a callback, after every save, are left out.
- Overtime payments (`createPaymentOvertime`) and packages other than instant are
  left out: only an instant task leads to `payment_pending`.

### Runs

One invoice, two methods, two handlers at a time, two notifications, one restart,
two requests that are links or one cancellation (`MaxRequests`), and keys as long as
there are fewer than four status rows (`MaxRows`): accepted, on_going and
payment_pending, and one row more for a doubled or late callback. Every property is about two handlers, one of
which acts on what it read before the other wrote; the two links on one invoice
are what makes the payments compete, and a second invoice would only separate
them. Invoices, methods and slots are interchangeable. Deadlock is not checked:
a paid order has nothing left to do. No liveness is claimed: nobody has to pay.

| Run | Asks | Shows |
|---|---|---|
| `settlement` | all of the above | `TypeOK`; `ReceivedNotDropped`; `DroppedForAnother` (a request that dies halfway never strands the customer without an open payment); `CompletedOnlyIfPaid`; `UnpaidWorkReadsPending` (unpaid work has its `payment_pending` row, and reads it unless a start was recorded late); `KeepsTheBook` (the refinement below) |
| `two_receipts` | is an invoice paid once? | **violated**: finding 5 |
| `paid_pending` | is a paid order no longer unpaid? | **violated**: finding 6 |

`InvoiceSettlement` knows only a book of payments, each open, received or
dropped: `Open`, `Receive` (when every payment of the invoice is open), `Drop` (the
open ones of an invoice with a received one). `Settlement` implements it under the
mapping `Ledger` as long as no two notifications overlap; the history variable
`overlapped` marks where that ends, and finding 5 is what comes after.

### Findings

5. **An invoice paid twice.** `finance.service.ts:290` checks, line 332 saves, with
   two awaits between: overlapping notifications for two links both pass.
6. **Paid, and unpaid for ever.** The status update of a callback
   (`orders.service.ts:717`) saves an order loaded before `createPayment` linked its
   invoice. The invoice loses its order; the notification saves the receipt and
   then throws at `finance.service.ts:358`, and its repetitions are refused.

## 4. Around the dispatch

Four modules for what comes before, beside and after a search. Each is a state
machine of its own: the rows and jobs one of them keeps are not modelled in another,
so `MCOrderServices` exercises them side by side. Its variable `service` says which of
them moves; the others stay as they began.

| Module | State | Actions |
|---|---|---|
| `OrderPlacement` | `valid` (estimates), `orderRows`, `searches` (the job of each order), `placings` (running requests) | `Estimated`; `placeOrder` as `PlaceOrder`, `FindUnpaid`, `FindEstimate`, `FindOrdered`, `FindArea`, `InsertOrder`, `MarkPlaced`, `QueueSearch`, `FreeWorkersNow`, `SaveStoredOrder`; the search beside it as `StartSearch`, `SearchStatus`, `SearchLists`, `SearchSaves`, `SearchFails`; `Unpaid` and `Paid` are the order's later life as the next `placeOrder` sees it |
| `Scheduling` | `asked`, one question | the functions are operators; `Ask` puts one question to them |
| `TimePreference` | `preferenceRows`, `preferenceJobs`, `preferenceCalls`, `preferenceTasks` | daily job: `StartFirstCall`, `FirstCall`, `CreateRow`, `QueueRetry`; retry job: the start of a retry, `FindAgain`, `CallAgain`, `FindRow`, `SaveRetry`; the gateway: `Callback`, `CallReceived`, `UpdateWorkingTime` |
| `VisitCalls` | `visitTasks`, `visitReads`, `followUps`, `visitLines`, `visitRequests` | jobs: `FollowUpStarts`, `FollowUpRings`, `FollowUpFails`; requests: `TaskStartEndByCustomer`, `FindVisitTask`, `CallbackRequest`, `PlaceVisitCall`, `VisitCallRefused`, `TimerCallRefused`; keys: `PressKey`, `SaveVisitStart`, `SaveVisitEnd`; `CancelVisit` |

A handler is cut at each `await` that another handler can take advantage of. The
process may end (`PlacementCrash`, `PreferenceCrash`, and the tries of a job cut off in
`VisitCalls`): running requests vanish, rows and queued jobs stay. Bull hands a running
job out again, once: no queue of the program sets `maxStalledCount`, so a job that stalls a
second time fails, whatever tries it has left. (`TimePreference` has one end.) An error nobody catches in a timer's callback ends the process
as well (`TimerCallRefused`).

### What the run `order_services` asks

| Property | Says | Hazard |
|---|---|---|
| `OneOrderPerEstimate` | overlapping `placeOrder` requests order an estimate once | the check and the insert are several awaits apart; what holds is the unique column |
| `PlacedAndQueued` | a status before the job can run; both once the request has ended, unless it died between | a search job that finds `orderStatuses[0]` missing; an order that nobody searches for |
| `WorkersListed` | an order whose first call is queued lists workers to ring; the willing ones, unless its search began before the request had ended | `placeOrder` saves the order once more after the job is queued, and the search saves an order loaded before |
| `SearchStartsWhenAllowed` | the first allowed minute, none skipped, none invented | HHMM integers compared as times |
| `TasksOnWorkDays` | `count` tasks on as many days, none of them off and none left out between two, within hours | loop bounds, weekend as first day, `count = 0` |
| `CallsBounded` | three calls a day, plus one per job handed out twice | retries and callbacks save whole rows, `retryCount` included |
| `RetriesUntilAnswered` | the chain of retries does not end early | the chain hangs on the id of the last call in a row that others overwrite |
| `AnswerKept` | the last answer saved stands | a retry saves the row it loaded before the answer |
| `OneVisitAtATime` | one task in progress, unless started from a call that nobody checked, or checked before another start | the check is made when the call is placed, the key pressed later |
| `FollowUpsMade` | a job rings once more than it has tries at most; silent only when every try was refused, no call was needed, or it stalled twice | the call is placed before its row is saved; a refused timer call ends the process under a job |

History variables (`early`, `halfPlaced`, `staleSave`, `brokenOff`, `redelivered`,
`unchecked`) mark where the code gives a promise up; a property says exactly which
interleaving is responsible, and the run reaches the others.

Bounds. Placement: two estimates and two requests, which may overlap, each with a search
that may begin before its request has ended, be cut off, and be put back once.
Scheduling: the moments lie on both sides of the hours 1:30 and 15:00, of midnight and
of a minute; starts, lengths and counts lie on both sides of the end of work (14:30), of
a weekend met once, twice or first. Time preference: two handlers, three callbacks,
one end of the process, and five calls, which is one more than three calls and the job
it hands out again. Visits: two orders, one follow-up job of any kind, two requests at a
time, two in all, each of which may end the process: a job may stall twice.

### Abstractions to keep in mind

- Times are seconds since a Monday 0:00 and the server's local time is UTC; where it is
  not, `getSearchDelay` is wrong by the offset. The three hours are set: without
  `WORK_END_TIME`, which `.env.sample` does not list, `parseInt` gives NaN and no order
  is too late.
- Who is free is not modelled. `getFreeWorkers` compares
  `task.start <= wanted.end || task.end >= wanted.start` (`orders.service.ts:823`), which
  holds of any two intervals: an accepted order in the area makes its worker busy at every
  time. That nobody busy is called follows, and no property would say more of it.
- `TasksOnWorkDays` does not say which day is the first, because the program disagrees
  with itself. `getWorkDates` moves on a day before it looks at one (line 734), so the first
  task is a day after `orderStartTime`; the comment of `getTaskDateList` says "from order
  start date" (line 488), and `acceptOrder` books an instant order's task and the trial at
  `orderStartTime` itself (`ivr.service.ts:348`, `373`). In `validateOrder` it is the other way
  round: two comments put the allowed hours "on the next day" (lines 447, 456), the code
  takes them on the day of the start.
- What an estimate costs and which area an address lies in are left out; whether the
  lookup succeeds is a choice.
- Saves of rows without a relation that another handler could have changed are one step.

## 5. The back office

| Module | State | Actions |
|---|---|---|
| `CustomerAddresses` | `addressRows`, `isDefault`, requests | `UpdateCustomer` chooses the parts; `CountAddresses`, `ClearForNew`, `SaveNewAddress`; `LoadAddress`, `ClearForUpdate`, `SaveAddress`; `LoadDoomed`, `DeleteAddress` |
| `WorkerAdmin` | `methodRows`, `defaultMethods`, `worker`, `hasStatus`, requests | `CreateWorker`, `SaveIdentityDoc`, `SaveFirstMethod`, `FindAreas`, `SaveWorker`, `SaveTraineeStatus`; `UpdateWorker`, `NextMethod`, `ClearDefault`, `SaveMethod`, `SaveUpdate`; `DeleteWorker`, `SaveDeleted` |
| `LocationTree` | `areaRows`, `parentOf`, requests | create, update and delete of each of the three levels, then `LoadArea`, `LoadParent`, `InsertArea` / `SaveArea`, or `LoadDoomedArea`, `CountChildren`, `SoftDeleteArea`; `SeedLocations`, `SeedArea` |
| `LocationResolution` | `freeConnections`, `resolutions`, `otherQueries` | `ResolveLocation`, `CoveringQuery`, `StartLookup`, `EndLookup`, `MicroareaNotFound`, `ReleaseRunner`; `StartQuery`, `EndQuery` stand for the rest of the program |
| `Ewallet` | `customerBalance`, `workerBalance`, requests, `uncovered` (history: what was taken without a check) | credits and debits of amounts of either sign, or none in a debit, `CheckBalance`, `Post` (refused, applied, or applied with its answer lost) |
| `Accounts` | `personRow`, `userProfile`, `account`, `accountProfile`, `located`, requests | create, update, delete of users and customers, then `FindUser`, `CreateAccount`, `InsertPerson`, `LogLocation`; `LoadPerson`, `MirrorProfile`, `SetPassword`, `SavePerson`; `LoadDoomedPerson`, `GetLastLocation`, `SoftDeletePerson`, `DisableAccount`; `SignUp` happens at Firebase |

`MCBackOffice` composes them as `MCOrderServices` does, with the variable `desk`.

What TypeORM does, read from how the code uses it: `save` of a loaded row writes every
loaded column back, `deletedAt` included, so that a row soft-deleted in between lives
again; a relation object wins over the foreign key column loaded beside it; unique
columns count soft-deleted rows; `softDelete` reports a row it had already deleted as
affected.

### What the run `back_office` asks

| Property | Says | Hazard |
|---|---|---|
| `OneDefaultAddress` | without overlap at most one default, wherever a request dies; and one, unless it was given up | the old default is cleared in one await, the new one saved in another |
| `OneDefaultMethod` | without overlap at most one default payment method, when requests say which new one it is | the methods of one request are saved one by one, from a list loaded before the first |
| `SearchBreaksOnlyInCreation` | a live worker lacks a status only while, or because, her creation was cut | the status row is the last of four saves; `lastStatus.status` is read of every worker of the area |
| `NoOrphans` | a live area hangs under a live one of the level above, unless a deletion raced a save | count children, then delete; load the parent, then insert |
| `RunnersReleased` | the pool starves only when the runners of waiting resolutions and the lost ones are all of it | a resolution holds a connection while it waits for a second |
| `NoOverdraft` | overdrawn only by what no check has seen, and by overlapping debits, by at most all of them but one | balance read in one request, debited in the next; the amount is an integer nobody checks, and may be missing |
| `SignInMatchesRow` | row and Firebase account agree about everyone no request is about, or was cut short about, or was updated beside another request | nothing undoes the first write when the second fails |

Each property has its exception in it, and the exception is where the code is weak:
overlapping updates leave two defaults, a deletion beside an insert leaves an orphan,
a negative credit and a debit without an amount take what nothing compares,
`PoolSize` resolutions at a time wait for ever, and a refused second write leaves row
and account apart.

Bounds. Every race here is between two requests about one thing, so there are two
slots; three requests in all let one follow an overlapping pair (two and one where a
request has many parts of its own, `AddressSlots` and `WorkerSlots`). Two zones, two
sourcing zones and one microarea allow a move on each level; three payment methods the
creation's two and a new one; a pool of four with four resolvers is the smallest that
shows both a resolution that waits for another and all of them waiting for ever. Each fault set lists the services that may fail at every request, and
`crash` ends every running request at any point.

In both runs deadlock is not checked: the numbers of requests are bounded and nothing
obliges anybody to make one. No liveness is claimed.

## 6. What is proved

Each theorem is for every value of the constants that the named assumptions of its
module allow, all of which TLC evaluates in the runs. Every invariant is shown
inductive with one lemma per action; `[]` follows by the temporal rule alone.

### Order dispatch

For every finite set of workers, retry bound, package, set of slots, bounds and
set of failing services:

- `TypeCorrect`, `RowsTheorem` (`OrderDispatchProofs`): `Spec => [](TypeOK /\ RowsExist)`.
  Types alone are not inductive: `Latest` reads `statusLog[Max(order.statuses)]`, a
  number only if the set is a non-empty, finite part of the log. Nor is
  `RowsExist` for the order alone: a save copies a snapshot into the order, so
  every snapshot must be bounded as well, and its `statuses` non-empty at exactly
  the awaits that lead to a save (`HandlerRows`).
- `CursorTheorem` (`OrderDispatchProofs`): `CursorBounded`. The strengthening
  `CursorInv` says the same of every snapshot a handler may still save, and that
  every list of potential workers has at most `Cardinality(Workers)` members,
  which needs that lists without duplicates do.
- `AcceptanceTheorem` (`OrderDispatchProofs`): `AcceptancesAccounted`, from
  `AcceptInv`, which adds that `accepted` updates are started by acceptances only, and
  what a process end needs: the update whose save throws has its row in the log, so an
  order with a worker keeps at least one.

The proofs of the search describe each step of a handler once, as an effect on its
record and on what is shared (`StepOf` and its disjuncts, `OrderDispatchSearch`); every
later invariant goes by cases of that description, not of the actions. What a process
end breaks is proved of the time before the first one (`ends = 0 => ...`; `ends` only
grows, `EndsCount`); what is claimed across ends is proved through `ProcessEnd` too.

- `OneTaskTheorem`: `OneTaskPerAssignment`, for the packages that make a task
  (`Package # "plain"`). The property is inductive: an assignment without its
  task is in the hands of exactly one handler, at the first of the three saves, or was when
  the process ended.
- `ChainsTheorem`: `ChainsBounded`. A step adds a job or a searching handler only when
  it takes one away, and a rejection adds one and a closed, rejected call.
- `SearchAliveTheorem`: `SearchAlive`, when the gateway takes the calls
  (`"ivr" \notin Faults`; `gateway_fault` shows that the assumption is needed).
  "Something is left to run" is not inductive: a handler may end doing nothing. `Good`
  names what carries the search on: a job, a pending update, a handler that will queue
  or record something (`Carrying`; one that is about to save an order whose save
  throws does not count), or a discard check of a call the order still holds and nobody
  took. That it holds needs that a check finds nothing to do only when someone accepted
  (`ShapeInv`), that one search at most runs and begins before all calls (`EarlyInv`),
  and that its list of workers is not empty once calls have begun (`PotentialSet`).
- `CustomerToldTheorem`: `CustomerTold`, when no service fails (`Faults = {}`: a refused
  notification is told to nobody, and that is what the code does). `Told` says that
  until the customer is told the order is `Good`, or the handler that saves the failure
  still has to notify; beside it, that nobody cancelled (`Uncancelled`), that no worker
  is assigned before the customer knows (`Untold`), and that every copy of the order
  holds the same workers once calls have begun (`Settled`).
- `FailedTheorem` (`OrderDispatchCalls`): `FailedAfterRingingAll`, when the gateway takes
  the calls and `MaxRetry # 0`. With no retry at all it is
  false: the test `searchCursor > MAX_RETRY_PER_WORKER * length` then ends the search after
  the first worker (`.env.sample` has 3). `PassedInv` says of the order *and of every
  snapshot* that the workers up to its cursor have been called or are about to be, so a
  stale save of the cursor may repeat a worker and never skips one; `RungAll`, that a
  search failing after it began to call has gone past everybody.
- `BudgetTheorem`: `RetryBudgetUnpressed`, whatever fails. Without a key there is
  one chain (`ChainsBounded`), so the cursor a handler holds is the order's; `Tracked`
  writes it as `q` whole rounds and `r` workers more, and bounds the calls to each worker
  by `q`, or `q + 1` for the first `r`. After a failure no chain is left (`NoChain`).
- `FollowUpsTheorem`: `FollowUpsQueued`, for an instant order and with no assumption on
  what fails. `Agreed` is what the property assumes, kept along the way: nobody cancelled,
  and no refused call but in the hands of the handler that is recording an acceptance. Then
  there is one chain or accepting handler (`OneBusy`), before the first assignment every
  copy of the order holds all calls (`LinkedInv`), and from then on the accepted call stays
  in every copy that can still be saved, until its arrival call is queued (`Promised`).

### Settlement (`SettlementProofs`)

- `TypeCorrect`: `TypeOK`, which includes that the payment a
  handler is about to receive belongs to its invoice, and that a snapshot about to
  be saved has a status.
- `MoneyTheorem`, `ReceivedTheorem`, `CompletedTheorem`:
  `DroppedForAnother`, `ReceivedNotDropped`, `CompletedOnlyIfPaid`. None of them is
  inductive: `DropOthers` and `Complete` act on a receipt saved some awaits ago.
  `MoneyInv` adds `Owed`: a handler past its save still has a received payment of its
  invoice, and no status update under way inserts `completed`. It holds however
  notifications overlap, since a stale save can turn a dropped payment into a received
  one, never a receipt into anything else.
- `BookTheorem`: `Spec => KeepsTheBook`, the refinement of
  `InvoiceSettlement`. `BookInv` says that without overlap at most one handler is
  receiving, and that what it checked still holds when it saves; `SavePayment` maps
  to `Open`, `Receive` to `Receive`, `DropOthers` to `Drop`, and every other step
  leaves the ledger alone.
- `UnpaidTheorem`: `UnpaidWorkReadsPending`. As long as no end has come while a start was
  being recorded (`~hurried`), no `on_going` row comes after the first `payment_pending` one;
  and `WorkInv` adds that whoever is the last to save an update carries a `payment_pending`
  row in its snapshot, its own, which is why stale saves cannot take the status away.
  With such an end the row is there and the order may read `on_going`.

### Placement and scheduling (`PlacementProofs`)

- `PlacementTypeCorrect`, `EstimateOrderedOnce`, `StatusBeforeJob`, from
  one invariant, `PlacementInv`: where a request stands says which of its writes exist
  (`PlacingFits`); no two requests place the same order (`OwnOrder`), although any
  number of them may place the same estimate; and a search that is not `early` agrees
  with its order on what the request saved (`SearchAgrees`).
- `WorkersAlwaysListed`: `WorkersListed`, also for a search that began early. `ListsInOrder`
  says which lists a search and its order may hold at each of its awaits (`ListsFit`):
  stale saves may empty a list on the way, but only the search's last save lists the
  willing workers, and nothing but its request's last save, of all the free ones, can come
  after that.
- `SearchTimeRight`: `SearchStartsWhenAllowed` for every day start and end and every
  second. The clock's HHMM integers are taken apart into day, hour and minute
  (`TimeParts`), put together again for the start (`TimeOf`), and every minute in
  between is shown to read before the day's start or after its end.
- `TasksRight`: `TasksOnWorkDays` for every start, length, number of tasks, hours and day
  off. The model runs the loop of `getWorkDates` as a recursive function of the turn;
  `TurnsExist` shows that there is such a function, and `LoopStep` that each turn keeps
  `LoopInv`: the dates so far are work days in their order, none was left out, and at least
  every other day was one, so that `2 * count` turns are enough. `TasksOfOrder` reads the
  property off the last turn; that the days are `count` many is a bijection. Induction goes
  over a *set* of turns (`Counting`: a set of numbers with 0 and closed under the next one
  is all of them, from the least element of its complement).

### Calls (`CallProofs`)

- `PreferenceTypeCorrect`, `PreferenceCallsBounded`, `LastAnswerKept`, `RetriesGoOn`.
  The calls are bounded because there is one token, a job in the queue or the handler
  that runs it, and each kind of place it can be at leaves a budget of calls
  (`ControlInv`); a redelivery adds one to the budget and none to the tokens. That the
  answer stands needs that a row loaded and not overwritten is still what the table
  says (`AnswerKept` of every loaded copy), and that retries go on needs that the job
  to come names the row's last call (`ChainInv`).
- `VisitTypeCorrect`, `OneVisit`, `FollowUpsKept`. `OneVisit` rests on `ChecksInv`: a
  check that has seen as many starts as there were still holds, so a start that is not
  `unchecked` finds nothing in progress. `FollowUpsInv` counts each ring against the
  try that made it or the stall that cut it off, of which Bull repeats one.
- `OrderServicesHold`: `OrderServicesSpec` implements the specification of each of its four
  parts, whose steps the others only stutter through, so everything proved of a part
  holds of the composition that the run `order_services` checks.

### Back office (`BackOfficeProofs`)

- `AddressTypeCorrect`, `DefaultAddressKept`: between clearing and saving there is no
  default at all, and the request in that place is the only one.
- `WorkerTypeCorrect`, `SearchBreaksAtCreation`, `DefaultMethodKept`: `CreationInv` says
  that until her row exists nothing but her creation runs, and that afterwards she has a
  status unless that request is about to save it or died; `MethodsInv` what a running
  request holds of the defaults: at most one, and before a new default is saved, only
  rows that it has yet to clear.
- `AreaTypeCorrect`, `TreeHolds`: what a request has looked up (its area, the parent) is
  still live when it writes (`StillTrue`), unless a deletion raced; and the levels are
  kept even then (`AreaLevels`).
- `PoolTypeCorrect`, `PoolStarvation`: `Conserved`, free connections + runners held +
  lookups running + other queries + lost ones = `PoolSize`, a sum over the resolvers
  that each action changes at one place.
- `WalletTypeCorrect`, `OverdraftBounded`, both about `Accounted`, the balance and what was
  taken from it unchecked: without overlap it covers the one debit under way
  (`WalletCovered`); with it, some debit that has been checked and not posted still leaves
  room for the others (`WalletFloor`).
- `AccountTypeCorrect`, `SignInHolds`: of everyone not cut short, and not updated beside
  another request, row and account agree up to exactly the writes the running request
  has still to make (`StaffKnown`, `CustomerKnown`).
- `BackOfficeHolds`: the same as `OrderServicesHold`, of the six parts of `MCBackOffice`.

### Only model-checked

Every invariant and action property of the passing runs is a theorem, under the assumptions
named above. `Settles` is not: it is liveness under fairness, which the provers cannot reach.

## 7. Plan

Done: every component of section 1 that keeps state of its own has a module. Left,
in this order:

1. `OrderDispatch`: the process ending for a reason that is not the code's, and with it a
   `callWorker` job handed out again with its call placed and its discard check not queued;
   a callback before the call's row exists; the two routes left out;
   `updateOrderDisclaimer`.
2. `DispatchPromise` — the abstract search (searching, then accepted, failed or
   cancelled) and `OrderDispatch` as its implementation where it is one.
3. `Settlement`: `createPaymentOvertime`. `Tasks`: `createTasksForOrderAfterTrialComplete`
   with `createDateArray`, which pushes one `Date` object for every task.
4. The deletion of an address beside the search that reads it.

## 8. Not modelled, and why

Auth guards, abilities, pub-sub, wiring, generated schema and input types keep no state
of their own (whom an account signs in as is stated in `Accounts`). Packages and reads
are straight-line code over single rows. `workerOnTheWay` records one response row and
`callbackRequest`'s own row is read by nothing. Geometry is PostGIS's. Texts, templates
and logging matter to no property. The backup-worker jobs are dead code.
`getFreeWorkers` is any choice of workers, for the reason given in section 4.
