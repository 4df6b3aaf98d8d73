------------------------- MODULE OrderDispatchSearch -------------------------
(***************************************************************************)
(* Theorems about how the search of OrderDispatch goes on and ends, for    *)
(* every number of workers, slots, retries, answers and cancellations and  *)
(* every package: an assignment is given one task, one chain of calls      *)
(* runs at a time but for rejections, a search is never left with nothing  *)
(* to do, and the customer is told how it ended.                           *)
(***************************************************************************)
EXTENDS OrderDispatchProofs

(***************************************************************************)
(* What each step does, in terms of the fields of the handler that takes   *)
(* it: s is what the handler is after the step.                            *)
(***************************************************************************)
Goes(h, s, from, to) == handlers[h].at = from /\ Goto(h, s) /\ s.at = to

\* A handler that holds nothing of the order.
Fresh(s) == s.snap = NoOrder /\ s.told = {}

StatusLoaded(h, s) ==
  /\ Goes(h, s, "status_load", "status_insert")
  /\ s.snap = order /\ s.status = handlers[h].status
  /\ s.told # {} => s.status = "cancelled" /\ s.told = AcceptedBy(order)
  /\ UNCHANGED <<db, jobs, rest>>

StatusInserted(h, s) ==
  LET row == Len(statusLog) + 1 IN
  /\ Goes(h, s, "status_insert", IF handlers[h].told = {} THEN "status_save" ELSE "cancel_call")
  /\ s.status = handlers[h].status /\ s.told = handlers[h].told
  /\ s.snap = [handlers[h].snap EXCEPT !.statuses = @ \cup {row}]
  /\ statusLog' = Append(statusLog, handlers[h].status)
  /\ order' = [order EXCEPT !.statuses = @ \cup {row}]
  /\ UNCHANGED <<calls, responses, orderWorkers, tasks, jobs, rest>>

CallCancelled(h, s) ==
  /\ Goes(h, s, "cancel_call", "idle") /\ Fresh(s)
  /\ \/ \E w \in Workers :
          /\ calls' = Append(calls, [worker |-> w, line |-> "closed"])
          /\ order' = [order EXCEPT !.calls = @ \cup {Len(calls) + 1}]
          /\ responses' = [responses EXCEPT ![w] =
                Append(@, [call |-> Len(calls) + 1, flag |-> "connecting", retry |-> 1])]
     \/ UNCHANGED <<calls, order, responses>>
  /\ UNCHANGED <<statusLog, orderWorkers, tasks, jobs, rest>>

StatusSaved(h, s) ==
  /\ Goes(h, s, "status_save", AfterStatus(handlers[h].status)) /\ Fresh(s)
  /\ CanSave(handlers[h].snap) /\ Save(handlers[h].snap)
  /\ IF handlers[h].status = "failed" THEN Notify("unserved") ELSE UNCHANGED notices
  /\ UNCHANGED <<statusLog, calls, responses, orderWorkers, tasks, jobs, pendingUpdates, cancels, ends>>

StatusLost(h, s) ==
  /\ Goes(h, s, "status_save", "idle") /\ Fresh(s) /\ ~CanSave(handlers[h].snap)
  /\ UNCHANGED <<db, jobs, rest>>

SearchTaken(h, s) ==
  /\ jobs.search /\ jobs' = [jobs EXCEPT !.search = FALSE]
  /\ \/ Stopped(order) /\ handlers[h].at = "idle" /\ Goto(h, s) /\ s = handlers[h]
     \/ /\ ~Stopped(order) /\ Goes(h, s, "idle", "status_load") /\ s.status = "searching"
        /\ Fresh(s)
  /\ UNCHANGED <<db, rest>>

WillingFound(h, s) ==
  /\ \/ Goes(h, s, "search", "status_load") /\ s.status = "failed" /\ Fresh(s)
     \/ /\ Goes(h, s, "search", "search_save") /\ s.told = {}
        /\ \E willing \in WorkerLists : /\ willing # << >>
                                        /\ s.snap = [order EXCEPT !.potential = willing]
  /\ UNCHANGED <<db, jobs, rest>>

SearchSaved(h, s) ==
  /\ Goes(h, s, "search_save", "idle") /\ Fresh(s)
  /\ \/ /\ CanSave(handlers[h].snap)
        /\ order' = [handlers[h].snap EXCEPT !.statuses = order.statuses]
        /\ jobs' = [jobs EXCEPT !.call = @ + 1]
     \/ ~CanSave(handlers[h].snap) /\ UNCHANGED <<order, jobs>>
  /\ UNCHANGED <<statusLog, calls, responses, orderWorkers, tasks, rest>>

CallTaken(h, s) ==
  /\ jobs.call > 0 /\ jobs' = [jobs EXCEPT !.call = @ - 1]
  /\ \/ Stopped(order) /\ handlers[h].at = "idle" /\ Goto(h, s) /\ s = handlers[h]
     \/ ~Stopped(order) /\ Goes(h, s, "idle", "next_load") /\ Fresh(s)
  /\ UNCHANGED <<db, rest>>

NextLoaded(h, s) ==
  /\ \/ Goes(h, s, "next_load", "idle") /\ Fresh(s) /\ NobodyLeft(order) /\ Notify("unserved")
     \/ /\ Goes(h, s, "next_load", "idle") /\ Fresh(s) /\ UNCHANGED notices
        /\ ~NobodyLeft(order) /\ ~Exhausted(order) /\ order.potential = << >>
     \/ /\ Goes(h, s, "next_load", "status_load") /\ Fresh(s) /\ UNCHANGED notices
        /\ s.status = "failed" /\ Exhausted(order)
     \/ /\ Goes(h, s, "next_load", "next_calls") /\ s.told = {} /\ UNCHANGED notices
        /\ ~Exhausted(order) /\ order.potential # << >> /\ s.snap = order
        /\ s.worker = order.potential[(order.cursor % Len(order.potential)) + 1]
  /\ UNCHANGED <<db, jobs, pendingUpdates, cancels, ends>>

NextChosen(h, s) ==
  /\ \/ Goes(h, s, "next_calls", "next_skip") /\ Declined(handlers[h].worker)
     \/ Goes(h, s, "next_calls", "next_take")
  /\ s.snap = handlers[h].snap /\ s.worker = handlers[h].worker /\ s.told = handlers[h].told
  /\ UNCHANGED <<db, jobs, rest>>

NextSaved(h, s) ==
  /\ Fresh(s)
  /\ \/ /\ CanSave(handlers[h].snap)
        /\ \/ Goes(h, s, "next_skip", "next_load")
           \/ Goes(h, s, "next_take", "place") /\ s.worker = handlers[h].worker
        /\ order' = [handlers[h].snap EXCEPT !.cursor = @ + 1]
     \/ /\ ~CanSave(handlers[h].snap)
        /\ Goes(h, s, "next_skip", "idle") \/ Goes(h, s, "next_take", "idle")
        /\ UNCHANGED order
  /\ UNCHANGED <<statusLog, calls, responses, orderWorkers, tasks, jobs, rest>>

CallWasPlaced(h, s) ==
  LET c == Len(calls) + 1
      w == handlers[h].worker IN
  /\ Goes(h, s, "place", "idle") /\ Fresh(s)
  /\ \/ /\ calls' = Append(calls, [worker |-> w, line |-> "ringing"])
        /\ order' = [order EXCEPT !.calls = @ \cup {c}]
        /\ responses' = [responses EXCEPT ![w] =
                           Append(@, [call |-> c, flag |-> "connecting", retry |-> 1])]
        /\ jobs' = [jobs EXCEPT !.discard = @ \cup {c}]
     \/ "ivr" \in Faults /\ UNCHANGED <<calls, order, responses, jobs>>
  /\ UNCHANGED <<statusLog, orderWorkers, tasks, rest>>

DiscardChecked(h, c, s) ==
  /\ c \in jobs.discard /\ jobs' = [jobs EXCEPT !.discard = @ \ {c}]
  /\ \/ /\ handlers[h].at = "idle" /\ Goto(h, s) /\ s = handlers[h]
        /\ c \notin order.calls \/ Cancelled(order) \/ HasFlag(c, "accepted")
     \/ Goes(h, s, "idle", "verdict") /\ Fresh(s) /\ s.call = c /\ s.flag # "accepted"
  /\ UNCHANGED <<db, rest>>

VerdictGiven(h, s) ==
  /\ Goes(h, s, "verdict", "idle") /\ Fresh(s)
  /\ Respond(handlers[h].call, handlers[h].flag) /\ jobs' = [jobs EXCEPT !.call = @ + 1]
  /\ UNCHANGED <<statusLog, calls, orderWorkers, tasks, order, rest>>

Assigned(h, s) ==
  LET row == Len(orderWorkers) + 1 IN
  /\ s.told = handlers[h].told \/ s.told = {}
  /\ \/ /\ Goes(h, s, "assign", IF Package = "plain" THEN "respond" ELSE "task1")
        /\ s.call = handlers[h].call
        /\ notices' = notices \cup {"served"}
        /\ orderWorkers' = Append(orderWorkers, calls[handlers[h].call].worker)
        /\ order' = [order EXCEPT !.workers = @ \cup {row}]
        /\ pendingUpdates' = pendingUpdates + 1
     \/ /\ Goes(h, s, "assign", "idle") /\ Fresh(s)
        /\ UNCHANGED <<notices, orderWorkers, order, pendingUpdates>>
  /\ UNCHANGED <<statusLog, calls, responses, tasks, jobs, cancels, ends>>

TaskCreated(h, s) ==
  LET row == Len(tasks) + 1 IN
  /\ Goes(h, s, "task1", "task2") /\ s.call = handlers[h].call /\ s.told = handlers[h].told
  /\ tasks' = Append(tasks, "pending")
  /\ order' = [order EXCEPT !.tasks = @ \cup {row}]
  /\ UNCHANGED <<statusLog, calls, responses, orderWorkers, jobs, rest>>

TaskSaved(h, s) ==
  /\ Goes(h, s, "task2", "task3") \/ Goes(h, s, "task3", "respond")
  /\ s.call = handlers[h].call /\ (s.told = handlers[h].told \/ s.told = {})
  /\ tasks' = [t \in DOMAIN tasks |-> IF t \in handlers[h].tasks THEN "pending" ELSE tasks[t]]
  /\ order' = [order EXCEPT !.tasks = @ \cup handlers[h].tasks]
  /\ IF handlers[h].at = "task3" /\ Package = "instant"
     THEN jobs' = [jobs EXCEPT !.followUps = @ \cup {"confirmation"}]
     ELSE UNCHANGED jobs
  /\ UNCHANGED <<statusLog, calls, responses, orderWorkers, rest>>

AcceptanceRecorded(h, s) ==
  /\ Goes(h, s, "respond", IF Package = "plain" THEN "idle" ELSE "follow_up")
  /\ Fresh(s) /\ Respond(handlers[h].call, "accepted")
  /\ UNCHANGED <<statusLog, calls, orderWorkers, tasks, order, jobs, rest>>

FollowedUp(h, s) ==
  /\ Goes(h, s, "follow_up", "idle") /\ Fresh(s)
  /\ jobs'.search = jobs.search /\ jobs'.call = jobs.call /\ jobs'.discard = jobs.discard
  /\ jobs.followUps \subseteq jobs'.followUps
  /\ Package = "instant" /\ AcceptedBy(order) # {} => "eta50" \in jobs'.followUps
  /\ UNCHANGED <<db, rest>>

CancelAsked(h, s) ==
  /\ cancels < MaxCancels /\ cancels' = cancels + 1
  /\ \/ handlers[h].at = "idle" /\ Goto(h, s) /\ s = handlers[h]
     \/ Goes(h, s, "idle", "status_load") /\ s.status = "cancelled" /\ Fresh(s)
  /\ UNCHANGED <<db, jobs, pendingUpdates, notices, ends>>

TasksWereCancelled(h, s) ==
  /\ Goes(h, s, "cancel_tasks", "idle") /\ Fresh(s)
  /\ DOMAIN tasks' = DOMAIN tasks
  /\ UNCHANGED <<statusLog, calls, responses, orderWorkers, order, jobs, rest>>

AcceptPressed(h, c, s) ==
  /\ calls[c].line = "talking" /\ calls' = [calls EXCEPT ![c].line = "closed"]
  /\ \/ handlers[h].at = "idle" /\ Goto(h, s) /\ s = handlers[h]
     \/ Goes(h, s, "idle", "assign") /\ Fresh(s) /\ s.call = c
  /\ UNCHANGED <<statusLog, responses, orderWorkers, tasks, order, jobs, rest>>

UpdateTaken(h, s) ==
  /\ Goes(h, s, "idle", "status_insert")
  /\ s.snap = order /\ s.status = "accepted" /\ s.told = {}
  /\ pendingUpdates > 0 /\ pendingUpdates' = pendingUpdates - 1
  /\ UNCHANGED <<db, jobs, cancels, notices, ends>>

StepOf(h, s) ==
  \/ StatusLoaded(h, s) \/ StatusInserted(h, s) \/ CallCancelled(h, s) \/ StatusSaved(h, s)
  \/ StatusLost(h, s) \/ SearchTaken(h, s) \/ WillingFound(h, s) \/ SearchSaved(h, s)
  \/ CallTaken(h, s) \/ NextLoaded(h, s) \/ NextChosen(h, s) \/ NextSaved(h, s)
  \/ CallWasPlaced(h, s) \/ VerdictGiven(h, s) \/ Assigned(h, s) \/ UpdateTaken(h, s)
  \/ TaskCreated(h, s) \/ TaskSaved(h, s) \/ AcceptanceRecorded(h, s) \/ FollowedUp(h, s)
  \/ CancelAsked(h, s) \/ TasksWereCancelled(h, s)
  \/ \E c \in jobs.discard : DiscardChecked(h, c, s)
  \/ \E c \in DOMAIN calls : AcceptPressed(h, c, s)

(***************************************************************************)
(* Every action does one of these.                                         *)
(***************************************************************************)
\* The fields of the records that actions send a handler to.
LEMMA IdleFields ==
  /\ Fresh(Idle) /\ Idle.at = "idle"
  /\ \A a : Fresh([Idle EXCEPT !.at = a]) /\ [Idle EXCEPT !.at = a].at = a
  /\ \A a, p : LET s == [Idle EXCEPT !.at = a, !.tasks = p] IN Fresh(s) /\ s.at = a
  /\ \A a, c : LET s == [Idle EXCEPT !.at = a, !.call = c] IN
               Fresh(s) /\ s.at = a /\ s.call = c
  BY DEF Fresh, Idle

\* A handler that goes on with what it holds.
LEMMA AdvanceFields ==
  ASSUME TypeOK, NEW h \in Slots, NEW a, Advance(h, a)
  PROVE  \E s : /\ Goto(h, s) /\ s.at = a /\ s.snap = handlers[h].snap
                /\ s.worker = handlers[h].worker /\ s.told = handlers[h].told
                /\ s.call = handlers[h].call
<1>1. PICK s : s = [handlers[h] EXCEPT !.at = a]
  OBVIOUS
<1>2. handlers[h] \in Handler
  BY DEF TypeOK
<1>3. Goto(h, s)
  BY <1>1 DEF Advance, Goto, TypeOK
<1>4. QED
  BY <1>1, <1>2, <1>3 DEF Handler

\* A handler that stays where it is.
LEMMA StayFields ==
  ASSUME TypeOK, NEW h \in Slots, Free(h), UNCHANGED handlers
  PROVE  handlers[h].at = "idle" /\ Goto(h, handlers[h])
  BY DEF TypeOK, Goto, Free

LEMMA StatusSteps ==
  ASSUME TypeOK, RowsExist, NEW h \in Slots,
         StatusLoad(h) \/ StatusInsert(h) \/ CancelCall(h) \/ StatusSave(h)
  PROVE  \E s : StepOf(h, s)
<1>1. CASE StatusLoad(h)
  <2>1. PICK s : s = Loaded(handlers[h].status, handlers[h].tasks)
    OBVIOUS
  <2>2. /\ s.at = "status_insert" /\ s.snap = order /\ s.status = handlers[h].status
        /\ s.told # {} => s.status = "cancelled" /\ s.told = AcceptedBy(order)
    BY <2>1 DEF Loaded, Idle
  <2>3. StatusLoaded(h, s)
    BY <1>1, <2>1, <2>2 DEF StatusLoaded, Goes, StatusLoad, Standing
  <2>4. QED
    BY <2>3 DEF StepOf
<1>2. CASE StatusInsert(h)
  <2>1. PICK s : s = [handlers[h] EXCEPT
                        !.snap.statuses = @ \cup {Len(statusLog) + 1},
                        !.at = IF handlers[h].told = {} THEN "status_save" ELSE "cancel_call"]
    OBVIOUS
  <2>2. handlers[h] \in Handler
    BY DEF TypeOK
  <2>3. /\ s.at = IF handlers[h].told = {} THEN "status_save" ELSE "cancel_call"
        /\ s.status = handlers[h].status /\ s.told = handlers[h].told
        /\ s.snap = [handlers[h].snap EXCEPT !.statuses = @ \cup {Len(statusLog) + 1}]
    BY <2>1, <2>2 DEF Handler
  <2>4. StatusInserted(h, s)
    BY <1>2, <2>1, <2>3 DEF StatusInserted, Goes, StatusInsert, Standing
  <2>5. QED
    BY <2>4 DEF StepOf
<1>3. CASE CancelCall(h)
  <2>1. handlers[h].told \subseteq Workers
    BY DEF TypeOK, Handler
  <2>2. CallCancelled(h, Idle)
    BY <1>3, <2>1, IdleFields DEF CallCancelled, CancelCall, Goes, Finish, Standing
  <2>3. QED
    BY <2>2 DEF StepOf
<1>4. CASE StatusSave(h)
  <2>1. CASE CanSave(handlers[h].snap)
    <3>1. PICK p : Goto(h, [Idle EXCEPT !.at = AfterStatus(handlers[h].status), !.tasks = p])
      BY <1>4, <2>1 DEF StatusSave
    <3>2. StatusSaved(h, [Idle EXCEPT !.at = AfterStatus(handlers[h].status), !.tasks = p])
      BY <1>4, <2>1, <3>1, IdleFields DEF StatusSaved, StatusSave, Goes, Standing
    <3>3. QED
      BY <3>2 DEF StepOf
  <2>2. CASE ~CanSave(handlers[h].snap)
    <3>1. StatusLost(h, Idle)
      BY <1>4, <2>2, IdleFields DEF StatusLost, StatusSave, Goes, Standing, Finish, db, rest
    <3>2. QED
      BY <3>1 DEF StepOf
  <2>3. QED
    BY <2>1, <2>2
<1>5. QED
  BY <1>1, <1>2, <1>3, <1>4

LEMMA SearchSteps ==
  ASSUME TypeOK, RowsExist, NEW h \in Slots,
         SearchWorker(h) \/ FindWilling(h) \/ SearchSave(h) \/ CallWorker(h)
  PROVE  \E s : StepOf(h, s)
<1>1. CASE SearchWorker(h)
  <2>1. CASE Stopped(order)
    <3>1. SearchTaken(h, handlers[h])
      BY <1>1, <2>1, StayFields DEF SearchTaken, SearchWorker, Free
    <3>2. QED
      BY <3>1 DEF StepOf
  <2>2. CASE ~Stopped(order)
    <3>1. PICK s : s = [Idle EXCEPT !.at = "status_load", !.status = "searching"]
      OBVIOUS
    <3>2. Fresh(s) /\ s.at = "status_load" /\ s.status = "searching"
      BY <3>1 DEF Fresh, Idle
    <3>3. SearchTaken(h, s)
      BY <1>1, <2>2, <3>1, <3>2 DEF SearchTaken, SearchWorker, Free, Goes
    <3>4. QED
      BY <3>3 DEF StepOf
  <2>3. QED
    BY <2>1, <2>2
<1>2. CASE FindWilling(h)
  <2>1. PICK willing \in WorkerLists :
          Goto(h, IF willing = << >>
                  THEN [Idle EXCEPT !.at = "status_load", !.status = "failed"]
                  ELSE [Idle EXCEPT !.at = "search_save",
                                    !.snap = [order EXCEPT !.potential = willing]])
    BY <1>2 DEF FindWilling
  <2>2. CASE willing = << >>
    <3>1. PICK s : s = [Idle EXCEPT !.at = "status_load", !.status = "failed"]
      OBVIOUS
    <3>2. Fresh(s) /\ s.at = "status_load" /\ s.status = "failed"
      BY <3>1 DEF Fresh, Idle
    <3>3. WillingFound(h, s)
      BY <1>2, <2>1, <2>2, <3>1, <3>2 DEF WillingFound, FindWilling, Goes, Standing
    <3>4. QED
      BY <3>3 DEF StepOf
  <2>3. CASE willing # << >>
    <3>1. PICK o : o = [order EXCEPT !.potential = willing]
      OBVIOUS
    <3>2. PICK s : s = [Idle EXCEPT !.at = "search_save", !.snap = o]
      OBVIOUS
    <3>3. s.told = {} /\ s.at = "search_save" /\ s.snap = o
      BY <3>2 DEF Fresh, Idle
    <3>4. WillingFound(h, s)
      BY <1>2, <2>1, <2>3, <3>1, <3>2, <3>3 DEF WillingFound, FindWilling, Goes, Standing
    <3>5. QED
      BY <3>4 DEF StepOf
  <2>4. QED
    BY <2>2, <2>3
<1>3. CASE SearchSave(h)
  <2>1. CanSave([handlers[h].snap EXCEPT !.statuses = order.statuses]) <=> CanSave(handlers[h].snap)
    BY HandlerNow DEF CanSave, OrderRow
  <2>2. SearchSaved(h, Idle)
    BY <1>3, <2>1, IdleFields DEF SearchSaved, SearchSave, Goes, Finish, Standing, Save
  <2>3. QED
    BY <2>2 DEF StepOf
<1>4. CASE CallWorker(h)
  <2>1. CASE Stopped(order)
    <3>1. CallTaken(h, handlers[h])
      BY <1>4, <2>1, StayFields DEF CallTaken, CallWorker, Free
    <3>2. QED
      BY <3>1 DEF StepOf
  <2>2. CASE ~Stopped(order)
    <3>1. CallTaken(h, [Idle EXCEPT !.at = "next_load"])
      BY <1>4, <2>2, IdleFields DEF CallTaken, CallWorker, Free, Goes
    <3>2. QED
      BY <3>1 DEF StepOf
  <2>3. QED
    BY <2>1, <2>2
<1>5. QED
  BY <1>1, <1>2, <1>3, <1>4

LEMMA NextSteps ==
  ASSUME TypeOK, RowsExist, NEW h \in Slots,
         NextLoad(h) \/ NextCalls(h) \/ NextSave(h) \/ PlaceCall(h)
  PROVE  \E s : StepOf(h, s)
<1>1. CASE NextLoad(h)
  <2>1. CASE NobodyLeft(order)
    <3>1. NextLoaded(h, Idle)
      BY <1>1, <2>1, IdleFields DEF NextLoaded, NextLoad, Goes, Finish, Standing
    <3>2. QED
      BY <3>1 DEF StepOf
  <2>2. CASE ~NobodyLeft(order) /\ Exhausted(order)
    <3>1. PICK s : s = [Idle EXCEPT !.at = "status_load", !.status = "failed"]
      OBVIOUS
    <3>2. Fresh(s) /\ s.at = "status_load" /\ s.status = "failed"
      BY <3>1 DEF Fresh, Idle
    <3>3. NextLoaded(h, s)
      BY <1>1, <2>2, <3>1, <3>2 DEF NextLoaded, NextLoad, Goes, Standing
    <3>4. QED
      BY <3>3 DEF StepOf
  <2>3. CASE ~NobodyLeft(order) /\ ~Exhausted(order) /\ order.potential = << >>
    <3>1. NextLoaded(h, Idle)
      BY <1>1, <2>3, IdleFields DEF NextLoaded, NextLoad, Goes, Standing
    <3>2. QED
      BY <3>1 DEF StepOf
  <2>4. CASE ~NobodyLeft(order) /\ ~Exhausted(order) /\ order.potential # << >>
    <3>1. PICK w : w = order.potential[(order.cursor % Len(order.potential)) + 1]
      OBVIOUS
    <3>2. PICK s : s = [Idle EXCEPT !.at = "next_calls", !.snap = order, !.worker = w]
      OBVIOUS
    <3>3. s.told = {} /\ s.at = "next_calls" /\ s.snap = order /\ s.worker = w
      BY <3>2 DEF Fresh, Idle
    <3>4. NextLoaded(h, s)
      BY <1>1, <2>4, <3>1, <3>2, <3>3 DEF NextLoaded, NextLoad, Goes, Standing
    <3>5. QED
      BY <3>4 DEF StepOf
  <2>5. QED
    BY <2>1, <2>2, <2>3, <2>4
<1>2. CASE NextCalls(h)
  <2>1. PICK a : /\ Advance(h, a)
                 /\ a = IF Declined(handlers[h].worker) THEN "next_skip" ELSE "next_take"
    BY <1>2 DEF NextCalls
  <2>2. PICK s : /\ Goto(h, s) /\ s.at = a /\ s.snap = handlers[h].snap
                 /\ s.worker = handlers[h].worker /\ s.told = handlers[h].told
    BY <2>1, AdvanceFields
  <2>3. NextChosen(h, s)
    BY <1>2, <2>1, <2>2 DEF NextChosen, NextCalls, Goes, Standing
  <2>4. QED
    BY <2>3 DEF StepOf
<1>3. CASE NextSave(h)
  <2>1. PICK o : o = [handlers[h].snap EXCEPT !.cursor = @ + 1]
    OBVIOUS
  <2>2. CanSave(o) <=> CanSave(handlers[h].snap)
    BY <2>1, HandlerNow DEF CanSave, OrderRow
  <2>3. CASE CanSave(o) /\ Standing(h, "next_skip")
    <3>1. NextSaved(h, [Idle EXCEPT !.at = "next_load"])
      BY <1>3, <2>1, <2>2, <2>3, IdleFields DEF NextSaved, NextSave, Save, Goes, Standing
    <3>2. QED
      BY <3>1 DEF StepOf
  <2>4. CASE CanSave(o) /\ Standing(h, "next_take")
    <3>1. PICK s : s = [Idle EXCEPT !.at = "place", !.worker = handlers[h].worker]
      OBVIOUS
    <3>2. Fresh(s) /\ s.at = "place" /\ s.worker = handlers[h].worker
      BY <3>1 DEF Fresh, Idle
    <3>3. NextSaved(h, s)
      BY <1>3, <2>1, <2>2, <2>4, <3>1, <3>2 DEF NextSaved, NextSave, Save, Goes, Standing
    <3>4. QED
      BY <3>3 DEF StepOf
  <2>5. CASE ~CanSave(o)
    <3>1. NextSaved(h, Idle)
      BY <1>3, <2>1, <2>2, <2>5, IdleFields DEF NextSaved, NextSave, Finish, Goes, Standing
    <3>2. QED
      BY <3>1 DEF StepOf
  <2>6. QED
    BY <1>3, <2>3, <2>4, <2>5 DEF NextSave
<1>4. CASE PlaceCall(h)
  <2>1. CallWasPlaced(h, Idle)
    BY <1>4, IdleFields DEF CallWasPlaced, PlaceCall, Goes, Finish, Standing
  <2>2. QED
    BY <2>1 DEF StepOf
<1>5. QED
  BY <1>1, <1>2, <1>3, <1>4

LEMMA AnswerSteps ==
  ASSUME TypeOK, RowsExist, NEW h \in Slots,
         \/ Verdict(h) \/ Assign(h) \/ AcceptedUpdate(h)
         \/ \E c \in jobs.discard : DiscardCheck(h, c)
         \/ \E c \in DOMAIN calls : AcceptOrder(h, c)
  PROVE  \E s : StepOf(h, s)
<1>1. CASE Verdict(h)
  <2>1. VerdictGiven(h, Idle)
    BY <1>1, IdleFields DEF VerdictGiven, Verdict, Goes, Finish, Standing
  <2>2. QED
    BY <2>1 DEF StepOf
<1>2. CASE Assign(h)
  <2>1. CASE Finish(h) /\ UNCHANGED <<notices, orderWorkers, order, pendingUpdates>>
    <3>1. Assigned(h, Idle)
      BY <1>2, <2>1, IdleFields DEF Assigned, Assign, Goes, Finish, Standing, Fresh
    <3>2. QED
      BY <3>1 DEF StepOf
  <2>2. CASE /\ Advance(h, IF Package = "plain" THEN "respond" ELSE "task1")
             /\ notices' = notices \cup {"served"}
             /\ orderWorkers' = Append(orderWorkers, calls[handlers[h].call].worker)
             /\ order' = [order EXCEPT !.workers = @ \cup {Len(orderWorkers) + 1}]
             /\ pendingUpdates' = pendingUpdates + 1
    <3>1. PICK s : /\ Goto(h, s) /\ s.at = IF Package = "plain" THEN "respond" ELSE "task1"
                   /\ s.told = handlers[h].told /\ s.call = handlers[h].call
      BY <2>2, AdvanceFields
    <3>2. Assigned(h, s)
      BY <1>2, <2>2, <3>1 DEF Assigned, Assign, Goes, Standing
    <3>3. QED
      BY <3>2 DEF StepOf
  <2>3. QED
    BY <1>2, <2>1, <2>2 DEF Assign
<1>3. CASE AcceptedUpdate(h)
  <2>1. PICK s : s = Loaded("accepted", {})
    OBVIOUS
  <2>2. s.at = "status_insert" /\ s.snap = order /\ s.status = "accepted" /\ s.told = {}
    BY <2>1 DEF Loaded, Idle
  <2>3. UpdateTaken(h, s)
    BY <1>3, <2>1, <2>2 DEF UpdateTaken, Goes, AcceptedUpdate, Free
  <2>4. QED
    BY <2>3 DEF StepOf
<1>4. ASSUME NEW c \in jobs.discard, DiscardCheck(h, c) PROVE \E s : StepOf(h, s)
  <2>1. CASE UNCHANGED handlers /\ (c \notin order.calls \/ Cancelled(order) \/ HasFlag(c, "accepted"))
    <3>1. DiscardChecked(h, c, handlers[h])
      BY <1>4, <2>1, StayFields DEF DiscardChecked, DiscardCheck, Free
    <3>2. QED
      BY <3>1 DEF StepOf
  <2>2. ASSUME NEW f \in {"rejected", "not_reachable"},
               Goto(h, [Idle EXCEPT !.at = "verdict", !.call = c, !.flag = f])
        PROVE  \E s : StepOf(h, s)
    <3>1. PICK s : s = [Idle EXCEPT !.at = "verdict", !.call = c, !.flag = f]
      OBVIOUS
    <3>2. Fresh(s) /\ s.at = "verdict" /\ s.call = c /\ s.flag = f
      BY <3>1 DEF Fresh, Idle
    <3>3. DiscardChecked(h, c, s)
      BY <1>4, <2>2, <3>1, <3>2 DEF DiscardChecked, DiscardCheck, Goes, Free
    <3>4. QED
      BY <3>3 DEF StepOf
  <2>3. QED
    BY <1>4, <2>1, <2>2 DEF DiscardCheck
<1>5. ASSUME NEW c \in DOMAIN calls, AcceptOrder(h, c) PROVE \E s : StepOf(h, s)
  <2>1. CASE UNCHANGED handlers
    <3>1. AcceptPressed(h, c, handlers[h])
      BY <1>5, <2>1, StayFields DEF AcceptPressed, AcceptOrder, Free
    <3>2. QED
      BY <3>1 DEF StepOf
  <2>2. CASE Goto(h, [Idle EXCEPT !.at = "assign", !.call = c])
    <3>1. PICK s : s = [Idle EXCEPT !.at = "assign", !.call = c]
      OBVIOUS
    <3>2. Fresh(s) /\ s.at = "assign" /\ s.call = c
      BY <3>1 DEF Fresh, Idle
    <3>3. AcceptPressed(h, c, s)
      BY <1>5, <2>2, <3>1, <3>2 DEF AcceptPressed, AcceptOrder, Goes, Free
    <3>4. QED
      BY <3>3 DEF StepOf
  <2>3. QED
    BY <1>5, <2>1, <2>2 DEF AcceptOrder
<1>6. QED
  BY <1>1, <1>2, <1>3, <1>4, <1>5

LEMMA TaskSteps ==
  ASSUME TypeOK, RowsExist, NEW h \in Slots,
         \/ CreateTask(h) \/ SaveTaskAgain(h) \/ RespondAccepted(h) \/ FollowUp(h)
         \/ CancelOrder(h) \/ CancelTasks(h)
  PROVE  \E s : StepOf(h, s)
<1>1. CASE CreateTask(h)
  <2>1. PICK s : s = [handlers[h] EXCEPT !.at = "task2", !.tasks = {Len(tasks) + 1}]
    OBVIOUS
  <2>2. handlers[h] \in Handler
    BY DEF TypeOK
  <2>3. s.at = "task2" /\ s.call = handlers[h].call /\ s.told = handlers[h].told
    BY <2>1, <2>2 DEF Handler
  <2>4. TaskCreated(h, s)
    BY <1>1, <2>1, <2>3 DEF TaskCreated, CreateTask, Goes, Standing
  <2>5. QED
    BY <2>4 DEF StepOf
<1>2. CASE SaveTaskAgain(h)
  <2>1. CASE Standing(h, "task2")
    <3>1. Advance(h, "task3") /\ UNCHANGED jobs
      BY <1>2, <2>1 DEF SaveTaskAgain
    <3>2. PICK s : /\ Goto(h, s) /\ s.at = "task3" /\ s.told = handlers[h].told
                   /\ s.call = handlers[h].call
      BY <3>1, AdvanceFields
    <3>3. TaskSaved(h, s)
      BY <1>2, <2>1, <3>1, <3>2 DEF TaskSaved, SaveTaskAgain, Goes, Standing
    <3>4. QED
      BY <3>3 DEF StepOf
  <2>2. CASE Standing(h, "task3")
    <3>1. TaskSaved(h, [Idle EXCEPT !.at = "respond", !.call = handlers[h].call])
      BY <1>2, <2>2, IdleFields DEF TaskSaved, SaveTaskAgain, Goes, Standing, Fresh
    <3>2. QED
      BY <3>1 DEF StepOf
  <2>3. QED
    BY <1>2, <2>1, <2>2 DEF SaveTaskAgain
<1>3. CASE RespondAccepted(h)
  <2>1. CASE Package = "plain"
    <3>1. AcceptanceRecorded(h, Idle)
      BY <1>3, <2>1, IdleFields DEF AcceptanceRecorded, RespondAccepted, Goes, Finish, Standing
    <3>2. QED
      BY <3>1 DEF StepOf
  <2>2. CASE Package # "plain"
    <3>1. AcceptanceRecorded(h, [Idle EXCEPT !.at = "follow_up"])
      BY <1>3, <2>2, IdleFields DEF AcceptanceRecorded, RespondAccepted, Goes, Standing
    <3>2. QED
      BY <3>1 DEF StepOf
  <2>3. QED
    BY <2>1, <2>2
<1>4. CASE FollowUp(h)
  <2>1. /\ jobs'.search = jobs.search /\ jobs'.call = jobs.call /\ jobs'.discard = jobs.discard
        /\ jobs.followUps \subseteq jobs'.followUps
        /\ Package = "instant" /\ AcceptedBy(order) # {} => "eta50" \in jobs'.followUps
    BY <1>4 DEF FollowUp, TypeOK
  <2>2. FollowedUp(h, Idle)
    BY <1>4, <2>1, IdleFields DEF FollowedUp, FollowUp, Goes, Finish, Standing
  <2>3. QED
    BY <2>2 DEF StepOf
<1>5. CASE CancelOrder(h)
  <2>1. CASE UNCHANGED handlers
    <3>1. CancelAsked(h, handlers[h])
      BY <1>5, <2>1, StayFields DEF CancelAsked, CancelOrder, Free
    <3>2. QED
      BY <3>1 DEF StepOf
  <2>2. ASSUME NEW p, Goto(h, [Idle EXCEPT !.at = "status_load", !.status = "cancelled",
                                           !.tasks = p])
        PROVE  \E s : StepOf(h, s)
    <3>1. PICK s : s = [Idle EXCEPT !.at = "status_load", !.status = "cancelled", !.tasks = p]
      OBVIOUS
    <3>2. Fresh(s) /\ s.at = "status_load" /\ s.status = "cancelled"
      BY <3>1 DEF Fresh, Idle
    <3>3. CancelAsked(h, s)
      BY <1>5, <2>2, <3>1, <3>2 DEF CancelAsked, CancelOrder, Goes, Free
    <3>4. QED
      BY <3>3 DEF StepOf
  <2>3. QED
    BY <1>5, <2>1, <2>2 DEF CancelOrder
<1>6. CASE CancelTasks(h)
  <2>1. TasksWereCancelled(h, Idle)
    BY <1>6, IdleFields DEF TasksWereCancelled, CancelTasks, Goes, Finish, Standing
  <2>2. QED
    BY <2>1 DEF StepOf
<1>7. QED
  BY <1>1, <1>2, <1>3, <1>4, <1>5, <1>6

\* No step of a handler is an end of the process.
LEMMA StepGoesOn ==
  ASSUME NEW h \in Slots, NEW s, StepOf(h, s)
  PROVE  UNCHANGED ends
  BY DEF StepOf, StatusLoaded, StatusInserted, CallCancelled, StatusSaved, StatusLost,
         SearchTaken, WillingFound, SearchSaved, CallTaken, NextLoaded, NextChosen, NextSaved,
         CallWasPlaced, DiscardChecked, VerdictGiven, Assigned, UpdateTaken, TaskCreated,
         TaskSaved, AcceptanceRecorded, FollowedUp, CancelAsked, TasksWereCancelled,
         AcceptPressed, rest

LEMMA AllSteps ==
  ASSUME TypeOK, RowsExist, [Next]_vars
  PROVE  \/ \E h \in Slots : \E s : StepOf(h, s)
         \/ \E c \in DOMAIN calls : ReceiveCall(c) \/ RejectOrder(c)
         \/ UNCHANGED vars
         \/ \E h \in Slots : ProcessEnd(h)
<1>1. ASSUME NEW h \in Slots, Resume(h), ~ProcessEnd(h) PROVE \E s : StepOf(h, s)
  BY <1>1, StatusSteps, SearchSteps, NextSteps, AnswerSteps, TaskSteps DEF Resume
<1>2. ASSUME NEW h \in Slots, StartJob(h) PROVE \E s : StepOf(h, s)
  BY <1>2, SearchSteps, AnswerSteps DEF StartJob
<1>3. QED
  BY <1>1, <1>2, TaskSteps, AnswerSteps DEF Next, System, People

\* Until the process ends.
LEMMA Steps ==
  ASSUME TypeOK, RowsExist, [Next]_vars, UNCHANGED ends
  PROVE  \/ \E h \in Slots : \E s : StepOf(h, s)
         \/ \E c \in DOMAIN calls : ReceiveCall(c) \/ RejectOrder(c)
         \/ UNCHANGED vars
<1>1. ASSUME NEW h \in Slots, ProcessEnd(h) PROVE FALSE
  BY <1>1 DEF ProcessEnd, TypeOK
<1>2. QED
  BY <1>1, AllSteps

LEMMA EndsCount ==
  ASSUME TypeOK, RowsExist, [Next]_vars
  PROVE  UNCHANGED ends \/ (ends' = ends + 1 /\ \E h \in Slots : ProcessEnd(h))
<1>1. ASSUME NEW h \in Slots, ProcessEnd(h) PROVE ends' = ends + 1
  BY <1>1 DEF ProcessEnd
<1>2. QED
  BY <1>1, AllSteps, StepGoesOn DEF ReceiveCall, RejectOrder, vars, rest

\* A process that has not ended by now had not ended before.
LEMMA NotEndedYet ==
  ASSUME TypeOK, RowsExist, [Next]_vars, ends' = 0
  PROVE  ends = 0 /\ UNCHANGED ends
<1>1. ends' = ends \/ ends' = ends + 1
  BY EndsCount
<1>2. ends \in Nat
  BY DEF TypeOK
<1>3. QED
  BY <1>1, <1>2

\* The handler that steps is then s, and the others are what they were.
LEMMA Moved ==
  ASSUME TypeOK, NEW h \in Slots, NEW s, StepOf(h, s)
  PROVE  Goto(h, s) /\ handlers'[h] = s /\ \A k \in Slots \ {h} : handlers'[k] = handlers[k]
<1>1. Goto(h, s)
  BY DEF StepOf, Goes, StatusLoaded, StatusInserted, CallCancelled, StatusSaved, StatusLost,
         SearchTaken, WillingFound, SearchSaved, CallTaken, NextLoaded, NextChosen, NextSaved,
         CallWasPlaced, DiscardChecked, VerdictGiven, Assigned, UpdateTaken, TaskCreated,
         TaskSaved, AcceptanceRecorded, FollowedUp, CancelAsked, TasksWereCancelled,
         AcceptPressed
<1>2. QED
  BY <1>1 DEF Goto, TypeOK

(***************************************************************************)
(* No row of the log, of the calls or of the responses is ever changed,    *)
(* but for a line that closes.                                             *)
(***************************************************************************)
LogKept == \A i \in DOMAIN statusLog : i \in DOMAIN statusLog' /\ statusLog'[i] = statusLog[i]

CallsKept ==
  \A c \in DOMAIN calls :
     /\ c \in DOMAIN calls' /\ calls'[c].worker = calls[c].worker
     /\ calls[c].line = "closed" => calls'[c].line = "closed"

ResponsesKept ==
  \A w \in Workers : \A i \in DOMAIN responses[w] :
     i \in DOMAIN responses'[w] /\ responses'[w][i] = responses[w][i]

LEMMA RespondKeeps ==
  ASSUME TypeOK, NEW c \in DOMAIN calls, NEW f, Respond(c, f)
  PROVE  ResponsesKept
<1>1. PICK v : v = calls[c].worker
  OBVIOUS
<1>2. PICK r : r = [call |-> c, flag |-> f, retry |-> RetryCount(c, f)]
  OBVIOUS
<1>3. responses' = [responses EXCEPT ![v] = Append(@, r)]
  BY <1>1, <1>2 DEF Respond
<1>4. ASSUME NEW w \in Workers, NEW i \in DOMAIN responses[w]
      PROVE  i \in DOMAIN responses'[w] /\ responses'[w][i] = responses[w][i]
  <2>1. responses[w] \in Seq([call : Nat, flag : Flags, retry : Nat])
    BY DEF TypeOK
  <2>2. responses'[w] = IF w = v THEN Append(responses[w], r) ELSE responses[w]
    BY <1>3 DEF TypeOK
  <2>3. QED
    BY <2>1, <2>2
<1>5. QED
  BY <1>4 DEF ResponsesKept

LEMMA PlacedKeeps ==
  ASSUME TypeOK, NEW w \in Workers, NEW l \in Lines, NEW r,
         calls' = Append(calls, [worker |-> w, line |-> l]),
         responses' = [responses EXCEPT ![w] = Append(@, r)]
  PROVE  /\ CallsKept /\ ResponsesKept
         /\ DOMAIN calls' = DOMAIN calls \cup {Len(calls) + 1} /\ Len(calls) + 1 \notin DOMAIN calls
         /\ calls'[Len(calls) + 1].worker = w /\ calls'[Len(calls) + 1].line = l
<1>1. ResponsesKept
  BY DEF ResponsesKept, TypeOK
<1>2. PICK c : c = [worker |-> w, line |-> l]
  OBVIOUS
<1>3. calls' = Append(calls, c) /\ c.worker = w /\ c.line = l
  BY <1>2
<1>4. calls \in Seq([worker : Workers, line : Lines])
  BY DEF TypeOK
<1>5. /\ DOMAIN calls' = DOMAIN calls \cup {Len(calls) + 1} /\ Len(calls) + 1 \notin DOMAIN calls
      /\ calls'[Len(calls) + 1] = c /\ \A d \in DOMAIN calls : calls'[d] = calls[d]
  BY <1>3, <1>4
<1>6. CallsKept
  BY <1>5 DEF CallsKept
<1>7. QED
  BY <1>1, <1>3, <1>5, <1>6

LEMMA LineKeeps ==
  ASSUME TypeOK, NEW c \in DOMAIN calls, calls[c].line # "closed", NEW l \in Lines,
         calls' = [calls EXCEPT ![c].line = l]
  PROVE  /\ CallsKept /\ DOMAIN calls' = DOMAIN calls
         /\ \A d \in DOMAIN calls : calls'[d].worker = calls[d].worker
         /\ calls'[c].line = l /\ \A d \in DOMAIN calls \ {c} : calls'[d] = calls[d]
<1>1. calls[c] \in [worker : Workers, line : Lines]
  BY CallTyped
<1>2. calls'[c].worker = calls[c].worker /\ calls'[c].line = l
  BY <1>1
<1>3. DOMAIN calls' = DOMAIN calls /\ \A d \in DOMAIN calls \ {c} : calls'[d] = calls[d]
  OBVIOUS
<1>4. QED
  BY <1>2, <1>3 DEF CallsKept

LEMMA HistoryKept ==
  ASSUME TypeOK, RowsExist, [Next]_vars
  PROVE  LogKept /\ CallsKept /\ ResponsesKept
<1>1. ASSUME UNCHANGED statusLog PROVE LogKept
  BY <1>1 DEF LogKept
<1>2. ASSUME UNCHANGED <<calls, responses>> PROVE CallsKept /\ ResponsesKept
  BY <1>2 DEF CallsKept, ResponsesKept
<1>3. ASSUME NEW h \in Slots, NEW s, StepOf(h, s) PROVE LogKept /\ CallsKept /\ ResponsesKept
  <2>1. handlers[h] \in Handler /\ HandlerRows(handlers[h])
    BY HandlerNow
  <2>2. CASE StatusInserted(h, s)
    <3>1. statusLog' = Append(statusLog, handlers[h].status) /\ UNCHANGED <<calls, responses>>
      BY <2>2 DEF StatusInserted
    <3>2. LogKept
      BY <3>1 DEF LogKept, TypeOK
    <3>3. QED
      BY <1>2, <3>1, <3>2
  <2>3. CASE CallCancelled(h, s)
    <3>1. UNCHANGED statusLog /\ "closed" \in Lines
      BY <2>3 DEF CallCancelled, Lines
    <3>2. CASE UNCHANGED <<calls, order, responses>>
      BY <1>1, <1>2, <3>1, <3>2
    <3>3. ASSUME NEW w \in Workers,
                 calls' = Append(calls, [worker |-> w, line |-> "closed"]),
                 responses' = [responses EXCEPT ![w] = Append(@,
                   [call |-> Len(calls) + 1, flag |-> "connecting", retry |-> 1])]
          PROVE  CallsKept /\ ResponsesKept
      BY <3>1, <3>3, PlacedKeeps
    <3>4. QED
      BY <1>1, <2>3, <3>1, <3>2, <3>3 DEF CallCancelled
  <2>4. CASE CallWasPlaced(h, s)
    <3>1. UNCHANGED statusLog /\ "ringing" \in Lines /\ handlers[h].worker \in Workers
      BY <2>1, <2>4 DEF CallWasPlaced, Lines, HandlerRows, Goes
    <3>2. QED
      BY <1>1, <1>2, <2>4, <3>1, PlacedKeeps DEF CallWasPlaced
  <2>5. CASE VerdictGiven(h, s) \/ AcceptanceRecorded(h, s)
    <3>1. handlers[h].call \in DOMAIN calls /\ UNCHANGED <<statusLog, calls>>
      BY <2>1, <2>5 DEF VerdictGiven, AcceptanceRecorded, HandlerRows, Goes
    <3>2. CallsKept
      BY <3>1 DEF CallsKept
    <3>3. QED
      BY <1>1, <2>5, <3>1, <3>2, RespondKeeps DEF VerdictGiven, AcceptanceRecorded
  <2>6. ASSUME NEW c \in DOMAIN calls, AcceptPressed(h, c, s)
        PROVE  LogKept /\ CallsKept /\ ResponsesKept
    <3>1. UNCHANGED <<statusLog, responses>> /\ "closed" \in Lines
      BY <2>6 DEF AcceptPressed, Lines
    <3>2. ResponsesKept
      BY <3>1 DEF ResponsesKept
    <3>3. QED
      BY <1>1, <2>6, <3>1, <3>2, LineKeeps DEF AcceptPressed
  <2>7. ASSUME UNCHANGED <<statusLog, calls, responses>>
        PROVE  LogKept /\ CallsKept /\ ResponsesKept
    BY <1>1, <1>2, <2>7
  <2>8. QED
    BY <1>3, <2>2, <2>3, <2>4, <2>5, <2>6, <2>7
    DEF StepOf, StatusLoaded, StatusSaved, StatusLost, SearchTaken, WillingFound, SearchSaved,
        CallTaken, NextLoaded, NextChosen, NextSaved, DiscardChecked, Assigned, UpdateTaken,
        TaskCreated, TaskSaved, FollowedUp, CancelAsked, TasksWereCancelled, db
<1>4. ASSUME NEW c \in DOMAIN calls, ReceiveCall(c) \/ RejectOrder(c)
      PROVE  LogKept /\ CallsKept /\ ResponsesKept
  <2>1. UNCHANGED statusLog /\ {"talking", "closed"} \subseteq Lines /\ "closed" # "talking"
    BY <1>4 DEF ReceiveCall, RejectOrder, Lines
  <2>2. CallsKept
    BY <1>4, <2>1, LineKeeps DEF ReceiveCall, RejectOrder
  <2>3. ResponsesKept
    <3>1. CASE UNCHANGED responses
      BY <3>1 DEF ResponsesKept
    <3>2. QED
      BY <1>4, <3>1, RespondKeeps DEF ReceiveCall, RejectOrder
  <2>4. QED
    BY <1>1, <2>1, <2>2, <2>3
<1>5. QED
  BY <1>1, <1>2, <1>3, <1>4, AllSteps DEF vars, db, ProcessEnd

LEMMA FlagsKept ==
  ASSUME TypeOK, CallsKept, ResponsesKept, NEW c \in DOMAIN calls, NEW f, HasFlag(c, f)
  PROVE  HasFlag(c, f)'
<1>1. PICK i \in DOMAIN responses[calls[c].worker] :
        /\ responses[calls[c].worker][i].call = c
        /\ responses[calls[c].worker][i].flag = f
  BY DEF HasFlag, ResponsesOf
<1>2. calls'[c].worker = calls[c].worker /\ calls[c].worker \in Workers
  BY CallTyped DEF CallsKept
<1>3. QED
  BY <1>1, <1>2 DEF HasFlag, ResponsesOf, ResponsesKept

LEMMA FlagGiven ==
  ASSUME TypeOK, NEW c \in DOMAIN calls, NEW f, Respond(c, f), calls'[c].worker = calls[c].worker
  PROVE  HasFlag(c, f)'
<1>1. PICK w \in Workers : w = calls[c].worker
  BY CallTyped
<1>2. PICK r : r = [call |-> c, flag |-> f, retry |-> RetryCount(c, f)]
  OBVIOUS
<1>3. responses[w] \in Seq([call : Nat, flag : Flags, retry : Nat])
  BY DEF TypeOK
<1>4. responses'[w] = Append(responses[w], r)
  BY <1>1, <1>2 DEF Respond, TypeOK
<1>5. PICK i : i \in DOMAIN responses'[w] /\ responses'[w][i] = r
  BY <1>3, <1>4
<1>6. r.call = c /\ r.flag = f
  BY <1>2
<1>7. QED
  BY <1>1, <1>5, <1>6 DEF HasFlag, ResponsesOf

\* Two sets of handlers that differ in one handler at most.
LEMMA CountStep ==
  ASSUME NEW h \in Slots, NEW A, NEW B, A \subseteq Slots, B \subseteq Slots, A \ {h} = B \ {h}
  PROVE  /\ Cardinality(A) \in Nat /\ Cardinality(B) \in Nat
         /\ Cardinality(A) + (IF h \in B THEN 1 ELSE 0) = Cardinality(B) + (IF h \in A THEN 1 ELSE 0)
<1>1. IsFiniteSet(A) /\ IsFiniteSet(B)
  BY BoundsAssumption, FS_Subset
<1>2. Cardinality(A) \in Nat /\ Cardinality(B) \in Nat
  BY <1>1, FS_CardinalityType
<1>3. Cardinality(A \ {h}) = IF h \in A THEN Cardinality(A) - 1 ELSE Cardinality(A)
  BY <1>1, FS_RemoveElement
<1>4. Cardinality(B \ {h}) = IF h \in B THEN Cardinality(B) - 1 ELSE Cardinality(B)
  BY <1>1, FS_RemoveElement
<1>5. QED
  BY <1>2, <1>3, <1>4

(***************************************************************************)
(* The first task of an assigned worker.                                   *)
(***************************************************************************)
AboutToCreate == {h \in Slots : Standing(h, "task1")}

LEMMA NextOneTask ==
  ASSUME TypeOK, RowsExist, OneTaskPerAssignment, Package # "plain", [Next]_vars, TypeOK'
  PROVE  OneTaskPerAssignment'
<1>1. /\ Len(tasks) \in Nat /\ Len(orderWorkers) \in Nat
      /\ Len(tasks) + Cardinality(AboutToCreate) <= Len(orderWorkers)
      /\ ends = 0 => Len(tasks) + Cardinality(AboutToCreate) = Len(orderWorkers)
      /\ Cardinality(AboutToCreate) \in Nat
  BY BoundsAssumption, FS_Subset, FS_CardinalityType
  DEF TypeOK, OneTaskPerAssignment, AboutToCreate
<1>2. ASSUME NEW h \in Slots, NEW s, StepOf(h, s) PROVE OneTaskPerAssignment'
  <2>1. /\ Goto(h, s) /\ handlers'[h] = s
        /\ \A k \in Slots \ {h} : handlers'[k] = handlers[k]
    BY <1>2, Moved
  <2>2. AboutToCreate \ {h} = AboutToCreate' \ {h}
    BY <2>1 DEF AboutToCreate, Standing
  <2>3. /\ h \in AboutToCreate <=> handlers[h].at = "task1"
        /\ h \in AboutToCreate' <=> s.at = "task1"
    BY <2>1 DEF AboutToCreate, Standing
  <2>4. /\ Cardinality(AboutToCreate) \in Nat /\ Cardinality(AboutToCreate') \in Nat
        /\ Cardinality(AboutToCreate) + (IF s.at = "task1" THEN 1 ELSE 0)
             = Cardinality(AboutToCreate') + (IF handlers[h].at = "task1" THEN 1 ELSE 0)
    <3>1. AboutToCreate \subseteq Slots /\ AboutToCreate' \subseteq Slots
      BY DEF AboutToCreate
    <3>2. QED
      BY <2>2, <2>3, <3>1, CountStep
  <2>5. \/ /\ s.at = "task1" /\ handlers[h].at # "task1"
           /\ Len(orderWorkers') = Len(orderWorkers) + 1 /\ Len(tasks') = Len(tasks)
        \/ /\ s.at # "task1" /\ handlers[h].at = "task1"
           /\ Len(orderWorkers') = Len(orderWorkers) /\ Len(tasks') = Len(tasks) + 1
        \/ /\ s.at # "task1" /\ handlers[h].at # "task1"
           /\ Len(orderWorkers') = Len(orderWorkers) /\ Len(tasks') = Len(tasks)
    <3>1. CASE Assigned(h, s)
      BY <3>1 DEF Assigned, Goes, TypeOK
    <3>2. CASE TaskCreated(h, s)
      BY <3>2 DEF TaskCreated, Goes, TypeOK
    <3>3. CASE TaskSaved(h, s) \/ TasksWereCancelled(h, s)
      <4>1. DOMAIN tasks' = DOMAIN tasks /\ UNCHANGED orderWorkers
        BY <3>3 DEF TaskSaved, TasksWereCancelled
      <4>2. Len(tasks') = Len(tasks)
        BY <4>1 DEF TypeOK
      <4>3. s.at # "task1" /\ handlers[h].at # "task1"
        BY <3>3 DEF TaskSaved, TasksWereCancelled, Goes
      <4>4. QED
        BY <4>1, <4>2, <4>3
    <3>4. CASE UNCHANGED <<tasks, orderWorkers>> /\ s.at # "task1" /\ handlers[h].at # "task1"
      BY <3>4
    <3>5. QED
      BY <1>2, <3>1, <3>2, <3>3, <3>4
      DEF StepOf, StatusLoaded, StatusInserted, CallCancelled, StatusSaved, StatusLost,
          SearchTaken, WillingFound, SearchSaved, CallTaken, NextLoaded, NextChosen, NextSaved,
          CallWasPlaced, DiscardChecked, VerdictGiven, UpdateTaken, AcceptanceRecorded,
          FollowedUp, CancelAsked, AcceptPressed, Goes, db, AfterStatus
  <2>6. /\ Len(tasks') + Cardinality(AboutToCreate') <= Len(orderWorkers')
        /\ ends' = 0 => Len(tasks') + Cardinality(AboutToCreate') = Len(orderWorkers')
    BY <1>1, <1>2, <2>4, <2>5, StepGoesOn
  <2>7. QED
    BY <2>6 DEF OneTaskPerAssignment, AboutToCreate
<1>3. ASSUME UNCHANGED <<tasks, orderWorkers, ends, handlers>> PROVE OneTaskPerAssignment'
  BY <1>3 DEF OneTaskPerAssignment, Standing
<1>4. ASSUME NEW h \in Slots, ProcessEnd(h) PROVE OneTaskPerAssignment'
  <2>1. /\ UNCHANGED <<tasks, orderWorkers>> /\ ends' = ends + 1
        /\ handlers' = [k \in Slots |-> Idle]
    BY <1>4 DEF ProcessEnd, db
  <2>2. AboutToCreate' = {}
    BY <2>1, IdleFields DEF AboutToCreate, Standing
  <2>3. Len(tasks') + Cardinality(AboutToCreate') <= Len(orderWorkers') /\ ends' # 0
    BY <1>1, <2>1, <2>2, FS_EmptySet DEF TypeOK
  <2>4. QED
    BY <2>3 DEF OneTaskPerAssignment, AboutToCreate
<1>5. QED
  BY <1>2, <1>3, <1>4, AllSteps DEF ReceiveCall, RejectOrder, vars, db, rest

\* The three saves of the first task make one task row for each worker assigned,
\* whatever comes between them, in every package whose orders get a first task: never
\* two, and none is missing until the process has ended.
THEOREM OneTaskTheorem ==
  ASSUME Package # "plain"
  PROVE  Spec => []OneTaskPerAssignment
<1>1. Init => OneTaskPerAssignment
  <2> SUFFICES ASSUME Init PROVE OneTaskPerAssignment
    OBVIOUS
  <2>2. handlers = [h \in Slots |-> Idle]
    BY DEF Init
  <2>3. {h \in Slots : Standing(h, "task1")} = {}
    BY <2>2, IdleFields DEF Standing
  <2>4. tasks = << >> /\ orderWorkers = << >>
    BY DEF Init
  <2>5. QED
    BY <2>3, <2>4, FS_EmptySet DEF OneTaskPerAssignment
<1>2. TypeOK /\ RowsExist /\ OneTaskPerAssignment /\ [Next]_vars /\ TypeOK' => OneTaskPerAssignment'
  BY NextOneTask
<1>3. QED
  BY <1>1, <1>2, TypeCorrect, PTL DEF Spec

(***************************************************************************)
(* The chains of calls.                                                    *)
(***************************************************************************)
AtStatus(s) == s.at \in {"status_load", "status_insert", "status_save"}

\* Handlers that may still come to call somebody.
Chaining(s) ==
  \/ s.at \in {"search", "search_save", "next_load", "next_calls", "next_skip",
               "next_take", "place", "verdict"}
  \/ AtStatus(s) /\ s.status = "searching"

\* The part of Searching that a handler's fields decide: a handler recording a
\* failure counts, for the job it runs is handed out again after a process end.
Busy(s) == Chaining(s) \/ (AtStatus(s) /\ s.status = "failed")

Chained == {h \in Slots : Searching(h)}

Queued(j) == (IF j.search THEN 1 ELSE 0) + j.call + Cardinality(j.discard)

Rejections == {c \in DOMAIN calls : calls[c].line = "closed" /\ HasFlag(c, "rejected")}

Weight(s) == IF Busy(s) THEN 1 ELSE 0

\* Some rows of a table are finitely many.
LEMMA FiniteRows ==
  ASSUME NEW Q, NEW r \in Seq(Q), NEW S, S \subseteq DOMAIN r
  PROVE  IsFiniteSet(S) /\ Cardinality(S) \in Nat
<1>1. PICK n \in Nat : DOMAIN r = 1..n
  OBVIOUS
<1>2. IsFiniteSet(DOMAIN r)
  BY <1>1, FS_Interval
<1>3. QED
  BY <1>2, FS_Subset, FS_CardinalityType

LEMMA DiscardFinite ==
  ASSUME TypeOK, RowsExist
  PROVE  IsFiniteSet(jobs.discard) /\ Cardinality(jobs.discard) \in Nat
  BY FiniteRows DEF TypeOK, RowsExist

\* No step of a handler makes two chains of one.
LEMMA StepChains ==
  ASSUME TypeOK, RowsExist, NEW h \in Slots, NEW s, StepOf(h, s)
  PROVE  Queued(jobs') \in Nat /\ Queued(jobs') + Weight(s) <= Queued(jobs) + Weight(handlers[h])
<1>1. jobs \in Jobs
  BY DEF TypeOK, Jobs
<1>2. IsFiniteSet(jobs.discard) /\ Cardinality(jobs.discard) \in Nat
  BY DiscardFinite
<1>3. Queued(jobs) \in Nat
  BY <1>1, <1>2 DEF Queued, Jobs
<1>4. CASE /\ jobs'.search = jobs.search /\ jobs'.call = jobs.call /\ jobs'.discard = jobs.discard
           /\ Busy(s) => Busy(handlers[h])
  BY <1>3, <1>4 DEF Queued, Weight
<1>5. CASE SearchTaken(h, s)
  <2>1. Weight(s) <= Weight(handlers[h]) + 1 /\ Weight(s) \in Nat /\ Weight(handlers[h]) \in Nat
    BY DEF Weight
  <2>2. /\ jobs.search /\ ~jobs'.search /\ jobs'.call = jobs.call
        /\ jobs'.discard = jobs.discard
    BY <1>1, <1>5 DEF SearchTaken, Jobs
  <2>3. QED
    BY <1>1, <1>2, <2>1, <2>2 DEF Queued, Jobs
<1>6. CASE SearchSaved(h, s) \/ VerdictGiven(h, s)
  <2>1. Weight(s) = 0 /\ Weight(handlers[h]) = 1
    BY <1>6 DEF SearchSaved, VerdictGiven, Goes, Weight, Busy, Chaining, AtStatus
  <2>2. /\ jobs'.search = jobs.search /\ jobs'.call \in {jobs.call, jobs.call + 1}
        /\ jobs'.discard = jobs.discard
    BY <1>1, <1>6 DEF SearchSaved, VerdictGiven, Jobs
  <2>3. QED
    BY <1>1, <1>2, <2>1, <2>2 DEF Queued, Jobs
<1>7. CASE CallTaken(h, s)
  <2>1. Weight(s) <= Weight(handlers[h]) + 1 /\ Weight(s) \in Nat /\ Weight(handlers[h]) \in Nat
    BY DEF Weight
  <2>2. /\ jobs'.search = jobs.search /\ jobs'.call = jobs.call - 1 /\ jobs.call > 0
        /\ jobs'.discard = jobs.discard
    BY <1>1, <1>7 DEF CallTaken, Jobs
  <2>3. QED
    BY <1>1, <1>2, <2>1, <2>2 DEF Queued, Jobs
<1>8. CASE CallWasPlaced(h, s)
  <2>1. Weight(s) = 0 /\ Weight(handlers[h]) = 1
    BY <1>8 DEF CallWasPlaced, Goes, Weight, Busy, Chaining, AtStatus
  <2>2. PICK D : /\ D = jobs'.discard /\ D \in {jobs.discard, jobs.discard \cup {Len(calls) + 1}}
                 /\ jobs'.search = jobs.search /\ jobs'.call = jobs.call
    BY <1>1, <1>8 DEF CallWasPlaced, Jobs
  <2>3. Cardinality(D) \in Nat /\ Cardinality(D) <= Cardinality(jobs.discard) + 1
    <3>1. CASE D = jobs.discard
      BY <1>2, <3>1
    <3>2. CASE D = jobs.discard \cup {Len(calls) + 1}
      <4>1. Cardinality(D) = IF Len(calls) + 1 \in jobs.discard THEN Cardinality(jobs.discard)
                             ELSE Cardinality(jobs.discard) + 1
        BY <1>2, <3>2, FS_AddElement
      <4>2. QED
        BY <1>2, <4>1
    <3>3. QED
      BY <2>2, <3>1, <3>2
  <2>4. QED
    BY <1>1, <1>2, <2>1, <2>2, <2>3 DEF Queued, Jobs
<1>9. ASSUME NEW c \in jobs.discard, DiscardChecked(h, c, s)
      PROVE  Queued(jobs') \in Nat /\ Queued(jobs') + Weight(s) <= Queued(jobs) + Weight(handlers[h])
  <2>1. Weight(s) <= Weight(handlers[h]) + 1 /\ Weight(s) \in Nat /\ Weight(handlers[h]) \in Nat
    BY DEF Weight
  <2>2. PICK D : /\ D = jobs'.discard /\ D = jobs.discard \ {c}
                 /\ jobs'.search = jobs.search /\ jobs'.call = jobs.call
    BY <1>1, <1>9 DEF DiscardChecked, Jobs
  <2>3. Cardinality(D) \in Nat /\ Cardinality(D) = Cardinality(jobs.discard) - 1
    BY <1>2, <2>2, FS_RemoveElement, FS_CardinalityType
  <2>4. QED
    BY <1>1, <1>2, <2>1, <2>2, <2>3 DEF Queued, Jobs
<1>10. CASE TaskSaved(h, s)
  <2>1. /\ jobs'.search = jobs.search /\ jobs'.call = jobs.call /\ jobs'.discard = jobs.discard
    BY <1>1, <1>10 DEF TaskSaved, Jobs
  <2>2. ~Busy(s)
    BY <1>10 DEF TaskSaved, Goes, Busy, Chaining, AtStatus
  <2>3. QED
    BY <1>4, <2>1, <2>2
<1>11. CASE StatusLoaded(h, s) \/ StatusInserted(h, s)
  <2>1. Busy(s) => Busy(handlers[h])
    BY <1>11 DEF StatusLoaded, StatusInserted, Goes, Busy, Chaining, AtStatus
  <2>2. QED
    BY <1>4, <1>11, <2>1 DEF StatusLoaded, StatusInserted
<1>12. CASE StatusSaved(h, s) \/ StatusLost(h, s)
  <2>1. Busy(s) => Busy(handlers[h])
    BY <1>12 DEF StatusSaved, StatusLost, Goes, Busy, Chaining, AtStatus, AfterStatus
  <2>2. QED
    BY <1>4, <1>12, <2>1 DEF StatusSaved, StatusLost
<1>13. CASE WillingFound(h, s) \/ NextLoaded(h, s) \/ NextChosen(h, s) \/ NextSaved(h, s)
  <2>1. Busy(handlers[h]) /\ UNCHANGED jobs
    BY <1>13 DEF WillingFound, NextLoaded, NextChosen, NextSaved, Goes, Busy, Chaining, AtStatus
  <2>2. QED
    BY <1>4, <2>1
<1>14. CASE \/ CallCancelled(h, s) \/ Assigned(h, s) \/ UpdateTaken(h, s) \/ TaskCreated(h, s)
            \/ AcceptanceRecorded(h, s) \/ FollowedUp(h, s) \/ CancelAsked(h, s)
            \/ TasksWereCancelled(h, s) \/ \E c \in DOMAIN calls : AcceptPressed(h, c, s)
  <2>1. /\ Busy(s) => Busy(handlers[h])
        /\ jobs'.search = jobs.search /\ jobs'.call = jobs.call /\ jobs'.discard = jobs.discard
    BY <1>14 DEF CallCancelled, Assigned, UpdateTaken, TaskCreated, AcceptanceRecorded,
      FollowedUp, CancelAsked, TasksWereCancelled, AcceptPressed, Goes, Busy, Chaining, AtStatus
  <2>2. QED
    BY <1>4, <2>1
<1>15. QED
  BY <1>5, <1>6, <1>7, <1>8, <1>9, <1>10, <1>11, <1>12, <1>13, <1>14 DEF StepOf

\* A process end hands out again no more than was running.
LEMMA EndChains ==
  ASSUME TypeOK, RowsExist, NEW h \in Slots, ProcessEnd(h)
  PROVE  /\ Queued(jobs') \in Nat /\ Queued(jobs') <= Queued(jobs) + Cardinality(Chained)
         /\ Chained' = {}
<1>1. Chained' = {}
  <2>1. handlers' = [k \in Slots |-> Idle]
    BY DEF ProcessEnd
  <2>2. QED
    BY <2>1, IdleFields DEF Chained, Searching
<1>2. jobs \in Jobs /\ IsFiniteSet(jobs.discard) /\ Cardinality(jobs.discard) \in Nat
  BY DiscardFinite DEF TypeOK, Jobs
<1>3. PICK back \in SUBSET {k \in Slots : RunsSearch(k) \/ RunsCall(k) \/ RunsCheck(k)} :
        jobs' = [jobs EXCEPT
                  !.search  = @ \/ \E k \in back : RunsSearch(k),
                  !.call    = @ + Cardinality({k \in back : RunsCall(k)}),
                  !.discard = @ \cup {handlers[k].call : k \in {j \in back : RunsCheck(j)}}]
  BY DEF ProcessEnd
<1>4. PICK S : S = {k \in back : RunsSearch(k)}
  OBVIOUS
<1>5. PICK C : C = {k \in back : RunsCall(k)}
  OBVIOUS
<1>6. PICK D : D = {k \in back : RunsCheck(k)}
  OBVIOUS
<1>7. PICK I : I = {handlers[k].call : k \in D}
  OBVIOUS
<1>8. /\ jobs'.search <=> (jobs.search \/ S # {})
      /\ jobs'.call = jobs.call + Cardinality(C)
      /\ jobs'.discard = jobs.discard \cup I
  BY <1>2, <1>3, <1>4, <1>5, <1>6, <1>7 DEF Jobs
<1>9. /\ S \subseteq Chained /\ C \subseteq Chained /\ D \subseteq Chained
      /\ S \cap C = {} /\ (S \cup C) \cap D = {}
  BY <1>3, <1>4, <1>5, <1>6
  DEF RunsSearch, RunsCall, RunsCheck, UpdatesTo, Standing, Chained, Searching
<1>10. IsFiniteSet(Chained) /\ Cardinality(Chained) \in Nat
  BY BoundsAssumption, FS_Subset, FS_CardinalityType DEF Chained
<1>11. /\ IsFiniteSet(S) /\ Cardinality(S) \in Nat
       /\ IsFiniteSet(C) /\ Cardinality(C) \in Nat
       /\ IsFiniteSet(D) /\ Cardinality(D) \in Nat
  BY <1>9, <1>10, FS_Subset, FS_CardinalityType
<1>12. /\ IsFiniteSet(S \cup C) /\ Cardinality(S \cup C) = Cardinality(S) + Cardinality(C)
  BY <1>9, <1>11, FS_Union, FS_EmptySet
<1>13. PICK B : B = S \cup C
  OBVIOUS
<1>14. Cardinality(S) + Cardinality(C) + Cardinality(D) <= Cardinality(Chained)
  <2>1. IsFiniteSet(B) /\ Cardinality(B) = Cardinality(S) + Cardinality(C) /\ B \cap D = {}
    BY <1>9, <1>12, <1>13
  <2>2. Cardinality(B \cup D) = Cardinality(B) + Cardinality(D) - Cardinality(B \cap D)
    BY <1>11, <2>1, FS_Union
  <2>3. Cardinality(B \cap D) = 0
    BY <2>1, FS_EmptySet
  <2>4. Cardinality(B \cup D) <= Cardinality(Chained)
    BY <1>9, <1>10, <1>13, FS_Subset
  <2>5. QED
    BY <1>11, <2>1, <2>2, <2>3, <2>4
<1>15. IsFiniteSet(I) /\ Cardinality(I) \in Nat /\ Cardinality(I) <= Cardinality(D)
  <2>1. PICK f : f = [k \in D |-> handlers[k].call]
    OBVIOUS
  <2>2. f \in Surjection(D, I)
    BY <1>7, <2>1 DEF Surjection
  <2>3. QED
    BY <1>11, <2>2, FS_Surjection, FS_CardinalityType
<1>16. /\ Cardinality(jobs.discard \cup I) \in Nat
       /\ Cardinality(jobs.discard \cup I) <= Cardinality(jobs.discard) + Cardinality(I)
  <2>1. /\ IsFiniteSet(jobs.discard \cup I)
        /\ Cardinality(jobs.discard \cup I)
             = Cardinality(jobs.discard) + Cardinality(I) - Cardinality(jobs.discard \cap I)
    BY <1>2, <1>15, FS_Union
  <2>2. Cardinality(jobs.discard \cap I) \in Nat
    BY <1>2, FS_Subset, FS_CardinalityType
  <2>3. QED
    BY <1>2, <1>15, <2>1, <2>2, FS_CardinalityType
<1>17. S # {} => Cardinality(S) >= 1
  BY <1>11, FS_EmptySet
<1>18. QED
  BY <1>1, <1>2, <1>8, <1>10, <1>11, <1>14, <1>15, <1>16, <1>17 DEF Queued, Jobs

\* Only a pressed reject starts a chain, and it closes the line of its call.
LEMMA NextChains ==
  ASSUME TypeOK, RowsExist, ChainsBounded, [Next]_vars, TypeOK'
  PROVE  ChainsBounded'
<1>1. /\ IsFiniteSet(Rejections) /\ Cardinality(Rejections) \in Nat
      /\ IsFiniteSet(Rejections') /\ Cardinality(Rejections') \in Nat
  BY FiniteRows DEF Rejections, TypeOK
<1>2. Rejections \subseteq Rejections'
  <2>1. CallsKept /\ ResponsesKept
    BY HistoryKept
  <2>2. QED
    BY <2>1, FlagsKept DEF Rejections, CallsKept
<1>3. Cardinality(Rejections) <= Cardinality(Rejections')
  BY <1>1, <1>2, FS_Subset
<1>4. Queued(jobs) \in Nat
  <2>1. IsFiniteSet(jobs.discard) /\ Cardinality(jobs.discard) \in Nat
    BY DiscardFinite
  <2>2. jobs \in Jobs
    BY DEF TypeOK, Jobs
  <2>3. QED
    BY <2>1, <2>2 DEF Queued, Jobs
<1>5. Queued(jobs) + Cardinality(Chained) <= 1 + Cardinality(Rejections)
  BY DEF ChainsBounded, Chains, Chained, Queued, Rejections
<1>6. Cardinality(Chained) \in Nat
  BY BoundsAssumption, FS_Subset, FS_CardinalityType DEF Chained
<1>7. SUFFICES Queued(jobs') + Cardinality(Chained') <= 1 + Cardinality(Rejections')
  BY DEF ChainsBounded, Chains, Chained, Queued, Rejections
<1>8. ASSUME NEW h \in Slots, NEW s, StepOf(h, s)
      PROVE  Queued(jobs') + Cardinality(Chained') <= 1 + Cardinality(Rejections')
  <2>1. handlers'[h] = s /\ \A k \in Slots \ {h} : handlers'[k] = handlers[k]
    BY <1>8, Moved
  <2>2. /\ Chained \ {h} = Chained' \ {h}
        /\ h \in Chained <=> Busy(handlers[h])
        /\ h \in Chained' <=> Busy(s)
    BY <2>1 DEF Chained, Searching, Busy, Chaining, AtStatus
  <2>3. /\ Cardinality(Chained') \in Nat
        /\ Cardinality(Chained) + (IF Busy(s) THEN 1 ELSE 0)
             = Cardinality(Chained') + (IF Busy(handlers[h]) THEN 1 ELSE 0)
    <3>1. Chained \subseteq Slots /\ Chained' \subseteq Slots
      BY DEF Chained
    <3>2. QED
      BY <2>2, <3>1, CountStep
  <2>4. Queued(jobs') \in Nat /\ Queued(jobs') + Weight(s) <= Queued(jobs) + Weight(handlers[h])
    BY <1>8, StepChains
  <2>5. QED
    BY <1>1, <1>3, <1>4, <1>5, <1>6, <2>3, <2>4 DEF Weight
<1>9. ASSUME UNCHANGED handlers PROVE Chained' = Chained
  BY <1>9 DEF Chained, Searching
<1>10. CASE UNCHANGED <<jobs, handlers>>
  BY <1>1, <1>3, <1>4, <1>5, <1>6, <1>9, <1>10
<1>11. ASSUME NEW c \in DOMAIN calls, RejectOrder(c), ~(UNCHANGED jobs)
       PROVE  Queued(jobs') + Cardinality(Chained') <= 1 + Cardinality(Rejections')
  <2>1. /\ calls[c].line = "talking" /\ calls' = [calls EXCEPT ![c].line = "closed"]
        /\ Respond(c, "rejected") /\ jobs' = [jobs EXCEPT !.call = @ + 1] /\ UNCHANGED handlers
    BY <1>11 DEF RejectOrder
  <2>2. DOMAIN calls' = DOMAIN calls /\ calls'[c].line = "closed" /\ calls'[c].worker = calls[c].worker
    BY <2>1, LineKeeps DEF Lines
  <2>3. c \in Rejections' /\ c \notin Rejections
    BY <2>1, <2>2, FlagGiven DEF Rejections
  <2>4. Cardinality(Rejections) + 1 <= Cardinality(Rejections')
    <3>1. Rejections \cup {c} \subseteq Rejections'
      BY <1>2, <2>3
    <3>2. Cardinality(Rejections \cup {c}) = Cardinality(Rejections) + 1
      BY <1>1, <2>3, FS_AddElement
    <3>3. QED
      BY <1>1, <3>1, <3>2, FS_Subset
  <2>5. Queued(jobs') = Queued(jobs) + 1
    <3>1. /\ jobs'.search = jobs.search /\ jobs'.call = jobs.call + 1
          /\ jobs'.discard = jobs.discard /\ jobs.call \in Nat
      BY <2>1 DEF TypeOK
    <3>2. Cardinality(jobs.discard) \in Nat
      BY DiscardFinite
    <3>3. QED
      BY <3>1, <3>2 DEF Queued
  <2>6. QED
    BY <1>1, <1>4, <1>5, <1>6, <1>9, <2>1, <2>4, <2>5
<1>12. ASSUME NEW h \in Slots, ProcessEnd(h)
       PROVE  Queued(jobs') + Cardinality(Chained') <= 1 + Cardinality(Rejections')
  <2>1. Queued(jobs') \in Nat /\ Queued(jobs') <= Queued(jobs) + Cardinality(Chained)
    BY <1>12, EndChains
  <2>2. Cardinality(Chained') = 0
    BY <1>12, EndChains, FS_EmptySet
  <2>3. QED
    BY <1>1, <1>3, <1>4, <1>5, <1>6, <2>1, <2>2
<1>13. QED
  BY <1>8, <1>10, <1>11, <1>12, AllSteps DEF ReceiveCall, RejectOrder, vars

\* An order has one chain of calls, and one more for each rejection pressed: no two
\* handlers ever come to look for its next worker at the same time otherwise.
THEOREM ChainsTheorem == Spec => []ChainsBounded
<1>1. Init => ChainsBounded
  <2> SUFFICES ASSUME Init PROVE ChainsBounded
    OBVIOUS
  <2>2. handlers = [h \in Slots |-> Idle]
    BY DEF Init
  <2>3. {h \in Slots : Searching(h)} = {}
    BY <2>2, IdleFields DEF Searching
  <2>4. jobs.search /\ jobs.call = 0 /\ jobs.discard = {} /\ calls = << >>
    BY DEF Init
  <2>5. {c \in DOMAIN calls : calls[c].line = "closed" /\ HasFlag(c, "rejected")} = {}
    BY <2>4
  <2>6. QED
    BY <2>3, <2>4, <2>5, FS_EmptySet DEF ChainsBounded, Chains
<1>2. TypeOK /\ RowsExist /\ ChainsBounded /\ [Next]_vars /\ TypeOK' => ChainsBounded'
  BY NextChains
<1>3. QED
  BY <1>1, <1>2, TypeCorrect, PTL DEF Spec

(***************************************************************************)
(* The beginning.  Until the workers that are willing have been saved with *)
(* the order, there is one search, and nothing else but cancellations.     *)
(***************************************************************************)
Seeking(s) == s.at \in {"search", "search_save"} \/ (AtStatus(s) /\ s.status = "searching")

Early == jobs.search \/ \E h \in Slots : Seeking(handlers[h])

EarlyHandler(s) ==
  /\ \/ s.at \in {"idle", "search", "search_save", "cancel_tasks"}
     \/ AtStatus(s) /\ s.status \in {"searching", "cancelled"}
  /\ s.told = {} /\ s.snap.cursor = 0

Beginning ==
  /\ calls = << >> /\ orderWorkers = << >> /\ jobs.call = 0 /\ pendingUpdates = 0
  /\ \A i \in DOMAIN statusLog : statusLog[i] \notin {"accepted", "failed"}
  /\ order.cursor = 0
  /\ \A h \in Slots : EarlyHandler(handlers[h])

OneSeeker ==
  /\ \A h, k \in Slots : Seeking(handlers[h]) /\ Seeking(handlers[k]) => h = k
  /\ jobs.search => \A h \in Slots : ~Seeking(handlers[h])

EarlyInv == OneSeeker /\ (Early => Beginning)

LEMMA SeekingStep ==
  ASSUME TypeOK, NEW h \in Slots, NEW s, StepOf(h, s)
  PROVE  \/ SearchTaken(h, s) /\ jobs.search /\ ~jobs'.search
         \/ (Seeking(s) => Seeking(handlers[h])) /\ (jobs'.search <=> jobs.search)
<1>1. jobs \in Jobs
  BY DEF TypeOK, Jobs
<1>2. CASE SearchTaken(h, s)
  BY <1>1, <1>2 DEF SearchTaken, Jobs
<1>3. CASE \/ StatusLoaded(h, s) \/ StatusInserted(h, s) \/ CallCancelled(h, s)
           \/ StatusSaved(h, s) \/ StatusLost(h, s) \/ WillingFound(h, s)
  <2>1. UNCHANGED jobs
    BY <1>3 DEF StatusLoaded, StatusInserted, CallCancelled, StatusSaved, StatusLost, WillingFound
  <2>2. Seeking(s) => Seeking(handlers[h])
    BY <1>3 DEF StatusLoaded, StatusInserted, CallCancelled, StatusSaved, StatusLost,
      WillingFound, Goes, Seeking, AtStatus, AfterStatus
  <2>3. QED
    BY <2>1, <2>2
<1>4. CASE \/ SearchSaved(h, s) \/ CallTaken(h, s) \/ NextLoaded(h, s) \/ NextChosen(h, s)
           \/ NextSaved(h, s) \/ CallWasPlaced(h, s) \/ VerdictGiven(h, s)
           \/ \E c \in jobs.discard : DiscardChecked(h, c, s)
  <2>1. jobs'.search = jobs.search
    BY <1>1, <1>4 DEF SearchSaved, CallTaken, NextLoaded, NextChosen, NextSaved, CallWasPlaced,
      VerdictGiven, DiscardChecked, Jobs
  <2>2. ~Seeking(s)
    BY <1>4 DEF SearchSaved, CallTaken, NextLoaded, NextChosen, NextSaved, CallWasPlaced,
      VerdictGiven, DiscardChecked, Goes, Seeking, AtStatus
  <2>3. QED
    BY <2>1, <2>2
<1>5. CASE \/ Assigned(h, s) \/ UpdateTaken(h, s) \/ TaskCreated(h, s) \/ TaskSaved(h, s)
           \/ AcceptanceRecorded(h, s) \/ FollowedUp(h, s) \/ CancelAsked(h, s)
           \/ TasksWereCancelled(h, s) \/ \E c \in DOMAIN calls : AcceptPressed(h, c, s)
  <2>1. jobs'.search = jobs.search
    BY <1>1, <1>5 DEF Assigned, UpdateTaken, TaskCreated, TaskSaved, AcceptanceRecorded,
      FollowedUp, CancelAsked, TasksWereCancelled, AcceptPressed, Jobs
  <2>2. ~Seeking(s)
    BY <1>5 DEF Assigned, UpdateTaken, TaskCreated, TaskSaved, AcceptanceRecorded,
      FollowedUp, CancelAsked, TasksWereCancelled, AcceptPressed, Goes, Seeking, AtStatus
  <2>3. QED
    BY <2>1, <2>2
<1>6. QED
  BY <1>2, <1>3, <1>4, <1>5 DEF StepOf

\* A step that leaves nothing of the beginning but a handler that is still in it.
LEMMA BeginningKept ==
  ASSUME TypeOK, Beginning, NEW h \in Slots, NEW s, StepOf(h, s), EarlyHandler(s),
         UNCHANGED <<calls, orderWorkers, pendingUpdates>>, jobs'.call = jobs.call,
         order'.cursor = 0,
         \/ UNCHANGED statusLog
         \/ \E st \in {"searching", "cancelled"} : statusLog' = Append(statusLog, st)
  PROVE  Beginning'
<1>1. \A k \in Slots : EarlyHandler(handlers'[k])
  <2>1. handlers'[h] = s /\ \A k \in Slots \ {h} : handlers'[k] = handlers[k]
    BY Moved
  <2>2. \A k \in Slots \ {h} : EarlyHandler(handlers'[k])
    BY <2>1 DEF Beginning
  <2>3. QED
    BY <2>1, <2>2
<1>2. \A i \in DOMAIN statusLog' : statusLog'[i] \notin {"accepted", "failed"}
  <2>1. statusLog \in Seq(Statuses) /\ \A i \in DOMAIN statusLog : statusLog[i] \notin {"accepted", "failed"}
    BY DEF Beginning, TypeOK
  <2>2. CASE UNCHANGED statusLog
    BY <2>1, <2>2
  <2>3. ASSUME NEW st \in {"searching", "cancelled"}, statusLog' = Append(statusLog, st)
        PROVE  \A i \in DOMAIN statusLog' : statusLog'[i] \notin {"accepted", "failed"}
    BY <2>1, <2>3
  <2>4. QED
    BY <2>2, <2>3
<1>3. QED
  BY <1>1, <1>2 DEF Beginning, EarlyHandler, AtStatus

LEMMA StepEarly ==
  ASSUME TypeOK, RowsExist, EarlyInv, NEW h \in Slots, NEW s, StepOf(h, s)
  PROVE  EarlyInv'
<1>1. /\ handlers'[h] = s /\ \A k \in Slots \ {h} : handlers'[k] = handlers[k]
  BY Moved
<1>2. \/ SearchTaken(h, s) /\ jobs.search /\ ~jobs'.search
      \/ (Seeking(s) => Seeking(handlers[h])) /\ (jobs'.search <=> jobs.search)
  BY SeekingStep
<1>3. OneSeeker'
  <2>1. \A k \in Slots \ {h} : Seeking(handlers'[k]) <=> Seeking(handlers[k])
    BY <1>1
  <2>2. Seeking(handlers'[h]) <=> Seeking(s)
    BY <1>1
  <2>3. (\A k \in Slots : Seeking(handlers[k])' <=> Seeking(handlers'[k]))
    BY DEF Seeking, AtStatus
  <2>4. QED
    BY <1>2, <2>1, <2>2, <2>3 DEF EarlyInv, OneSeeker
<1>4. Early' => Early
  <2>1. \A k \in Slots : Seeking(handlers[k])' <=> Seeking(handlers'[k])
    BY DEF Seeking, AtStatus
  <2>2. QED
    BY <1>1, <1>2, <2>1 DEF Early
<1>5. ASSUME Early', Early PROVE Beginning'
  <2>1. Beginning /\ EarlyHandler(handlers[h])
    BY <1>5 DEF EarlyInv, Beginning
  <2>2. DOMAIN calls = {} /\ jobs.discard = {} /\ jobs.call = 0 /\ pendingUpdates = 0
    BY <2>1 DEF Beginning, RowsExist
  <2>3. order.cursor = 0 /\ handlers[h] \in Handler /\ order \in OrderRow /\ jobs \in Jobs
    BY <2>1 DEF Beginning, TypeOK, Jobs
  <2>4. CASE StatusLoaded(h, s)
    <3>1. AcceptedBy(order) = {}
      BY <2>2 DEF RowsExist, RowsOf, AcceptedBy
    <3>2. EarlyHandler(s)
      BY <2>1, <2>3, <2>4, <3>1 DEF StatusLoaded, Goes, EarlyHandler, AtStatus
    <3>3. QED
      BY <2>1, <2>3, <2>4, <3>2, BeginningKept DEF StatusLoaded, db, rest
  <2>5. CASE StatusInserted(h, s)
    <3>1. s.snap.cursor = handlers[h].snap.cursor /\ order'.cursor = order.cursor
      BY <2>3, <2>5 DEF StatusInserted, Handler, OrderRow
    <3>2. EarlyHandler(s)
      BY <2>1, <2>5, <3>1 DEF StatusInserted, Goes, EarlyHandler, AtStatus
    <3>3. handlers[h].status \in {"searching", "cancelled"}
      BY <2>1, <2>5 DEF StatusInserted, Goes, EarlyHandler, AtStatus
    <3>4. QED
      BY <2>1, <2>3, <2>5, <3>1, <3>2, <3>3, BeginningKept DEF StatusInserted, rest
  <2>6. CASE StatusSaved(h, s)
    <3>1. order'.cursor = 0
      BY <2>1, <2>6 DEF StatusSaved, Save, EarlyHandler
    <3>2. EarlyHandler(s)
      BY <2>1, <2>6 DEF StatusSaved, Goes, EarlyHandler, AtStatus, AfterStatus, Fresh, NoOrder
    <3>3. QED
      BY <2>1, <2>6, <3>1, <3>2, BeginningKept DEF StatusSaved
  <2>7. CASE \/ StatusLost(h, s) \/ SearchTaken(h, s) \/ CancelAsked(h, s)
             \/ TasksWereCancelled(h, s)
    <3>1. UNCHANGED <<statusLog, calls, orderWorkers, pendingUpdates, order>> /\ jobs'.call = jobs.call
      BY <2>3, <2>7 DEF StatusLost, SearchTaken, CancelAsked, TasksWereCancelled, Jobs, db, rest
    <3>2. EarlyHandler(s)
      BY <2>1, <2>7 DEF StatusLost, SearchTaken, CancelAsked, TasksWereCancelled, Goes,
        EarlyHandler, AtStatus, Fresh, NoOrder
    <3>3. QED
      BY <2>1, <2>3, <3>1, <3>2, BeginningKept
  <2>8. CASE WillingFound(h, s) \/ SearchSaved(h, s)
    <3>1. Seeking(handlers[h]) /\ ~SearchTaken(h, s)
      BY <2>8 DEF WillingFound, SearchSaved, Goes, Seeking, SearchTaken
    <3>2. Seeking(s)
      <4>1. \A k \in Slots : Seeking(handlers[k])' <=> Seeking(handlers'[k])
        BY DEF Seeking, AtStatus
      <4>2. QED
        BY <1>1, <1>2, <1>5, <3>1, <4>1 DEF EarlyInv, OneSeeker, Early
    <3>3. WillingFound(h, s) /\ s.at = "search_save" /\ s.told = {} /\ s.snap.cursor = order.cursor
      BY <2>3, <2>8, <3>2 DEF WillingFound, SearchSaved, Goes, Seeking, AtStatus, OrderRow
    <3>4. EarlyHandler(s)
      BY <2>3, <3>3 DEF EarlyHandler
    <3>5. QED
      BY <2>1, <2>3, <3>3, <3>4, BeginningKept DEF WillingFound, db, rest
  <2>9. CASE \/ CallCancelled(h, s) \/ NextLoaded(h, s) \/ NextChosen(h, s) \/ NextSaved(h, s)
             \/ CallWasPlaced(h, s) \/ VerdictGiven(h, s) \/ Assigned(h, s) \/ TaskCreated(h, s)
             \/ TaskSaved(h, s) \/ AcceptanceRecorded(h, s) \/ FollowedUp(h, s)
    BY <2>1, <2>9 DEF CallCancelled, NextLoaded, NextChosen, NextSaved, CallWasPlaced,
      VerdictGiven, Assigned, TaskCreated, TaskSaved, AcceptanceRecorded, FollowedUp, Goes,
      EarlyHandler, AtStatus
  <2>10. CASE \/ CallTaken(h, s) \/ UpdateTaken(h, s)
              \/ \E c \in jobs.discard : DiscardChecked(h, c, s)
              \/ \E c \in DOMAIN calls : AcceptPressed(h, c, s)
    BY <2>2, <2>10 DEF CallTaken, UpdateTaken
  <2>11. QED
    BY <2>4, <2>5, <2>6, <2>7, <2>8, <2>9, <2>10 DEF StepOf
<1>6. QED
  BY <1>3, <1>4, <1>5 DEF EarlyInv

LEMMA PhoneEarly ==
  ASSUME EarlyInv, NEW c \in DOMAIN calls, ReceiveCall(c) \/ RejectOrder(c), TypeOK
  PROVE  EarlyInv'
<1>1. UNCHANGED handlers /\ jobs'.search = jobs.search
  BY DEF ReceiveCall, RejectOrder, TypeOK
<1>2. OneSeeker' /\ (Early' <=> Early)
  BY <1>1 DEF EarlyInv, OneSeeker, Early, Seeking, AtStatus
<1>3. ~Early
  BY DEF EarlyInv, Beginning
<1>4. QED
  BY <1>2, <1>3 DEF EarlyInv

LEMMA NextEarly ==
  ASSUME TypeOK, RowsExist, EarlyInv, [Next]_vars, UNCHANGED ends
  PROVE  EarlyInv'
<1>1. CASE UNCHANGED vars
  BY <1>1 DEF vars, db, rest, EarlyInv, OneSeeker, Early, Seeking, AtStatus, Beginning, EarlyHandler
<1>2. QED
  BY <1>1, StepEarly, PhoneEarly, Steps

LEMMA InitEarly ==
  ASSUME Init
  PROVE  EarlyInv
<1>1. /\ calls = << >> /\ orderWorkers = << >> /\ jobs.call = 0 /\ pendingUpdates = 0
      /\ statusLog = <<"placed">> /\ handlers = [h \in Slots |-> Idle]
  BY DEF Init
<1>2. Idle.snap = NoOrder /\ Idle.told = {} /\ Idle.at = "idle"
  BY DEF Idle
<1>3. \A h \in Slots : EarlyHandler(handlers[h]) /\ ~Seeking(handlers[h])
  BY <1>1, <1>2 DEF EarlyHandler, Seeking, AtStatus, NoOrder
<1>4. order.cursor = 0
  BY DEF Init, NoOrder
<1>5. QED
  BY <1>1, <1>3, <1>4 DEF EarlyInv, OneSeeker, Beginning

(***************************************************************************)
(* What a handler holds at each await, and what the logs hold.             *)
(***************************************************************************)
Holding(s) == s.at \in {"next_calls", "next_skip", "next_take"}

CalledBefore(w) == \E c \in DOMAIN calls : calls[c].worker = w

HandlerShape(s) ==
  /\ s.at = "status_save" => Latest(s.snap) = s.status
  /\ AtStatus(s) => s.status # "placed"
  /\ s.at = "search_save" => s.snap.potential # << >>
  /\ Holding(s) =>
       /\ s.snap.potential # << >>
       /\ s.worker = s.snap.potential[(s.snap.cursor % Len(s.snap.potential)) + 1]
  /\ s.at = "next_skip" => CalledBefore(s.worker)
  /\ s.told # {} => s.at \in {"status_insert", "cancel_call"} /\ s.status = "cancelled"
  /\ s.told # {} \/ s.at = "cancel_call" => calls # << >>
  /\ s.at = "verdict" => s.flag # "accepted"

\* No search begins after an acceptance or a failure.
LogShape ==
  \A i, j \in DOMAIN statusLog :
     i < j /\ statusLog[j] = "searching" => statusLog[i] \notin {"accepted", "failed"}

\* Every response is to a call of the worker whose log it is in.
ResponsesOwned ==
  \A w \in Workers : \A i \in DOMAIN responses[w] :
     responses[w][i].call \in DOMAIN calls /\ calls[responses[w][i].call].worker = w

ShapeInv == LogShape /\ ResponsesOwned /\ \A h \in Slots : HandlerShape(handlers[h])

LEMMA LatestKept ==
  ASSUME TypeOK, LogKept, NEW S, S \subseteq DOMAIN statusLog, S # {}
  PROVE  Max(S) \in DOMAIN statusLog /\ statusLog'[Max(S)] = statusLog[Max(S)]
<1>1. Max(S) \in S
  BY MaxRow DEF TypeOK
<1>2. QED
  BY <1>1 DEF LogKept

\* The latest row is the one just inserted.
LEMMA LatestInserted ==
  ASSUME NEW n \in Nat, NEW S, S \subseteq 1..n
  PROVE  Max(S \cup {n + 1}) = n + 1
<1>1. PICK T : T = S \cup {n + 1}
  OBVIOUS
<1>2. n + 1 \in T /\ \A y \in T : n + 1 >= y
  BY <1>1
<1>3. Max(T) \in T /\ \A y \in T : Max(T) >= y
  BY <1>2 DEF Max
<1>4. PICK m : m = Max(T)
  OBVIOUS
<1>5. m \in T /\ m >= n + 1
  BY <1>2, <1>3, <1>4
<1>6. m \in Nat /\ n + 1 >= m
  BY <1>1, <1>2, <1>5
<1>7. m = n + 1
  BY <1>5, <1>6
<1>8. QED
  BY <1>1, <1>4, <1>7

LEMMA ShapeKept ==
  ASSUME TypeOK, LogKept, CallsKept, NEW s, HandlerRows(s), HandlerShape(s)
  PROVE  HandlerShape(s)'
<1>1. s.at = "status_save" => statusLog'[Max(s.snap.statuses)] = s.status
  BY LatestKept DEF HandlerRows, RowsOf, HandlerShape, Latest
<1>2. CalledBefore(s.worker) => CalledBefore(s.worker)'
  BY DEF CalledBefore, CallsKept
<1>3. calls # << >> => calls' # << >>
  <2>1. calls # << >> => 1 \in DOMAIN calls
    BY DEF TypeOK
  <2>2. QED
    BY <2>1 DEF CallsKept
<1>4. QED
  BY <1>1, <1>2, <1>3 DEF HandlerShape, Latest, Holding, AtStatus

LEMMA ShapesKept ==
  ASSUME TypeOK, RowsExist, \A h \in Slots : HandlerShape(handlers[h]), LogKept, CallsKept,
         NEW h \in Slots, NEW s, handlers'[h] = s,
         \A k \in Slots \ {h} : handlers'[k] = handlers[k], HandlerShape(s)'
  PROVE  \A k \in Slots : HandlerShape(handlers[k])'
<1> TAKE k \in Slots
<1>1. CASE k = h
  BY <1>1 DEF HandlerShape, Latest, Holding, AtStatus, CalledBefore
<1>2. CASE k # h
  <2>1. PICK t : t = handlers[k]
    OBVIOUS
  <2>2. HandlerRows(t) /\ HandlerShape(t)
    BY <2>1 DEF RowsExist
  <2>3. HandlerShape(t)'
    BY <2>2, ShapeKept
  <2>4. handlers'[k] = t
    BY <1>2, <2>1
  <2>5. QED
    BY <2>3, <2>4 DEF HandlerShape, Latest, Holding, AtStatus, CalledBefore
<1>3. QED
  BY <1>1, <1>2

\* A handler at an await where it holds nothing of interest.
LEMMA PlainShape ==
  ASSUME NEW s, s.told = {}, s.at \notin {"cancel_call", "search_save", "verdict", "status_save"},
         ~Holding(s), AtStatus(s) => s.status # "placed"
  PROVE  HandlerShape(s)'
  BY DEF HandlerShape, Holding, AtStatus

LEMMA StepShape ==
  ASSUME TypeOK, RowsExist, ShapeInv, LogKept, CallsKept,
         NEW h \in Slots, NEW s, StepOf(h, s)
  PROVE  HandlerShape(s)'
<1>1. /\ handlers[h] \in Handler /\ handlers[h].snap \in OrderRow /\ HandlerRows(handlers[h])
      /\ HandlerShape(handlers[h])
  BY HandlerNow DEF ShapeInv
<1>2. calls # << >> => calls' # << >>
  <2>1. calls # << >> => 1 \in DOMAIN calls
    BY DEF TypeOK
  <2>2. QED
    BY <2>1 DEF CallsKept
<1>3. CASE StatusLoaded(h, s)
  <2>1. s.told # {} => calls # << >>
    BY <1>3 DEF StatusLoaded, AcceptedBy, RowsExist, RowsOf
  <2>2. QED
    BY <1>1, <1>2, <1>3, <2>1 DEF StatusLoaded, Goes, HandlerShape, Holding, AtStatus
<1>4. CASE StatusInserted(h, s)
  <2>1. s.at = "status_save" => Latest(s.snap)' = s.status
    <3>1. PICK n \in Nat : n = Len(statusLog) /\ DOMAIN statusLog = 1..n
      BY DEF TypeOK
    <3>2. s.snap.statuses = handlers[h].snap.statuses \cup {n + 1}
      BY <1>1, <1>4, <3>1 DEF StatusInserted, OrderRow
    <3>3. Max(s.snap.statuses) = n + 1
      BY <1>1, <3>1, <3>2, LatestInserted DEF HandlerRows, RowsOf
    <3>4. statusLog'[n + 1] = s.status
      BY <1>4, <3>1 DEF StatusInserted, TypeOK
    <3>5. QED
      BY <3>3, <3>4 DEF Latest
  <2>2. /\ s.at \in {"status_save", "cancel_call"} /\ s.status = handlers[h].status
        /\ s.told = handlers[h].told /\ handlers[h].at = "status_insert"
        /\ s.at = "status_save" => s.told = {}
        /\ s.at = "cancel_call" => s.told # {}
    BY <1>4 DEF StatusInserted, Goes
  <2>3. QED
    BY <1>1, <1>2, <2>1, <2>2 DEF HandlerShape, Holding, AtStatus, Latest
<1>5. CASE WillingFound(h, s)
  <2>1. CASE Goes(h, s, "search", "status_load") /\ s.status = "failed" /\ Fresh(s)
    BY <2>1 DEF Goes, Fresh, HandlerShape, Holding, AtStatus
  <2>2. ASSUME NEW willing \in WorkerLists, willing # << >>, s.told = {}, s.at = "search_save",
               s.snap = [order EXCEPT !.potential = willing]
        PROVE  HandlerShape(s)'
    <3>1. s.snap.potential = willing
      BY <2>2 DEF TypeOK, OrderRow
    <3>2. QED
      BY <2>2, <3>1 DEF HandlerShape, Holding, AtStatus
  <2>3. QED
    BY <1>5, <2>1, <2>2 DEF WillingFound, Goes
<1>6. CASE NextLoaded(h, s)
  BY <1>6 DEF NextLoaded, Goes, Fresh, HandlerShape, Holding, AtStatus
<1>7. CASE NextChosen(h, s)
  <2>1. Declined(handlers[h].worker) => \E c \in DOMAIN calls' : calls'[c].worker = s.worker
    <3>1. PICK w \in Workers : w = handlers[h].worker
      BY <1>1, <1>7 DEF NextChosen, Goes, HandlerRows
    <3>2. Declined(w) => \E i \in DOMAIN responses[w] : TRUE
      BY DEF Declined, ResponsesHere
    <3>3. Declined(w) => CalledBefore(w)
      BY <3>2 DEF CalledBefore, ShapeInv, ResponsesOwned
    <3>4. UNCHANGED calls
      BY <1>7 DEF NextChosen, db
    <3>5. CalledBefore(w) => \E c \in DOMAIN calls' : calls'[c].worker = w
      BY <3>4 DEF CalledBefore
    <3>6. Declined(handlers[h].worker) => Declined(w)
      BY <3>1
    <3>7. QED
      BY <1>7, <3>1, <3>3, <3>5, <3>6 DEF NextChosen
  <2>2. QED
    BY <1>1, <1>7, <2>1 DEF NextChosen, Goes, HandlerShape, Holding, AtStatus, CalledBefore
<1>8. CASE NextSaved(h, s)
  BY <1>8 DEF NextSaved, Goes, Fresh, HandlerShape, Holding, AtStatus
<1>9. ASSUME NEW c \in jobs.discard, DiscardChecked(h, c, s) PROVE HandlerShape(s)'
  <2>1. CASE handlers[h].at = "idle" /\ s = handlers[h]
    BY <1>1, <2>1 DEF HandlerShape, Holding, AtStatus
  <2>2. CASE Goes(h, s, "idle", "verdict") /\ Fresh(s) /\ s.flag # "accepted"
    BY <2>2 DEF Goes, Fresh, HandlerShape, Holding, AtStatus
  <2>3. QED
    BY <1>9, <2>1, <2>2 DEF DiscardChecked
<1>10. CASE UpdateTaken(h, s)
  BY <1>10 DEF UpdateTaken, Goes, HandlerShape, Holding, AtStatus
<1>11. CASE \/ SearchTaken(h, s) \/ CallTaken(h, s) \/ CancelAsked(h, s)
            \/ \E c \in DOMAIN calls : AcceptPressed(h, c, s)
  <2>1. CASE handlers[h].at = "idle" /\ s = handlers[h]
    BY <1>1, <2>1 DEF HandlerShape, Holding, AtStatus
  <2>2. CASE /\ Fresh(s) /\ s.at \in {"status_load", "next_load", "assign"}
             /\ s.at = "status_load" => s.status \in {"searching", "cancelled"}
    BY <2>2 DEF Fresh, HandlerShape, Holding, AtStatus
  <2>3. QED
    BY <1>11, <2>1, <2>2 DEF SearchTaken, CallTaken, CancelAsked, AcceptPressed, Goes
<1>12. CASE \/ CallCancelled(h, s) \/ StatusSaved(h, s) \/ StatusLost(h, s) \/ SearchSaved(h, s)
            \/ CallWasPlaced(h, s) \/ VerdictGiven(h, s) \/ AcceptanceRecorded(h, s)
            \/ FollowedUp(h, s) \/ TasksWereCancelled(h, s)
  BY <1>12 DEF CallCancelled, StatusSaved, StatusLost, SearchSaved, CallWasPlaced, VerdictGiven,
    AcceptanceRecorded, FollowedUp, TasksWereCancelled, Goes, Fresh, AfterStatus,
    HandlerShape, Holding, AtStatus
<1>13. CASE Assigned(h, s) \/ TaskCreated(h, s) \/ TaskSaved(h, s)
  <2>1. handlers[h].told = {}
    BY <1>1, <1>13 DEF Assigned, TaskCreated, TaskSaved, Goes, HandlerShape
  <2>2. s.told = {} /\ s.at \in {"idle", "respond", "task1", "task2", "task3"}
    BY <1>13, <2>1 DEF Assigned, TaskCreated, TaskSaved, Goes, Fresh
  <2>3. QED
    BY <2>2 DEF HandlerShape, Holding, AtStatus
<1>14. QED
  BY <1>3, <1>4, <1>5, <1>6, <1>7, <1>8, <1>9, <1>10, <1>11, <1>12, <1>13 DEF StepOf

\* Which steps of a handler write which table.
LEMMA Frames ==
  ASSUME NEW h \in Slots, NEW s, StepOf(h, s)
  PROVE  /\ StatusInserted(h, s) \/ UNCHANGED statusLog
         /\ \/ CallCancelled(h, s) \/ CallWasPlaced(h, s) \/ VerdictGiven(h, s)
            \/ AcceptanceRecorded(h, s) \/ UNCHANGED responses
         /\ \/ CallCancelled(h, s) \/ CallWasPlaced(h, s) \/ UNCHANGED calls
            \/ \E c \in DOMAIN calls : AcceptPressed(h, c, s)
         /\ Assigned(h, s) \/ UNCHANGED orderWorkers
  BY DEF StepOf, StatusLoaded, StatusInserted, CallCancelled, StatusSaved, StatusLost,
         SearchTaken, WillingFound, SearchSaved, CallTaken, NextLoaded, NextChosen, NextSaved,
         CallWasPlaced, DiscardChecked, VerdictGiven, Assigned, UpdateTaken, TaskCreated,
         TaskSaved, AcceptanceRecorded, FollowedUp, CancelAsked, TasksWereCancelled,
         AcceptPressed, db

LEMMA RespondOwned ==
  ASSUME TypeOK, ResponsesOwned, CallsKept, NEW c \in DOMAIN calls, NEW f, Respond(c, f)
  PROVE  ResponsesOwned'
<1>1. PICK v : v = calls[c].worker /\ v \in Workers
  BY CallTyped
<1>2. PICK r : r = [call |-> c, flag |-> f, retry |-> RetryCount(c, f)]
  OBVIOUS
<1>3. ASSUME NEW w \in Workers, NEW i \in DOMAIN responses'[w]
      PROVE  responses'[w][i].call \in DOMAIN calls' /\ calls'[responses'[w][i].call].worker = w
  <2>1. responses[w] \in Seq([call : Nat, flag : Flags, retry : Nat])
    BY DEF TypeOK
  <2>2. responses'[w] = IF w = v THEN Append(responses[w], r) ELSE responses[w]
    BY <1>1, <1>2 DEF Respond, TypeOK
  <2>3. CASE i \in DOMAIN responses[w]
    <3>1. responses'[w][i] = responses[w][i]
      BY <2>1, <2>2, <2>3
    <3>2. QED
      BY <2>3, <3>1 DEF ResponsesOwned, CallsKept
  <2>4. CASE i \notin DOMAIN responses[w]
    <3>1. w = v /\ responses'[w][i] = r /\ r.call = c
      BY <1>2, <2>1, <2>2, <2>4
    <3>2. QED
      BY <1>1, <3>1 DEF CallsKept
  <2>5. QED
    BY <2>3, <2>4
<1>4. QED
  BY <1>3 DEF ResponsesOwned

LEMMA PlacedOwned ==
  ASSUME TypeOK, ResponsesOwned, NEW v \in Workers, NEW l \in Lines,
         calls' = Append(calls, [worker |-> v, line |-> l]),
         responses' = [responses EXCEPT ![v] = Append(@,
           [call |-> Len(calls) + 1, flag |-> "connecting", retry |-> 1])]
  PROVE  ResponsesOwned'
<1>1. /\ CallsKept /\ DOMAIN calls' = DOMAIN calls \cup {Len(calls) + 1}
      /\ calls'[Len(calls) + 1].worker = v
  <2>1. PICK r : r = [call |-> Len(calls) + 1, flag |-> "connecting", retry |-> 1]
    OBVIOUS
  <2>2. QED
    BY <2>1, PlacedKeeps
<1>2. PICK r : r = [call |-> Len(calls) + 1, flag |-> "connecting", retry |-> 1]
  OBVIOUS
<1>3. ASSUME NEW w \in Workers, NEW i \in DOMAIN responses'[w]
      PROVE  responses'[w][i].call \in DOMAIN calls' /\ calls'[responses'[w][i].call].worker = w
  <2>1. responses[w] \in Seq([call : Nat, flag : Flags, retry : Nat])
    BY DEF TypeOK
  <2>2. responses'[w] = IF w = v THEN Append(responses[w], r) ELSE responses[w]
    BY <1>2 DEF TypeOK
  <2>3. CASE i \in DOMAIN responses[w]
    <3>1. responses'[w][i] = responses[w][i]
      BY <2>1, <2>2, <2>3
    <3>2. QED
      BY <1>1, <2>3, <3>1 DEF ResponsesOwned, CallsKept
  <2>4. CASE i \notin DOMAIN responses[w]
    <3>1. w = v /\ responses'[w][i] = r /\ r.call = Len(calls) + 1
      BY <1>2, <2>1, <2>2, <2>4
    <3>2. QED
      BY <1>1, <3>1
  <2>5. QED
    BY <2>3, <2>4
<1>4. QED
  BY <1>3 DEF ResponsesOwned

LEMMA StepOwned ==
  ASSUME TypeOK, RowsExist, ResponsesOwned, CallsKept, NEW h \in Slots, NEW s, StepOf(h, s)
  PROVE  ResponsesOwned'
<1>1. handlers[h] \in Handler /\ HandlerRows(handlers[h]) /\ {"closed", "ringing"} \subseteq Lines
  BY HandlerNow DEF Lines
<1>2. CASE UNCHANGED responses
  BY <1>2 DEF ResponsesOwned, CallsKept
<1>3. CASE CallCancelled(h, s)
  <2>1. ASSUME NEW w \in Workers,
               calls' = Append(calls, [worker |-> w, line |-> "closed"]),
               responses' = [responses EXCEPT ![w] = Append(@,
                 [call |-> Len(calls) + 1, flag |-> "connecting", retry |-> 1])]
        PROVE  ResponsesOwned'
    BY <1>1, <2>1, PlacedOwned
  <2>2. QED
    BY <1>2, <1>3, <2>1 DEF CallCancelled
<1>4. CASE CallWasPlaced(h, s)
  <2>1. handlers[h].worker \in Workers
    BY <1>1, <1>4 DEF CallWasPlaced, Goes, HandlerRows
  <2>2. QED
    BY <1>1, <1>2, <1>4, <2>1, PlacedOwned DEF CallWasPlaced
<1>5. CASE VerdictGiven(h, s) \/ AcceptanceRecorded(h, s)
  <2>1. handlers[h].call \in DOMAIN calls
    BY <1>1, <1>5 DEF VerdictGiven, AcceptanceRecorded, Goes, HandlerRows
  <2>2. QED
    BY <1>5, <2>1, RespondOwned DEF VerdictGiven, AcceptanceRecorded
<1>6. QED
  BY <1>2, <1>3, <1>4, <1>5, Frames

LEMMA StepLog ==
  ASSUME TypeOK, EarlyInv, LogShape, NEW h \in Slots, NEW s, StepOf(h, s)
  PROVE  LogShape'
<1>1. CASE UNCHANGED statusLog
  BY <1>1 DEF LogShape
<1>2. CASE StatusInserted(h, s)
  <2>1. PICK n \in Nat : n = Len(statusLog) /\ DOMAIN statusLog = 1..n
    BY DEF TypeOK
  <2>2. /\ DOMAIN statusLog' = 1..(n + 1) /\ statusLog'[n + 1] = handlers[h].status
        /\ \A i \in 1..n : statusLog'[i] = statusLog[i]
    BY <1>2, <2>1 DEF StatusInserted, TypeOK
  <2>3. handlers[h].status = "searching" => \A i \in 1..n : statusLog[i] \notin {"accepted", "failed"}
    BY <1>2, <2>1 DEF StatusInserted, Goes, EarlyInv, Early, Seeking, AtStatus, Beginning
  <2>4. ASSUME NEW i \in 1..(n + 1), NEW j \in 1..(n + 1), i < j, statusLog'[j] = "searching"
        PROVE  statusLog'[i] \notin {"accepted", "failed"}
    <3>1. i \in 1..n /\ (j \in 1..n \/ j = n + 1)
      BY <2>4
    <3>2. QED
      BY <2>1, <2>2, <2>3, <2>4, <3>1 DEF LogShape
  <2>5. QED
    BY <2>2, <2>4 DEF LogShape
<1>3. QED
  BY <1>1, <1>2, Frames

LEMMA NextShape ==
  ASSUME TypeOK, RowsExist, EarlyInv, ShapeInv, [Next]_vars, UNCHANGED ends
  PROVE  ShapeInv'
<1>1. LogKept /\ CallsKept /\ ResponsesKept
  BY HistoryKept
<1>2. ASSUME NEW h \in Slots, NEW s, StepOf(h, s) PROVE ShapeInv'
  <2>1. handlers'[h] = s /\ \A k \in Slots \ {h} : handlers'[k] = handlers[k]
    BY <1>2, Moved
  <2>2. HandlerShape(s)'
    BY <1>1, <1>2, StepShape
  <2>3. \A k \in Slots : HandlerShape(handlers[k])'
    BY <1>1, <2>1, <2>2, ShapesKept DEF ShapeInv
  <2>4. QED
    BY <1>1, <1>2, <2>3, StepOwned, StepLog DEF ShapeInv
<1>3. ASSUME UNCHANGED handlers PROVE \A k \in Slots : HandlerShape(handlers[k])'
  <2> TAKE k \in Slots
  <2>1. PICK t : t = handlers[k]
    OBVIOUS
  <2>2. HandlerRows(t) /\ HandlerShape(t)
    BY <2>1 DEF RowsExist, ShapeInv
  <2>3. HandlerShape(t)'
    BY <1>1, <2>2, ShapeKept
  <2>4. handlers'[k] = t
    BY <1>3, <2>1
  <2>5. QED
    BY <2>3, <2>4 DEF HandlerShape, Latest, Holding, AtStatus, CalledBefore
<1>4. ASSUME NEW c \in DOMAIN calls, ReceiveCall(c) \/ RejectOrder(c) PROVE ShapeInv'
  <2>1. UNCHANGED <<statusLog, handlers>>
    BY <1>4 DEF ReceiveCall, RejectOrder
  <2>2. LogShape'
    BY <2>1 DEF ShapeInv, LogShape
  <2>3. ResponsesOwned'
    <3>1. CASE UNCHANGED responses
      BY <1>1, <3>1 DEF ShapeInv, ResponsesOwned, CallsKept
    <3>2. QED
      BY <1>1, <1>4, <3>1, RespondOwned DEF ReceiveCall, RejectOrder, ShapeInv
  <2>4. QED
    BY <1>3, <2>1, <2>2, <2>3 DEF ShapeInv
<1>5. CASE UNCHANGED vars
  BY <1>3, <1>5 DEF vars, db, ShapeInv, LogShape, ResponsesOwned
<1>6. QED
  BY <1>2, <1>4, <1>5, Steps

LEMMA InitShape ==
  ASSUME Init
  PROVE  ShapeInv
<1>1. /\ statusLog = <<"placed">> /\ handlers = [h \in Slots |-> Idle]
      /\ responses = [w \in Workers |-> << >>]
  BY DEF Init
<1>2. Idle.told = {} /\ Idle.at = "idle"
  BY DEF Idle
<1>3. LogShape /\ ResponsesOwned
  BY <1>1 DEF LogShape, ResponsesOwned
<1>4. \A h \in Slots : HandlerShape(handlers[h])
  BY <1>1, <1>2 DEF HandlerShape, Holding, AtStatus
<1>5. QED
  BY <1>3, <1>4 DEF ShapeInv

(***************************************************************************)
(* Once the search has begun to call, the order holds the workers found.   *)
(***************************************************************************)
Calling(s) == s.at \in {"next_load", "next_calls", "next_skip", "next_take", "place"}

Begun == calls # << >> \/ jobs.call > 0 \/ \E h \in Slots : Calling(handlers[h])

PotentialSet == Begun /\ Latest(order) = "searching" => order.potential # << >>

LEMMA EarlyNotBegun ==
  ASSUME TypeOK, EarlyInv, Early
  PROVE  ~Begun
<1>1. Beginning /\ \A h \in Slots : EarlyHandler(handlers[h])
  BY DEF EarlyInv, Beginning
<1>2. \A h \in Slots : ~Calling(handlers[h])
  BY <1>1 DEF EarlyHandler, Calling, AtStatus
<1>3. QED
  BY <1>1, <1>2 DEF Begun, Beginning

\* Only the save of the workers found begins the calls.
LEMMA BegunStep ==
  ASSUME TypeOK, RowsExist, ShapeInv, NEW h \in Slots, NEW s, StepOf(h, s), Begun'
  PROVE  Begun \/ (SearchSaved(h, s) /\ CanSave(handlers[h].snap))
<1>1. /\ handlers'[h] = s /\ \A k \in Slots \ {h} : handlers'[k] = handlers[k]
      /\ handlers[h] \in Handler /\ HandlerRows(handlers[h]) /\ HandlerShape(handlers[h])
  BY Moved, HandlerNow DEF ShapeInv
<1>2. jobs \in Jobs
  BY DEF TypeOK, Jobs
<1>3. CASE \/ CallCancelled(h, s) \/ CallWasPlaced(h, s) \/ VerdictGiven(h, s)
           \/ AcceptanceRecorded(h, s) \/ \E c \in DOMAIN calls : AcceptPressed(h, c, s)
  <2>1. calls # << >> \/ Calling(handlers[h])
    BY <1>1, <1>3 DEF CallCancelled, CallWasPlaced, VerdictGiven, AcceptanceRecorded, Goes,
      HandlerShape, HandlerRows, Calling
  <2>2. QED
    BY <2>1 DEF Begun
<1>4. CASE CallTaken(h, s)
  BY <1>4 DEF CallTaken, Begun
<1>5. CASE UNCHANGED calls /\ jobs'.call = jobs.call /\ (Calling(s) => Calling(handlers[h]))
  <2>1. \A k \in Slots : Calling(handlers[k])' <=> Calling(handlers'[k])
    BY DEF Calling
  <2>2. QED
    BY <1>1, <1>5, <2>1 DEF Begun
<1>6. CASE SearchSaved(h, s) /\ ~CanSave(handlers[h].snap)
  BY <1>5, <1>6 DEF SearchSaved, Goes, Calling
<1>7. CASE NextLoaded(h, s) \/ NextChosen(h, s) \/ NextSaved(h, s)
  <2>1. Calling(handlers[h])
    BY <1>7 DEF NextLoaded, NextChosen, NextSaved, Goes, Calling
  <2>2. QED
    BY <2>1 DEF Begun
<1>8. CASE \/ StatusLoaded(h, s) \/ StatusInserted(h, s) \/ StatusSaved(h, s) \/ StatusLost(h, s)
           \/ WillingFound(h, s)
  <2>1. UNCHANGED <<calls, jobs>>
    BY <1>8 DEF StatusLoaded, StatusInserted, StatusSaved, StatusLost, WillingFound, db
  <2>2. ~Calling(s)
    BY <1>8 DEF StatusLoaded, StatusInserted, StatusSaved, StatusLost, WillingFound, Goes,
      Calling, AfterStatus
  <2>3. QED
    BY <1>5, <2>1, <2>2
<1>9. CASE \/ SearchTaken(h, s) \/ Assigned(h, s) \/ UpdateTaken(h, s) \/ TaskCreated(h, s)
           \/ TaskSaved(h, s) \/ FollowedUp(h, s) \/ CancelAsked(h, s) \/ TasksWereCancelled(h, s)
           \/ \E c \in jobs.discard : DiscardChecked(h, c, s)
  <2>1. UNCHANGED calls /\ jobs'.call = jobs.call
    BY <1>2, <1>9 DEF SearchTaken, Assigned, UpdateTaken, TaskCreated, TaskSaved, FollowedUp,
      CancelAsked, TasksWereCancelled, DiscardChecked, Jobs, db
  <2>2. ~Calling(s)
    BY <1>9 DEF SearchTaken, Assigned, UpdateTaken, TaskCreated, TaskSaved, FollowedUp,
      CancelAsked, TasksWereCancelled, DiscardChecked, Goes, Fresh, Calling
  <2>3. QED
    BY <1>5, <2>1, <2>2
<1>10. QED
  BY <1>3, <1>4, <1>5, <1>6, <1>7, <1>8, <1>9 DEF StepOf

\* Which steps of a handler write what of the order.
LEMMA OrderFrames ==
  ASSUME TypeOK, NEW h \in Slots, NEW s, StepOf(h, s)
  PROVE  \/ StatusInserted(h, s)
         \/ StatusSaved(h, s)
         \/ SearchSaved(h, s) /\ CanSave(handlers[h].snap)
         \/ NextSaved(h, s) /\ CanSave(handlers[h].snap)
         \/ /\ order'.statuses = order.statuses /\ order'.potential = order.potential
            /\ order'.cursor = order.cursor /\ order.calls \subseteq order'.calls
            /\ Assigned(h, s) \/ order'.workers = order.workers
<1>1. order \in OrderRow
  BY DEF TypeOK
<1>2. CASE \/ CallCancelled(h, s) \/ CallWasPlaced(h, s) \/ Assigned(h, s) \/ TaskCreated(h, s)
           \/ TaskSaved(h, s)
  BY <1>1, <1>2 DEF CallCancelled, CallWasPlaced, Assigned, TaskCreated, TaskSaved, OrderRow
<1>3. CASE UNCHANGED order
  BY <1>3
<1>4. QED
  BY <1>2, <1>3 DEF StepOf, StatusLoaded, StatusLost, SearchTaken, WillingFound, SearchSaved,
    CallTaken, NextLoaded, NextChosen, NextSaved, DiscardChecked, VerdictGiven, UpdateTaken,
    AcceptanceRecorded, FollowedUp, CancelAsked, TasksWereCancelled, AcceptPressed, db

LEMMA LatestStays ==
  ASSUME TypeOK, RowsExist, LogKept, order'.statuses = order.statuses
  PROVE  Latest(order)' = Latest(order)
  BY LatestKept DEF Latest, RowsExist, RowsOf

\* The order's latest status after a step that writes its statuses.
LEMMA LatestStep ==
  ASSUME TypeOK, RowsExist, ShapeInv, LogKept, NEW h \in Slots, NEW s, StepOf(h, s)
  PROVE  /\ StatusInserted(h, s) \/ StatusSaved(h, s) => Latest(order)' = handlers[h].status
         /\ \/ StatusInserted(h, s) \/ StatusSaved(h, s)
            \/ NextSaved(h, s) /\ CanSave(handlers[h].snap)
            \/ Latest(order)' = Latest(order)
<1>1. /\ handlers[h] \in Handler /\ handlers[h].snap \in OrderRow /\ HandlerRows(handlers[h])
      /\ HandlerShape(handlers[h]) /\ order \in OrderRow
  BY HandlerNow DEF ShapeInv, TypeOK
<1>2. ASSUME StatusInserted(h, s) PROVE Latest(order)' = handlers[h].status
  <2>1. PICK n \in Nat : n = Len(statusLog) /\ DOMAIN statusLog = 1..n
    BY DEF TypeOK
  <2>2. order'.statuses = order.statuses \cup {n + 1}
    BY <1>1, <1>2, <2>1 DEF StatusInserted, OrderRow
  <2>3. Max(order'.statuses) = n + 1
    BY <2>1, <2>2, LatestInserted DEF RowsExist, RowsOf
  <2>4. statusLog'[n + 1] = handlers[h].status
    BY <1>2, <2>1 DEF StatusInserted, TypeOK
  <2>5. QED
    BY <1>2, <2>3, <2>4 DEF Latest
<1>3. ASSUME StatusSaved(h, s) PROVE Latest(order)' = handlers[h].status
  <2>1. /\ handlers[h].at = "status_save" /\ order' = handlers[h].snap /\ UNCHANGED statusLog
    BY <1>3 DEF StatusSaved, Save, Goes
  <2>2. Latest(order)' = Latest(handlers[h].snap)
    BY <2>1 DEF Latest
  <2>3. QED
    BY <1>1, <1>3, <2>1, <2>2 DEF HandlerShape
<1>4. ASSUME SearchSaved(h, s), CanSave(handlers[h].snap) PROVE Latest(order)' = Latest(order)
  <2>1. order' = [handlers[h].snap EXCEPT !.statuses = order.statuses]
    BY <1>4 DEF SearchSaved
  <2>2. order'.statuses = order.statuses
    BY <1>1, <2>1 DEF OrderRow
  <2>3. QED
    BY <2>2, LatestStays
<1>5. ASSUME order'.statuses = order.statuses PROVE Latest(order)' = Latest(order)
  BY <1>5, LatestStays
<1>6. QED
  BY <1>2, <1>3, <1>4, <1>5, OrderFrames

LEMMA NextPotential ==
  ASSUME TypeOK, RowsExist, EarlyInv, ShapeInv, PotentialSet, [Next]_vars, UNCHANGED ends
  PROVE  PotentialSet'
<1>1. LogKept
  BY HistoryKept
<1>2. ASSUME NEW h \in Slots, NEW s, StepOf(h, s), Begun', Latest(order)' = "searching"
      PROVE  order'.potential # << >>
  <2>1. /\ handlers[h] \in Handler /\ handlers[h].snap \in OrderRow /\ HandlerShape(handlers[h])
    BY <1>2, HandlerNow DEF ShapeInv
  <2>2. CASE SearchSaved(h, s) /\ CanSave(handlers[h].snap)
    <3>1. /\ order' = [handlers[h].snap EXCEPT !.statuses = order.statuses]
          /\ handlers[h].at = "search_save"
      BY <2>2 DEF SearchSaved, Goes
    <3>2. order'.potential = handlers[h].snap.potential
      BY <2>1, <3>1 DEF OrderRow
    <3>3. QED
      BY <2>1, <3>1, <3>2 DEF HandlerShape
  <2>3. CASE NextSaved(h, s) /\ CanSave(handlers[h].snap)
    <3>1. /\ order' = [handlers[h].snap EXCEPT !.cursor = @ + 1]
          /\ handlers[h].at \in {"next_skip", "next_take"}
      BY <2>3 DEF NextSaved, Goes
    <3>2. order'.potential = handlers[h].snap.potential
      BY <2>1, <3>1 DEF OrderRow
    <3>3. QED
      BY <2>1, <3>1, <3>2 DEF HandlerShape, Holding
  <2>4. CASE ~(SearchSaved(h, s) /\ CanSave(handlers[h].snap)) /\ ~(NextSaved(h, s) /\ CanSave(handlers[h].snap))
    <3>1. Begun /\ ~Early
      BY <1>2, <2>4, BegunStep, EarlyNotBegun
    <3>2. ~(StatusInserted(h, s) /\ handlers[h].status = "searching")
      BY <3>1 DEF StatusInserted, Goes, Early, Seeking, AtStatus
    <3>3. ~(StatusSaved(h, s) /\ handlers[h].status = "searching")
      BY <3>1 DEF StatusSaved, Goes, Early, Seeking, AtStatus
    <3>4. ~StatusInserted(h, s) /\ ~StatusSaved(h, s) /\ Latest(order) = "searching"
      BY <1>1, <1>2, <2>4, <3>2, <3>3, LatestStep
    <3>5. order'.potential = order.potential
      BY <1>2, <2>4, <3>4, OrderFrames
    <3>6. QED
      BY <3>1, <3>4, <3>5 DEF PotentialSet
  <2>5. QED
    BY <2>2, <2>3, <2>4
<1>3. ASSUME NEW c \in DOMAIN calls, ReceiveCall(c) \/ RejectOrder(c) PROVE PotentialSet'
  <2>1. UNCHANGED <<statusLog, order>> /\ Begun
    BY <1>3 DEF ReceiveCall, RejectOrder, Begun
  <2>2. QED
    BY <2>1 DEF PotentialSet, Latest
<1>4. CASE UNCHANGED vars
  BY <1>4 DEF vars, db, PotentialSet, Begun, Calling, Latest
<1>5. QED
  BY <1>2, <1>3, <1>4, Steps DEF PotentialSet

(***************************************************************************)
(* What will move the order on: a queued job, an update not yet begun, a   *)
(* handler whose next save cannot fail, the discard check of a call that   *)
(* nobody has taken and that is still linked to the order.                 *)
(***************************************************************************)
Taking(s) == s.at \in {"task1", "task2", "task3", "respond"}

Taken(c) == HasFlag(c, "accepted") \/ \E h \in Slots : Taking(handlers[h]) /\ handlers[h].call = c

Carrying(s) ==
  \/ Seeking(s)
  \/ s.at \in {"next_load", "place", "verdict"}
  \/ Holding(s) /\ CanSave(s.snap)
  \/ s.at \in {"status_load", "status_insert"} /\ s.status \in {"failed", "accepted"}

Good ==
  \/ jobs.search \/ jobs.call > 0 \/ pendingUpdates > 0
  \/ \E h \in Slots : Carrying(handlers[h])
  \/ \E c \in jobs.discard : c \in order.calls /\ ~Taken(c)

\* An accepted flag comes from the response of the worker who took the call.
LEMMA FlagBack ==
  ASSUME TypeOK, NEW c \in DOMAIN calls, NEW w \in Workers, w = calls[c].worker,
         calls'[c].worker = w, NEW r,
         responses'[w] \in {responses[w], Append(responses[w], r)}
  PROVE  HasFlag(c, "accepted")' => HasFlag(c, "accepted") \/ (r.call = c /\ r.flag = "accepted")
<1> SUFFICES ASSUME HasFlag(c, "accepted")'
             PROVE  HasFlag(c, "accepted") \/ (r.call = c /\ r.flag = "accepted")
  OBVIOUS
<1>1. PICK i \in DOMAIN responses'[w] : responses'[w][i].call = c /\ responses'[w][i].flag = "accepted"
  BY DEF HasFlag, ResponsesOf
<1>2. responses[w] \in Seq([call : Nat, flag : Flags, retry : Nat])
  BY DEF TypeOK
<1>3. CASE i \in DOMAIN responses[w]
  <2>1. responses'[w][i] = responses[w][i]
    <3>1. CASE responses'[w] = responses[w]
      BY <3>1
    <3>2. CASE responses'[w] = Append(responses[w], r)
      BY <1>2, <1>3, <3>2
    <3>3. QED
      BY <3>1, <3>2
  <2>2. QED
    BY <1>1, <1>3, <2>1 DEF HasFlag, ResponsesOf
<1>4. CASE i \notin DOMAIN responses[w]
  <2>1. responses'[w][i] = r
    BY <1>1, <1>2, <1>4
  <2>2. QED
    BY <1>1, <2>1
<1>5. QED
  BY <1>3, <1>4

\* A call is taken when its worker is assigned, and not otherwise.
LEMMA TakenStep ==
  ASSUME TypeOK, RowsExist, ShapeInv, CallsKept, NEW h \in Slots, NEW s, StepOf(h, s),
         NEW c \in DOMAIN calls, Taken(c)'
  PROVE  Taken(c) \/ pendingUpdates' > 0
<1>1. /\ handlers'[h] = s /\ \A k \in Slots \ {h} : handlers'[k] = handlers[k]
      /\ handlers[h] \in Handler /\ HandlerRows(handlers[h]) /\ HandlerShape(handlers[h])
  BY Moved, HandlerNow DEF ShapeInv
<1>2. calls'[c].worker = calls[c].worker
  BY DEF CallsKept
<1>3. ASSUME HasFlag(c, "accepted")' PROVE Taken(c)
  <2>1. CASE UNCHANGED responses
    BY <1>2, <1>3, <2>1 DEF Taken, HasFlag, ResponsesOf
  <2>2. ASSUME NEW w, NEW r, responses' = [responses EXCEPT ![w] = Append(@, r)],
               r.flag # "accepted"
        PROVE  Taken(c)
    <3>1. PICK u \in Workers : u = calls[c].worker
      BY CallTyped
    <3>2. responses'[u] \in {responses[u], Append(responses[u], r)}
      BY <2>2 DEF TypeOK
    <3>3. HasFlag(c, "accepted")
      BY <1>2, <1>3, <2>2, <3>1, <3>2, FlagBack
    <3>4. QED
      BY <3>3 DEF Taken
  <2>3. CASE CallCancelled(h, s) \/ CallWasPlaced(h, s)
    <3>1. PICK r : r = [call |-> Len(calls) + 1, flag |-> "connecting", retry |-> 1]
      OBVIOUS
    <3>2. r.flag # "accepted"
      BY <3>1
    <3>3. QED
      BY <2>1, <2>2, <2>3, <3>1, <3>2 DEF CallCancelled, CallWasPlaced
  <2>4. CASE VerdictGiven(h, s)
    <3>1. PICK r : /\ r = [call |-> handlers[h].call, flag |-> handlers[h].flag,
                           retry |-> RetryCount(handlers[h].call, handlers[h].flag)]
      OBVIOUS
    <3>2. r.flag # "accepted"
      BY <1>1, <2>4, <3>1 DEF VerdictGiven, Goes, HandlerShape
    <3>3. QED
      BY <2>2, <2>4, <3>1, <3>2 DEF VerdictGiven, Respond
  <2>5. CASE AcceptanceRecorded(h, s)
    <3>1. PICK r : /\ r = [call |-> handlers[h].call, flag |-> "accepted",
                           retry |-> RetryCount(handlers[h].call, "accepted")]
      OBVIOUS
    <3>2. responses' = [responses EXCEPT ![calls[handlers[h].call].worker] = Append(@, r)]
      BY <2>5, <3>1 DEF AcceptanceRecorded, Respond
    <3>3. HasFlag(c, "accepted") \/ r.call = c
      <4>1. PICK u \in Workers : u = calls[c].worker
        BY CallTyped
      <4>2. responses'[u] \in {responses[u], Append(responses[u], r)}
        BY <3>2 DEF TypeOK
      <4>3. QED
        BY <1>2, <1>3, <4>1, <4>2, FlagBack
    <3>4. Taking(handlers[h])
      BY <2>5 DEF AcceptanceRecorded, Goes, Taking
    <3>5. r.call = handlers[h].call
      BY <3>1
    <3>6. QED
      BY <3>3, <3>4, <3>5 DEF Taken
  <2>6. QED
    BY <1>1, <2>1, <2>3, <2>4, <2>5, Frames
<1>4. ASSUME NEW k \in Slots, Taking(handlers'[k]), handlers'[k].call = c
      PROVE  Taken(c) \/ pendingUpdates' > 0
  <2>1. CASE k # h
    <3>1. handlers'[k] = handlers[k]
      BY <1>1, <2>1
    <3>2. Taking(handlers[k]) /\ handlers[k].call = c
      BY <1>4, <3>1
    <3>3. QED
      BY <3>2 DEF Taken
  <2>2. CASE k = h
    <3>1. Taking(s) /\ s.call = c
      BY <1>1, <1>4, <2>2
    <3>2. CASE Assigned(h, s)
      BY <3>1, <3>2 DEF Assigned, Goes, Taking, TypeOK
    <3>3. CASE TaskCreated(h, s) \/ TaskSaved(h, s)
      <4>1. Taking(handlers[h]) /\ handlers[h].call = c
        BY <3>1, <3>3 DEF TaskCreated, TaskSaved, Goes, Taking
      <4>2. QED
        BY <4>1 DEF Taken
    <3>4. CASE s = handlers[h]
      BY <3>1, <3>4 DEF Taken
    <3>5. QED
      BY <1>1, <3>1, <3>2, <3>3, <3>4 
      DEF StepOf, StatusLoaded, StatusInserted, CallCancelled, StatusSaved, StatusLost,
         SearchTaken, WillingFound, SearchSaved, CallTaken, NextLoaded, NextChosen, NextSaved,
         CallWasPlaced, DiscardChecked, VerdictGiven, UpdateTaken, AcceptanceRecorded,
         FollowedUp, CancelAsked, TasksWereCancelled, AcceptPressed, Goes, Taking, AfterStatus
  <2>3. QED
    BY <2>1, <2>2
<1>5. \A k \in Slots : Taking(handlers[k])' <=> Taking(handlers'[k])
  BY DEF Taking
<1>6. QED
  BY <1>3, <1>4, <1>5 DEF Taken

\* A step after which every reason to go on that was there is still there.
LEMMA GoodKept ==
  ASSUME TypeOK, RowsExist, ShapeInv, CallsKept, NEW h \in Slots, NEW s, StepOf(h, s), Good,
         order'.workers = order.workers, order.calls \subseteq order'.calls,
         jobs'.search = jobs.search, jobs'.call = jobs.call,
         \A c \in jobs.discard : c \in order.calls /\ ~Taken(c) => c \in jobs'.discard,
         pendingUpdates' = pendingUpdates, Carrying(handlers[h]) => Carrying(s)
  PROVE  Good'
<1>1. handlers'[h] = s /\ \A k \in Slots \ {h} : handlers'[k] = handlers[k]
  BY Moved
<1>2. CASE jobs.search \/ jobs.call > 0 \/ pendingUpdates > 0
  BY <1>2 DEF Good
<1>3. ASSUME NEW t, Carrying(t) PROVE Carrying(t)'
  BY <1>3 DEF Carrying, CanSave, Holding, Seeking, AtStatus
<1>4. ASSUME NEW k \in Slots, Carrying(handlers[k]) PROVE Good'
  <2>1. PICK t : t = handlers'[k]
    OBVIOUS
  <2>2. Carrying(t)
    BY <1>1, <1>4, <2>1
  <2>3. Carrying(t)'
    BY <1>3, <2>2
  <2>4. Carrying(handlers[k])'
    BY <2>1, <2>3 DEF Carrying, CanSave, Holding, Seeking, AtStatus
  <2>5. QED
    BY <2>4 DEF Good
<1>5. ASSUME NEW c \in jobs.discard, c \in order.calls, ~Taken(c) PROVE Good'
  <2>1. c \in DOMAIN calls
    BY <1>5 DEF RowsExist
  <2>2. CASE Taken(c)'
    BY <1>5, <2>1, <2>2, TakenStep DEF Good
  <2>3. CASE ~Taken(c)'
    BY <1>5, <2>3 DEF Good
  <2>4. QED
    BY <2>2, <2>3
<1>6. QED
  BY <1>2, <1>4, <1>5 DEF Good

LEMMA UnassignedSaves ==
  ASSUME RowsExist, orderWorkers = << >>, NEW o
  PROVE  CanSave(o)
  BY DEF RowsExist, RowsOf, CanSave

\* A call just placed is nobody's yet.
LEMMA PlacedFree ==
  ASSUME TypeOK, RowsExist, ShapeInv, NEW h \in Slots, NEW s, CallWasPlaced(h, s),
         StepOf(h, s), ~(UNCHANGED calls), NEW c, c = Len(calls) + 1
  PROVE  ~Taken(c)'
<1>1. c = Len(calls) + 1
  OBVIOUS
<1>2. PICK w \in Workers : w = handlers[h].worker
  BY HandlerNow DEF CallWasPlaced, Goes, HandlerRows
<1>3. PICK r : r = [call |-> c, flag |-> "connecting", retry |-> 1]
  OBVIOUS
<1>4. /\ calls' = Append(calls, [worker |-> w, line |-> "ringing"])
      /\ responses' = [responses EXCEPT ![w] = Append(@, r)]
  BY <1>1, <1>2, <1>3 DEF CallWasPlaced
<1>5. calls'[c].worker = w /\ c \notin DOMAIN calls
  BY <1>1, <1>3, <1>4, PlacedKeeps DEF Lines
<1>6. ASSUME NEW i \in DOMAIN responses'[w], responses'[w][i].call = c
      PROVE  responses'[w][i].flag # "accepted"
  <2>1. responses[w] \in Seq([call : Nat, flag : Flags, retry : Nat])
    BY DEF TypeOK
  <2>2. responses'[w] = Append(responses[w], r)
    BY <1>4 DEF TypeOK
  <2>3. CASE i \in DOMAIN responses[w]
    <3>1. responses'[w][i] = responses[w][i]
      BY <2>1, <2>2, <2>3
    <3>2. QED
      BY <1>5, <1>6, <2>3, <3>1 DEF ShapeInv, ResponsesOwned
  <2>4. CASE i \notin DOMAIN responses[w]
    <3>1. responses'[w][i] = r /\ r.flag = "connecting"
      BY <1>3, <2>1, <2>2, <2>4
    <3>2. QED
      BY <3>1
  <2>5. QED
    BY <2>3, <2>4
<1>7. ~HasFlag(c, "accepted")'
  BY <1>5, <1>6 DEF HasFlag, ResponsesOf
<1>8. ASSUME NEW k \in Slots, Taking(handlers'[k]) PROVE handlers'[k].call # c
  <2>1. handlers'[h] = s /\ \A j \in Slots \ {h} : handlers'[j] = handlers[j]
    BY Moved
  <2>2. k # h
    BY <1>8, <2>1 DEF CallWasPlaced, Goes, Taking
  <2>3. handlers'[k] = handlers[k] /\ HandlerRows(handlers[k])
    BY <2>1, <2>2, HandlerNow
  <2>4. QED
    BY <1>5, <1>8, <2>3 DEF Taking, HandlerRows
<1>9. \A k \in Slots : Taking(handlers[k])' <=> Taking(handlers'[k])
  BY DEF Taking
<1>10. QED
  BY <1>1, <1>7, <1>8, <1>9 DEF Taken

\* The steps that move the order on whatever was there before.
MovesOn(h, s) ==
  \/ SearchTaken(h, s) /\ ~Stopped(order)
  \/ (StatusInserted(h, s) \/ StatusSaved(h, s)) /\ handlers[h].status = "searching"
  \/ WillingFound(h, s)
  \/ SearchSaved(h, s)
  \/ CallTaken(h, s) /\ ~Stopped(order)
  \/ NextLoaded(h, s) /\ s.at # "idle"
  \/ NextSaved(h, s) /\ CanSave(handlers[h].snap)
  \/ CallWasPlaced(h, s)
  \/ \E c \in jobs.discard : DiscardChecked(h, c, s) /\ s.at = "verdict"
  \/ VerdictGiven(h, s)
  \/ Assigned(h, s) /\ s.at # "idle"
  \/ UpdateTaken(h, s)

LEMMA MovedOn ==
  ASSUME TypeOK, RowsExist, EarlyInv, ShapeInv, "ivr" \notin Faults,
         NEW h \in Slots, NEW s, StepOf(h, s), MovesOn(h, s)
  PROVE  Good'
<1>1. /\ handlers'[h] = s /\ handlers[h] \in Handler /\ HandlerShape(handlers[h])
      /\ jobs \in Jobs /\ order \in OrderRow /\ pendingUpdates \in Nat
  BY Moved, HandlerNow DEF ShapeInv, TypeOK, Jobs
<1>2. ASSUME Carrying(s)' PROVE Good'
  BY <1>1, <1>2 DEF Good, Carrying, CanSave, Holding, Seeking, AtStatus
<1>3. CASE \/ SearchTaken(h, s) /\ ~Stopped(order)
           \/ CallTaken(h, s) /\ ~Stopped(order)
           \/ WillingFound(h, s)
           \/ \E c \in jobs.discard : DiscardChecked(h, c, s) /\ s.at = "verdict"
           \/ UpdateTaken(h, s)
  <2>1. Carrying(s)'
    BY <1>3 DEF SearchTaken, CallTaken, WillingFound, DiscardChecked, UpdateTaken, Goes,
      Carrying, Seeking, AtStatus
  <2>2. QED
    BY <1>2, <2>1
<1>4. CASE StatusInserted(h, s) /\ handlers[h].status = "searching"
  <2>1. s.at = "status_save" /\ s.status = "searching"
    BY <1>1, <1>4 DEF StatusInserted, Goes, HandlerShape
  <2>2. QED
    BY <1>2, <2>1 DEF Carrying, Seeking, AtStatus
<1>5. CASE StatusSaved(h, s) /\ handlers[h].status = "searching"
  <2>1. s.at = "search"
    BY <1>5 DEF StatusSaved, Goes, AfterStatus
  <2>2. QED
    BY <1>2, <2>1 DEF Carrying, Seeking, AtStatus
<1>6. CASE SearchSaved(h, s)
  <2>1. Early
    BY <1>6 DEF SearchSaved, Goes, Early, Seeking
  <2>2. CanSave(handlers[h].snap)
    BY <2>1, UnassignedSaves DEF EarlyInv, Beginning
  <2>3. jobs'.call > 0
    BY <1>1, <1>6, <2>2 DEF SearchSaved, Jobs
  <2>4. QED
    BY <2>3 DEF Good
<1>7. CASE NextLoaded(h, s) /\ s.at # "idle"
  <2>1. \/ s.at = "status_load" /\ s.status = "failed"
        \/ s.at = "next_calls" /\ s.snap = order
    BY <1>7 DEF NextLoaded, Goes
  <2>2. UNCHANGED order
    BY <1>7 DEF NextLoaded, db
  <2>3. QED
    BY <1>2, <2>1, <2>2 DEF Carrying, Holding, CanSave
<1>8. CASE NextSaved(h, s) /\ CanSave(handlers[h].snap)
  <2>1. s.at \in {"next_load", "place"}
    BY <1>8 DEF NextSaved, Goes
  <2>2. QED
    BY <1>2, <2>1 DEF Carrying
<1>9. CASE CallWasPlaced(h, s)
  <2>1. PICK c : c = Len(calls) + 1
    OBVIOUS
  <2>2. /\ calls' = Append(calls, [worker |-> handlers[h].worker, line |-> "ringing"])
        /\ order' = [order EXCEPT !.calls = @ \cup {c}]
        /\ jobs' = [jobs EXCEPT !.discard = @ \cup {c}]
    BY <1>9, <2>1 DEF CallWasPlaced
  <2>3. c \in order'.calls /\ c \in jobs'.discard
    BY <1>1, <2>2 DEF OrderRow, Jobs
  <2>4. ~(UNCHANGED calls)
    BY <2>2 DEF TypeOK
  <2>5. ~Taken(c)'
    BY <1>9, <2>1, <2>4, PlacedFree
  <2>6. QED
    BY <2>3, <2>5 DEF Good
<1>10. CASE VerdictGiven(h, s)
  <2>1. jobs'.call > 0
    BY <1>1, <1>10 DEF VerdictGiven, Jobs
  <2>2. QED
    BY <2>1 DEF Good
<1>11. CASE Assigned(h, s) /\ s.at # "idle"
  <2>1. pendingUpdates' > 0
    BY <1>1, <1>11 DEF Assigned, Goes
  <2>2. QED
    BY <2>1 DEF Good
<1>12. QED
  BY <1>3, <1>4, <1>5, <1>6, <1>7, <1>8, <1>9, <1>10, <1>11 DEF MovesOn

\* The steps after which nothing may be left to do.
Ends(h, s) ==
  \/ /\ Stopped(order)
     /\ \/ SearchTaken(h, s) \/ CallTaken(h, s)
        \/ \E c \in jobs.discard : DiscardChecked(h, c, s)
  \/ NextLoaded(h, s) /\ s.at = "idle"
  \/ (StatusInserted(h, s) \/ StatusSaved(h, s)) /\ handlers[h].status # "searching"

LEMMA GoodStep ==
  ASSUME TypeOK, RowsExist, EarlyInv, ShapeInv, CallsKept, "ivr" \notin Faults, Good,
         NEW h \in Slots, NEW s, StepOf(h, s), ~Ends(h, s)
  PROVE  Good'
<1>1. /\ handlers[h] \in Handler /\ HandlerShape(handlers[h]) /\ jobs \in Jobs /\ order \in OrderRow
  BY HandlerNow DEF ShapeInv, TypeOK, Jobs
<1>2. CASE MovesOn(h, s)
  BY <1>2, MovedOn
<1>3. CASE StatusLoaded(h, s) \/ NextChosen(h, s)
  <2>1. UNCHANGED <<order, jobs, pendingUpdates>>
    BY <1>3 DEF StatusLoaded, NextChosen, db, rest
  <2>2. Carrying(handlers[h]) => Carrying(s)
    BY <1>3 DEF StatusLoaded, NextChosen, Goes, Carrying, Seeking, AtStatus, Holding
  <2>3. QED
    BY <2>1, <2>2, GoodKept
<1>4. CASE CallCancelled(h, s)
  <2>1. /\ order'.workers = order.workers /\ order.calls \subseteq order'.calls
        /\ UNCHANGED <<jobs, pendingUpdates>>
    BY <1>1, <1>4 DEF CallCancelled, OrderRow, rest
  <2>2. ~Carrying(handlers[h])
    BY <1>4 DEF CallCancelled, Goes, Carrying, Seeking, AtStatus, Holding
  <2>3. QED
    BY <2>1, <2>2, GoodKept
<1>5. CASE StatusLost(h, s)
  <2>1. ~Early
    BY <1>5, UnassignedSaves DEF StatusLost, EarlyInv, Beginning
  <2>2. ~Carrying(handlers[h])
    BY <1>5, <2>1 DEF StatusLost, Goes, Carrying, Seeking, AtStatus, Holding, Early
  <2>3. UNCHANGED <<order, jobs, pendingUpdates>>
    BY <1>5 DEF StatusLost, db, rest
  <2>4. QED
    BY <2>2, <2>3, GoodKept
<1>6. CASE NextSaved(h, s) /\ ~CanSave(handlers[h].snap)
  <2>1. UNCHANGED <<order, jobs, pendingUpdates>>
    BY <1>6 DEF NextSaved, rest
  <2>2. ~Carrying(handlers[h])
    BY <1>6 DEF NextSaved, Goes, Carrying, Seeking, AtStatus, Holding
  <2>3. QED
    BY <2>1, <2>2, GoodKept
<1>7. ASSUME NEW c \in jobs.discard, DiscardChecked(h, c, s), s.at # "verdict", ~Stopped(order)
      PROVE  Good'
  <2>1. UNCHANGED <<order, pendingUpdates>> /\ s = handlers[h]
    BY <1>7 DEF DiscardChecked, Goes, db, rest
  <2>2. c \notin order.calls \/ Taken(c)
    BY <1>7 DEF DiscardChecked, Goes, Stopped, Cancelled, Taken
  <2>3. jobs'.search = jobs.search /\ jobs'.call = jobs.call /\ jobs'.discard = jobs.discard \ {c}
    BY <1>1, <1>7 DEF DiscardChecked, Jobs
  <2>4. QED
    BY <2>1, <2>2, <2>3, GoodKept
<1>8. CASE Assigned(h, s) /\ s.at = "idle"
  <2>1. UNCHANGED <<order, jobs, pendingUpdates>>
    BY <1>8 DEF Assigned, Goes
  <2>2. ~Carrying(handlers[h])
    BY <1>8 DEF Assigned, Goes, Carrying, Seeking, AtStatus, Holding
  <2>3. QED
    BY <2>1, <2>2, GoodKept
<1>9. CASE \/ TaskCreated(h, s) \/ TaskSaved(h, s) \/ AcceptanceRecorded(h, s) \/ FollowedUp(h, s)
           \/ CancelAsked(h, s) \/ TasksWereCancelled(h, s)
           \/ \E c \in DOMAIN calls : AcceptPressed(h, c, s)
  <2>1. /\ order'.workers = order.workers /\ order'.calls = order.calls /\ UNCHANGED pendingUpdates
        /\ jobs'.search = jobs.search /\ jobs'.call = jobs.call /\ jobs'.discard = jobs.discard
    BY <1>1, <1>9 DEF TaskCreated, TaskSaved, AcceptanceRecorded, FollowedUp, CancelAsked,
      TasksWereCancelled, AcceptPressed, Jobs, OrderRow, db, rest
  <2>2. ~Carrying(handlers[h])
    BY <1>9 DEF TaskCreated, TaskSaved, AcceptanceRecorded, FollowedUp, CancelAsked,
      TasksWereCancelled, AcceptPressed, Goes, Carrying, Seeking, AtStatus, Holding
  <2>3. QED
    BY <2>1, <2>2, GoodKept
<1>10. ASSUME NEW c \in jobs.discard, DiscardChecked(h, c, s) PROVE Good'
  BY <1>2, <1>7, <1>10 DEF MovesOn, Ends
<1>11. CASE NextSaved(h, s) \/ Assigned(h, s)
  BY <1>2, <1>6, <1>8, <1>11 DEF MovesOn
<1>12. CASE \/ SearchTaken(h, s) \/ CallTaken(h, s) \/ NextLoaded(h, s) \/ StatusInserted(h, s)
            \/ StatusSaved(h, s) \/ WillingFound(h, s) \/ SearchSaved(h, s) \/ CallWasPlaced(h, s)
            \/ VerdictGiven(h, s) \/ UpdateTaken(h, s)
  BY <1>2, <1>12 DEF MovesOn, Ends
<1>13. QED
  BY <1>3, <1>4, <1>5, <1>9, <1>10, <1>11, <1>12 DEF StepOf

LEMMA PhoneGood ==
  ASSUME TypeOK, RowsExist, CallsKept, Good, NEW d \in DOMAIN calls, ReceiveCall(d) \/ RejectOrder(d)
  PROVE  Good'
<1>1. UNCHANGED <<order, pendingUpdates, handlers>> /\ jobs \in Jobs
  BY DEF ReceiveCall, RejectOrder, rest, TypeOK, Jobs
<1>2. /\ jobs'.search = jobs.search /\ jobs'.discard = jobs.discard
      /\ jobs.call \in Nat /\ jobs'.call \in {jobs.call, jobs.call + 1}
  BY <1>1 DEF ReceiveCall, RejectOrder, Jobs
<1>3. ASSUME NEW c \in DOMAIN calls, Taken(c)' PROVE Taken(c)
  <2>1. \A k \in Slots : Taking(handlers[k])' <=> Taking(handlers[k])
    BY <1>1 DEF Taking
  <2>2. CASE \E k \in Slots : Taking(handlers[k])' /\ handlers'[k].call = c
    BY <1>1, <2>1, <2>2 DEF Taken
  <2>3. CASE HasFlag(c, "accepted")'
    <3>1. PICK u \in Workers : u = calls[c].worker /\ calls'[c].worker = u
      BY CallTyped DEF CallsKept
    <3>2. CASE UNCHANGED responses
      BY <2>3, <3>1, <3>2 DEF Taken, HasFlag, ResponsesOf
    <3>3. ASSUME NEW f \in {"connected", "rejected"}, Respond(d, f) PROVE Taken(c)
      <4>1. PICK r : r = [call |-> d, flag |-> f, retry |-> RetryCount(d, f)]
        OBVIOUS
      <4>2. r.flag # "accepted"
        BY <4>1
      <4>3. responses'[u] \in {responses[u], Append(responses[u], r)}
        BY <3>3, <4>1 DEF Respond, TypeOK
      <4>4. QED
        BY <2>3, <3>1, <4>2, <4>3, FlagBack DEF Taken
    <3>4. QED
      BY <3>2, <3>3 DEF ReceiveCall, RejectOrder
  <2>4. QED
    BY <1>3, <2>2, <2>3 DEF Taken
<1>4. CASE jobs.search \/ jobs.call > 0 \/ pendingUpdates > 0
  <2>1. jobs.call > 0 => jobs'.call > 0
    BY <1>2
  <2>2. QED
    BY <1>1, <1>2, <1>4, <2>1 DEF Good
<1>5. ASSUME NEW k \in Slots, Carrying(handlers[k]) PROVE Good'
  BY <1>1, <1>5 DEF Good, Carrying, CanSave, Holding, Seeking, AtStatus
<1>6. ASSUME NEW c \in jobs.discard, c \in order.calls, ~Taken(c) PROVE Good'
  <2>1. ~Taken(c)'
    BY <1>3, <1>6 DEF RowsExist
  <2>2. QED
    BY <1>1, <1>2, <1>6, <2>1 DEF Good
<1>7. QED
  BY <1>4, <1>5, <1>6 DEF Good

\* An order that reads `searching` was neither accepted nor failed before.
LEMMA NotEver ==
  ASSUME TypeOK, RowsExist, LogShape, Latest(order) = "searching"
  PROVE  ~Ever(order, "accepted") /\ ~Ever(order, "failed")
<1>1. PICK n \in Nat : DOMAIN statusLog = 1..n
  BY DEF TypeOK
<1>2. PICK S : S = order.statuses
  OBVIOUS
<1>3. S \subseteq 1..n /\ S # {} /\ statusLog[Max(S)] = "searching"
  BY <1>1, <1>2 DEF RowsExist, RowsOf, Latest
<1>4. Max(S) \in S /\ \A y \in S : Max(S) >= y
  BY <1>3, MaxInSet
<1>5. PICK m \in 1..n : m = Max(S)
  BY <1>3, <1>4
<1>6. \A i \in S : statusLog[i] \notin {"accepted", "failed"}
  <2> TAKE i \in S
  <2>1. i \in 1..n /\ (i = m \/ i < m)
    BY <1>3, <1>4, <1>5
  <2>2. CASE i < m
    BY <1>1, <1>3, <1>5, <2>1, <2>2 DEF LogShape
  <2>3. QED
    BY <1>3, <1>5, <2>1, <2>2
<1>7. QED
  BY <1>2, <1>6 DEF Ever

Alive == Latest(order) = "searching" => Good

SearchInv == EarlyInv /\ ShapeInv /\ PotentialSet

LEMMA NextSearch ==
  ASSUME TypeOK, RowsExist, SearchInv, [Next]_vars, UNCHANGED ends
  PROVE  SearchInv'
  BY NextEarly, NextShape, NextPotential DEF SearchInv

LEMMA InitSearch ==
  ASSUME Init
  PROVE  SearchInv
<1>1. handlers = [h \in Slots |-> Idle] /\ calls = << >> /\ jobs.call = 0
  BY DEF Init
<1>2. \A h \in Slots : ~Calling(handlers[h])
  BY <1>1, IdleFields DEF Calling
<1>3. ~Begun
  BY <1>1, <1>2 DEF Begun
<1>4. QED
  BY <1>3, InitEarly, InitShape DEF SearchInv, PotentialSet

LEMMA NextAlive ==
  ASSUME TypeOK, RowsExist, SearchInv, Alive, [Next]_vars, UNCHANGED ends, "ivr" \notin Faults
  PROVE  Alive'
<1>1. LogKept /\ CallsKept
  BY HistoryKept
<1>2. ASSUME NEW h \in Slots, NEW s, StepOf(h, s), Latest(order)' = "searching" PROVE Good'
  <2>1. CASE MovesOn(h, s)
    BY <1>2, <2>1, MovedOn DEF SearchInv
  <2>2. CASE ~MovesOn(h, s)
    <3>1. ~StatusInserted(h, s) /\ ~StatusSaved(h, s)
      BY <1>1, <1>2, <2>2, LatestStep DEF MovesOn, SearchInv
    <3>2. Latest(order) = "searching"
      BY <1>1, <1>2, <2>2, <3>1, LatestStep DEF MovesOn, SearchInv
    <3>3. ~NobodyLeft(order)
      BY <3>2, NotEver DEF NobodyLeft, SearchInv, ShapeInv
    <3>4. NextLoaded(h, s) => order.potential # << >>
      <4>1. NextLoaded(h, s) => Begun
        BY DEF NextLoaded, Goes, Begun, Calling
      <4>2. QED
        BY <3>2, <4>1 DEF SearchInv, PotentialSet
    <3>5. ~Ends(h, s)
      BY <3>1, <3>2, <3>3, <3>4 DEF Ends, NextLoaded, Goes, Stopped
    <3>6. Good
      BY <3>2 DEF Alive
    <3>7. QED
      BY <1>1, <1>2, <3>5, <3>6, GoodStep DEF SearchInv
  <2>3. QED
    BY <2>1, <2>2
<1>3. ASSUME NEW c \in DOMAIN calls, ReceiveCall(c) \/ RejectOrder(c) PROVE Alive'
  <2>1. UNCHANGED <<statusLog, order>>
    BY <1>3 DEF ReceiveCall, RejectOrder
  <2>2. Latest(order)' = Latest(order)
    BY <2>1 DEF Latest
  <2>3. QED
    BY <1>1, <1>3, <2>2, PhoneGood DEF Alive
<1>4. CASE UNCHANGED vars
  BY <1>4 DEF vars, db, rest, Alive, Latest, Good, Carrying, CanSave, Holding, Seeking, AtStatus,
    Taken, Taking, HasFlag, ResponsesOf
<1>5. QED
  BY <1>2, <1>3, <1>4, Steps DEF Alive

\* While the order reads `searching` some job, update or handler is left that will
\* move it on: no interleaving of the workers' answers, the discard checks, the
\* cancellations and the saves that overwrite each other loses the search, as long as
\* no second acceptance ends the process.
THEOREM SearchAliveTheorem ==
  ASSUME "ivr" \notin Faults
  PROVE  Spec => []SearchAlive
<1>1. Init => SearchInv /\ Alive
  <2>1. Init => jobs.search
    <3> SUFFICES ASSUME Init PROVE jobs.search
      OBVIOUS
    <3>1. jobs.search /\ jobs.call = 0
      BY DEF Init
    <3>2. QED
      BY <3>1
  <2>2. Init => Good
    BY <2>1 DEF Good
  <2>3. QED
    BY <2>2, InitSearch DEF Alive
<1>2. /\ TypeOK /\ RowsExist /\ (ends = 0 => SearchInv /\ Alive) /\ [Next]_vars
      => (ends = 0 => SearchInv /\ Alive)'
  BY NotEndedYet, NextSearch, NextAlive
<1>3. (ends = 0 => SearchInv /\ Alive) => SearchAlive
  BY DEF Alive, Good, SearchAlive, Carrying, Free, Seeking, AtStatus, Holding
<1>4. QED
  BY <1>1, <1>2, <1>3, TypeCorrect, PTL DEF Spec

(***************************************************************************)
(* An order nobody cancels.                                                *)
(***************************************************************************)
NotCancelling(s) ==
  s.at \notin {"cancel_call", "cancel_tasks"} /\ (AtStatus(s) => s.status # "cancelled")

Uncancelled ==
  cancels = 0 =>
    /\ \A i \in DOMAIN statusLog : statusLog[i] # "cancelled"
    /\ \A h \in Slots : NotCancelling(handlers[h])

Unserved(s) ==
  /\ s.at \notin {"task1", "task2", "task3", "respond", "follow_up"}
  /\ AtStatus(s) => s.status # "accepted"

\* Until the customer is told of a worker, none is assigned.
Untold ==
  "served" \notin notices =>
    /\ orderWorkers = << >> /\ pendingUpdates = 0
    /\ \A h \in Slots : Unserved(handlers[h])

HasSnap(s) == Holding(s) \/ s.at \in {"status_insert", "status_save"}

\* Once the calls have begun, every copy of the order holds the same workers.
Settled ==
  cancels = 0 /\ Begun =>
    /\ order.potential # << >>
    /\ \A h \in Slots : HasSnap(handlers[h]) => handlers[h].snap.potential = order.potential

\* cancels only grows.
LEMMA CancelStep ==
  ASSUME TypeOK, NEW h \in Slots, NEW s, StepOf(h, s)
  PROVE  UNCHANGED cancels \/ (CancelAsked(h, s) /\ cancels' # 0)
  BY DEF StepOf, StatusLoaded, StatusInserted, CallCancelled, StatusSaved, StatusLost,
         SearchTaken, WillingFound, SearchSaved, CallTaken, NextLoaded, NextChosen, NextSaved,
         CallWasPlaced, DiscardChecked, VerdictGiven, Assigned, UpdateTaken, TaskCreated,
         TaskSaved, AcceptanceRecorded, FollowedUp, CancelAsked, TasksWereCancelled,
         AcceptPressed, rest, TypeOK

LEMMA StepUncancelled ==
  ASSUME TypeOK, RowsExist, ShapeInv, Uncancelled, NEW h \in Slots, NEW s, StepOf(h, s)
  PROVE  Uncancelled'
<1>1. SUFFICES ASSUME cancels' = 0
               PROVE  /\ \A i \in DOMAIN statusLog' : statusLog'[i] # "cancelled"
                      /\ \A k \in Slots : NotCancelling(handlers'[k])
  BY DEF Uncancelled, NotCancelling, AtStatus
<1>2. ~CancelAsked(h, s) /\ cancels = 0
  BY <1>1, CancelStep DEF CancelAsked
<1>3. /\ handlers'[h] = s /\ \A k \in Slots \ {h} : handlers'[k] = handlers[k]
      /\ handlers[h] \in Handler /\ HandlerShape(handlers[h]) /\ NotCancelling(handlers[h])
  BY <1>2, Moved, HandlerNow DEF ShapeInv, Uncancelled
<1>4. NotCancelling(s)
  <2>1. CASE s = handlers[h]
    BY <1>3, <2>1
  <2>2. CASE \/ StatusLoaded(h, s) \/ StatusInserted(h, s) \/ StatusSaved(h, s)
             \/ StatusLost(h, s) \/ SearchTaken(h, s) \/ WillingFound(h, s) \/ SearchSaved(h, s)
    BY <1>3, <2>1, <2>2 DEF StatusLoaded, StatusInserted, StatusSaved, StatusLost, SearchTaken,
      WillingFound, SearchSaved, Goes, AfterStatus, NotCancelling, AtStatus, HandlerShape
  <2>3. CASE \/ CallCancelled(h, s) \/ CallTaken(h, s) \/ NextLoaded(h, s) \/ NextChosen(h, s)
             \/ NextSaved(h, s) \/ CallWasPlaced(h, s) \/ VerdictGiven(h, s) \/ Assigned(h, s)
             \/ UpdateTaken(h, s) \/ TaskCreated(h, s) \/ TaskSaved(h, s)
             \/ AcceptanceRecorded(h, s) \/ FollowedUp(h, s) \/ TasksWereCancelled(h, s)
             \/ \E c \in jobs.discard : DiscardChecked(h, c, s)
             \/ \E c \in DOMAIN calls : AcceptPressed(h, c, s)
    BY <2>1, <2>3 DEF CallCancelled, CallTaken, NextLoaded, NextChosen, NextSaved, CallWasPlaced,
      VerdictGiven, Assigned, UpdateTaken, TaskCreated, TaskSaved, AcceptanceRecorded, FollowedUp,
      TasksWereCancelled, DiscardChecked, AcceptPressed, Goes, NotCancelling, AtStatus
  <2>4. QED
    BY <1>2, <2>2, <2>3 DEF StepOf
<1>5. \A k \in Slots : NotCancelling(handlers'[k])
  <2>1. \A k \in Slots \ {h} : NotCancelling(handlers'[k])
    BY <1>2, <1>3 DEF Uncancelled
  <2>2. QED
    BY <1>3, <1>4, <2>1
<1>6. \A i \in DOMAIN statusLog' : statusLog'[i] # "cancelled"
  <2>1. CASE UNCHANGED statusLog
    BY <1>2, <2>1 DEF Uncancelled
  <2>2. CASE StatusInserted(h, s)
    <3>1. PICK st : st = handlers[h].status
      OBVIOUS
    <3>2. statusLog' = Append(statusLog, st) /\ st # "cancelled" /\ statusLog \in Seq(Statuses)
      BY <1>3, <2>2, <3>1 DEF StatusInserted, Goes, NotCancelling, AtStatus, TypeOK
    <3>3. QED
      BY <1>2, <3>2 DEF Uncancelled
  <2>3. QED
    BY <2>1, <2>2, Frames
<1>7. QED
  BY <1>5, <1>6

\* Nobody is untold anything.
LEMMA NoticesKept ==
  ASSUME TypeOK, RowsExist, [Next]_vars
  PROVE  notices \subseteq notices'
<1>1. ASSUME NEW h \in Slots, NEW s, StepOf(h, s) PROVE notices \subseteq notices'
  BY <1>1 DEF StepOf, StatusLoaded, StatusInserted, CallCancelled, StatusSaved, StatusLost,
       SearchTaken, WillingFound, SearchSaved, CallTaken, NextLoaded, NextChosen, NextSaved,
       CallWasPlaced, DiscardChecked, VerdictGiven, Assigned, UpdateTaken, TaskCreated,
       TaskSaved, AcceptanceRecorded, FollowedUp, CancelAsked, TasksWereCancelled,
       AcceptPressed, rest, Notify
<1>2. QED
  BY <1>1, AllSteps DEF ReceiveCall, RejectOrder, ProcessEnd, vars, rest

LEMMA StepUntold ==
  ASSUME TypeOK, RowsExist, AcceptInv, Untold, NEW h \in Slots, NEW s, StepOf(h, s)
  PROVE  Untold'
<1>1. SUFFICES ASSUME "served" \notin notices'
               PROVE  /\ orderWorkers' = << >> /\ pendingUpdates' = 0
                      /\ \A k \in Slots : Unserved(handlers'[k])
  BY DEF Untold, Unserved, AtStatus
<1>2. "served" \notin notices /\ ~(Assigned(h, s) /\ ~(UNCHANGED orderWorkers))
  <2>1. notices \subseteq notices'
    BY DEF StepOf, StatusLoaded, StatusInserted, CallCancelled, StatusSaved, StatusLost,
         SearchTaken, WillingFound, SearchSaved, CallTaken, NextLoaded, NextChosen, NextSaved,
         CallWasPlaced, DiscardChecked, VerdictGiven, Assigned, UpdateTaken, TaskCreated,
         TaskSaved, AcceptanceRecorded, FollowedUp, CancelAsked, TasksWereCancelled,
         AcceptPressed, rest, Notify
  <2>2. QED
    BY <1>1, <2>1 DEF Assigned
<1>3. /\ handlers'[h] = s /\ \A k \in Slots \ {h} : handlers'[k] = handlers[k]
      /\ LoadsOther(handlers[h]) /\ Unserved(handlers[h]) /\ pendingUpdates = 0
  BY <1>2, Moved DEF AcceptInv, Untold
<1>4. CASE Assigned(h, s)
  <2>1. s.at = "idle" /\ UNCHANGED <<orderWorkers, pendingUpdates>>
    BY <1>2, <1>4 DEF Assigned, Goes, TypeOK
  <2>2. Unserved(s)
    BY <2>1 DEF Unserved, AtStatus
  <2>3. \A k \in Slots \ {h} : Unserved(handlers'[k])
    BY <1>2, <1>3 DEF Untold
  <2>4. QED
    BY <1>2, <1>3, <2>1, <2>2, <2>3 DEF Untold
<1>5. CASE ~Assigned(h, s)
  <2>1. UNCHANGED orderWorkers
    BY <1>5, Frames
  <2>2. UNCHANGED pendingUpdates
    BY <1>3, <1>5 DEF StepOf, StatusLoaded, StatusInserted, CallCancelled, StatusSaved, StatusLost,
         SearchTaken, WillingFound, SearchSaved, CallTaken, NextLoaded, NextChosen, NextSaved,
         CallWasPlaced, DiscardChecked, VerdictGiven, UpdateTaken, TaskCreated,
         TaskSaved, AcceptanceRecorded, FollowedUp, CancelAsked, TasksWereCancelled,
         AcceptPressed, rest
  <2>3. Unserved(s)
    <3>1. CASE s = handlers[h]
      BY <1>3, <3>1
    <3>2. CASE \/ StatusLoaded(h, s) \/ StatusInserted(h, s) \/ StatusSaved(h, s)
               \/ StatusLost(h, s) \/ SearchTaken(h, s) \/ WillingFound(h, s) \/ SearchSaved(h, s)
      BY <1>3, <3>1, <3>2 DEF StatusLoaded, StatusInserted, StatusSaved, StatusLost, SearchTaken,
        WillingFound, SearchSaved, Goes, AfterStatus, Unserved, AtStatus, LoadsOther
    <3>3. CASE \/ CallCancelled(h, s) \/ CallTaken(h, s) \/ NextLoaded(h, s) \/ NextChosen(h, s)
               \/ NextSaved(h, s) \/ CallWasPlaced(h, s) \/ VerdictGiven(h, s)
               \/ FollowedUp(h, s) \/ TasksWereCancelled(h, s) \/ CancelAsked(h, s)
               \/ \E c \in jobs.discard : DiscardChecked(h, c, s)
               \/ \E c \in DOMAIN calls : AcceptPressed(h, c, s)
      BY <3>1, <3>3 DEF CallCancelled, CallTaken, NextLoaded, NextChosen, NextSaved, CallWasPlaced,
        VerdictGiven, FollowedUp, TasksWereCancelled, CancelAsked, DiscardChecked, AcceptPressed,
        Goes, Unserved, AtStatus
    <3>4. ~UpdateTaken(h, s) /\ ~TaskCreated(h, s) /\ ~TaskSaved(h, s) /\ ~AcceptanceRecorded(h, s)
      BY <1>3 DEF UpdateTaken, TaskCreated, TaskSaved, AcceptanceRecorded, Goes, Unserved
    <3>5. QED
      BY <1>5, <3>2, <3>3, <3>4 DEF StepOf
  <2>4. \A k \in Slots \ {h} : Unserved(handlers'[k])
    BY <1>2, <1>3 DEF Untold
  <2>5. QED
    BY <1>2, <1>3, <2>1, <2>2, <2>3, <2>4 DEF Untold
<1>6. QED
  BY <1>4, <1>5

LEMMA StepSettled ==
  ASSUME TypeOK, RowsExist, SearchInv, Uncancelled, Settled, NEW h \in Slots, NEW s, StepOf(h, s)
  PROVE  Settled'
<1>1. SUFFICES ASSUME cancels' = 0, Begun'
               PROVE  /\ order'.potential # << >>
                      /\ \A k \in Slots : HasSnap(handlers'[k]) =>
                                          handlers'[k].snap.potential = order'.potential
  BY DEF Settled, HasSnap, Holding
<1>2. cancels = 0
  BY <1>1, CancelStep
<1>3. /\ handlers'[h] = s /\ \A k \in Slots \ {h} : handlers'[k] = handlers[k]
      /\ handlers[h] \in Handler /\ handlers[h].snap \in OrderRow /\ HandlerShape(handlers[h])
      /\ order \in OrderRow
  BY Moved, HandlerNow DEF SearchInv, ShapeInv, TypeOK
<1>4. CASE SearchSaved(h, s) /\ CanSave(handlers[h].snap)
  <2>1. /\ order' = [handlers[h].snap EXCEPT !.statuses = order.statuses]
        /\ handlers[h].at = "search_save" /\ s.at = "idle"
    BY <1>4 DEF SearchSaved, Goes
  <2>2. order'.potential # << >>
    BY <1>3, <2>1 DEF OrderRow, HandlerShape
  <2>3. Seeking(handlers[h]) /\ Early
    BY <2>1 DEF Seeking, Early
  <2>4. ASSUME NEW k \in Slots PROVE ~HasSnap(handlers'[k])
    <3>1. CASE k = h
      BY <1>3, <2>1, <3>1 DEF HasSnap, Holding
    <3>2. CASE k # h
      <4>1. EarlyHandler(handlers[k]) /\ ~Seeking(handlers[k]) /\ NotCancelling(handlers[k])
        BY <1>2, <2>3, <3>2 DEF SearchInv, EarlyInv, Beginning, OneSeeker, Uncancelled
      <4>2. ~HasSnap(handlers[k])
        BY <4>1 DEF EarlyHandler, Seeking, NotCancelling, AtStatus, HasSnap, Holding
      <4>3. QED
        BY <1>3, <3>2, <4>2
    <3>3. QED
      BY <3>1, <3>2
  <2>5. QED
    BY <2>2, <2>4
<1>5. CASE ~(SearchSaved(h, s) /\ CanSave(handlers[h].snap))
  <2>1. Begun /\ ~Early
    BY <1>1, <1>5, BegunStep, EarlyNotBegun DEF SearchInv
  <2>2. /\ order.potential # << >>
        /\ \A k \in Slots : HasSnap(handlers[k]) => handlers[k].snap.potential = order.potential
    BY <1>2, <2>1 DEF Settled
  <2>3. order'.potential = order.potential
    <3>1. CASE StatusInserted(h, s)
      BY <1>3, <3>1 DEF StatusInserted, OrderRow
    <3>2. CASE StatusSaved(h, s)
      <4>1. order' = handlers[h].snap /\ HasSnap(handlers[h])
        BY <3>2 DEF StatusSaved, Save, Goes, HasSnap
      <4>2. QED
        BY <2>2, <4>1
    <3>3. CASE NextSaved(h, s) /\ CanSave(handlers[h].snap)
      <4>1. /\ order' = [handlers[h].snap EXCEPT !.cursor = @ + 1]
            /\ HasSnap(handlers[h])
        BY <3>3 DEF NextSaved, Goes, HasSnap, Holding
      <4>2. order'.potential = handlers[h].snap.potential
        BY <1>3, <4>1 DEF OrderRow
      <4>3. QED
        BY <2>2, <4>1, <4>2
    <3>4. QED
      BY <1>5, <3>1, <3>2, <3>3, OrderFrames
  <2>4. HasSnap(s) => s.snap.potential = order.potential
    <3>1. CASE s = handlers[h]
      BY <2>2, <3>1
    <3>2. CASE StatusLoaded(h, s) \/ NextLoaded(h, s) \/ UpdateTaken(h, s)
      <4>1. HasSnap(s) => s.snap = order
        BY <3>2 DEF StatusLoaded, NextLoaded, UpdateTaken, Goes, HasSnap, Holding
      <4>2. QED
        BY <4>1
    <3>3. CASE StatusInserted(h, s) \/ NextChosen(h, s)
      <4>1. HasSnap(handlers[h]) /\ s.snap.potential = handlers[h].snap.potential
        BY <1>3, <3>3 DEF StatusInserted, NextChosen, Goes, HasSnap, Holding, OrderRow
      <4>2. QED
        BY <2>2, <4>1
    <3>4. CASE \/ CallCancelled(h, s) \/ StatusSaved(h, s) \/ StatusLost(h, s) \/ SearchTaken(h, s)
               \/ WillingFound(h, s) \/ SearchSaved(h, s) \/ CallTaken(h, s) \/ NextSaved(h, s)
               \/ CallWasPlaced(h, s) \/ VerdictGiven(h, s) \/ Assigned(h, s) \/ TaskCreated(h, s)
               \/ TaskSaved(h, s) \/ AcceptanceRecorded(h, s) \/ FollowedUp(h, s)
               \/ CancelAsked(h, s) \/ TasksWereCancelled(h, s)
               \/ \E c \in jobs.discard : DiscardChecked(h, c, s)
               \/ \E c \in DOMAIN calls : AcceptPressed(h, c, s)
      <4>1. s = handlers[h] \/ ~HasSnap(s)
        BY <3>4 DEF CallCancelled, StatusSaved, StatusLost, SearchTaken, WillingFound, SearchSaved,
          CallTaken, NextSaved, CallWasPlaced, VerdictGiven, Assigned, TaskCreated, TaskSaved,
          AcceptanceRecorded, FollowedUp, CancelAsked, TasksWereCancelled, DiscardChecked,
          AcceptPressed, Goes, AfterStatus, HasSnap, Holding
      <4>2. QED
        BY <3>1, <4>1
    <3>5. QED
      BY <3>2, <3>3, <3>4 DEF StepOf
  <2>5. ASSUME NEW k \in Slots, HasSnap(handlers'[k])
        PROVE  handlers'[k].snap.potential = order'.potential
    <3>1. CASE k = h
      BY <1>3, <2>3, <2>4, <2>5, <3>1
    <3>2. CASE k # h
      BY <1>3, <2>2, <2>3, <2>5, <3>2
    <3>3. QED
      BY <3>1, <3>2
  <2>6. QED
    BY <2>2, <2>3, <2>5
<1>6. QED
  BY <1>4, <1>5

EndInv == Uncancelled /\ Untold /\ Settled

\* A worker who answers changes nothing of what is said here of the handlers.
LEMMA PhoneEnd ==
  ASSUME EndInv, NEW c \in DOMAIN calls, ReceiveCall(c) \/ RejectOrder(c)
  PROVE  EndInv'
<1>1. UNCHANGED <<statusLog, orderWorkers, order, rest, handlers>> /\ Begun
  BY DEF ReceiveCall, RejectOrder, Begun
<1>2. Uncancelled'
  BY <1>1 DEF EndInv, Uncancelled, NotCancelling, AtStatus, rest
<1>3. Untold'
  BY <1>1 DEF EndInv, Untold, Unserved, AtStatus, rest
<1>4. Settled'
  BY <1>1 DEF EndInv, Settled, HasSnap, Holding, rest
<1>5. QED
  BY <1>2, <1>3, <1>4 DEF EndInv

LEMMA NextEnd ==
  ASSUME TypeOK, RowsExist, AcceptInv, SearchInv, EndInv, [Next]_vars, UNCHANGED ends
  PROVE  EndInv'
<1>1. ASSUME NEW h \in Slots, NEW s, StepOf(h, s) PROVE EndInv'
  BY <1>1, StepUncancelled, StepUntold, StepSettled DEF EndInv, SearchInv
<1>2. CASE UNCHANGED vars
  <2>1. Uncancelled'
    BY <1>2 DEF vars, db, rest, EndInv, Uncancelled, NotCancelling, AtStatus
  <2>2. Untold'
    BY <1>2 DEF vars, db, rest, EndInv, Untold, Unserved, AtStatus
  <2>3. Settled'
    BY <1>2 DEF vars, db, rest, EndInv, Settled, HasSnap, Holding, Begun, Calling
  <2>4. QED
    BY <2>1, <2>2, <2>3 DEF EndInv
<1>3. QED
  BY <1>1, <1>2, PhoneEnd, Steps

LEMMA InitEnd ==
  ASSUME Init
  PROVE  EndInv
<1>1. /\ handlers = [h \in Slots |-> Idle] /\ calls = << >> /\ jobs.call = 0
      /\ statusLog = <<"placed">> /\ orderWorkers = << >> /\ pendingUpdates = 0
  BY DEF Init
<1>2. \A h \in Slots : handlers[h].at = "idle"
  BY <1>1, IdleFields
<1>3. ~Begun
  BY <1>1, <1>2 DEF Begun, Calling
<1>4. Uncancelled
  BY <1>1, <1>2 DEF Uncancelled, NotCancelling, AtStatus
<1>5. Untold
  BY <1>1, <1>2 DEF Untold, Unserved, AtStatus
<1>6. QED
  BY <1>3, <1>4, <1>5 DEF EndInv, Settled

(***************************************************************************)
(* The customer of an order nobody cancels is told how it ended.           *)
(***************************************************************************)
FailedRow == \E i \in DOMAIN statusLog : statusLog[i] = "failed"

FailingSave == \E h \in Slots : handlers[h].at = "status_save" /\ handlers[h].status = "failed"

\* While the customer was told nothing, the order has a reason to go on, or the
\* handler that records its failure is about to notify.
Told ==
  cancels = 0 /\ notices = {} => (FailedRow => FailingSave) /\ (Good \/ FailingSave)

LEMMA FailingSaveKept ==
  ASSUME TypeOK, RowsExist, Faults = {}, orderWorkers = << >>, FailingSave,
         NEW h \in Slots, NEW s, StepOf(h, s), notices' = {}
  PROVE  FailingSave'
<1>1. handlers'[h] = s /\ \A k \in Slots \ {h} : handlers'[k] = handlers[k]
  BY Moved
<1>2. PICK k \in Slots : handlers[k].at = "status_save" /\ handlers[k].status = "failed"
  BY DEF FailingSave
<1>3. CASE k # h
  BY <1>1, <1>2, <1>3 DEF FailingSave
<1>4. CASE k = h
  <2>1. StatusSaved(h, s) \/ StatusLost(h, s)
    BY <1>2, <1>4 DEF StepOf, StatusLoaded, StatusInserted, CallCancelled, SearchTaken,
      WillingFound, SearchSaved, CallTaken, NextLoaded, NextChosen, NextSaved, CallWasPlaced,
      DiscardChecked, VerdictGiven, Assigned, UpdateTaken, TaskCreated, TaskSaved,
      AcceptanceRecorded, FollowedUp, CancelAsked, TasksWereCancelled, AcceptPressed, Goes
  <2>2. ~StatusLost(h, s)
    BY UnassignedSaves DEF StatusLost
  <2>3. ~StatusSaved(h, s)
    BY <1>2, <1>4 DEF StatusSaved, Notify
  <2>4. QED
    BY <2>1, <2>2, <2>3
<1>5. QED
  BY <1>3, <1>4

LEMMA StepTold ==
  ASSUME TypeOK, RowsExist, SearchInv, EndInv, Told, Faults = {}, CallsKept,
         NEW h \in Slots, NEW s, StepOf(h, s)
  PROVE  Told'
<1>1. SUFFICES ASSUME cancels' = 0, notices' = {}
               PROVE  (FailedRow' => FailingSave') /\ (Good' \/ FailingSave')
  BY DEF Told
<1>2. cancels = 0 /\ notices = {}
  <2>1. notices \subseteq notices'
    BY DEF StepOf, StatusLoaded, StatusInserted, CallCancelled, StatusSaved, StatusLost,
         SearchTaken, WillingFound, SearchSaved, CallTaken, NextLoaded, NextChosen, NextSaved,
         CallWasPlaced, DiscardChecked, VerdictGiven, Assigned, UpdateTaken, TaskCreated,
         TaskSaved, AcceptanceRecorded, FollowedUp, CancelAsked, TasksWereCancelled,
         AcceptPressed, rest, Notify
  <2>2. QED
    BY <1>1, <2>1, CancelStep
<1>3. /\ orderWorkers = << >> /\ Unserved(handlers[h]) /\ NotCancelling(handlers[h])
      /\ \A i \in DOMAIN statusLog : statusLog[i] # "cancelled"
  BY <1>2 DEF EndInv, Untold, Uncancelled
<1>4. /\ handlers'[h] = s /\ handlers[h] \in Handler /\ HandlerShape(handlers[h])
  BY Moved, HandlerNow DEF SearchInv, ShapeInv
<1>5. CASE FailingSave
  BY <1>1, <1>3, <1>5, FailingSaveKept
<1>6. CASE ~FailingSave
  <2>1. Good /\ ~FailedRow
    BY <1>2, <1>6 DEF Told
  <2>2. AtStatus(handlers[h]) => handlers[h].status \in {"searching", "failed"}
    BY <1>3, <1>4 DEF Unserved, NotCancelling, HandlerShape, Handler, Statuses, AtStatus
  <2>3. CASE StatusInserted(h, s) /\ handlers[h].status = "failed"
    <3>1. s.at = "status_save" /\ s.status = "failed"
      BY <1>4, <2>3 DEF StatusInserted, Goes, HandlerShape
    <3>2. QED
      BY <1>4, <3>1 DEF FailingSave
  <2>4. CASE ~(StatusInserted(h, s) /\ handlers[h].status = "failed")
    <3>1. ~FailedRow'
      <4>1. CASE UNCHANGED statusLog
        BY <2>1, <4>1 DEF FailedRow
      <4>2. CASE StatusInserted(h, s)
        <5>1. PICK st : st = handlers[h].status
          OBVIOUS
        <5>2. statusLog' = Append(statusLog, st) /\ st # "failed" /\ statusLog \in Seq(Statuses)
          BY <2>4, <4>2, <5>1 DEF StatusInserted, TypeOK
        <5>3. QED
          BY <2>1, <5>2 DEF FailedRow
      <4>3. QED
        BY <4>1, <4>2, Frames
    <3>2. ~Stopped(order)
      <4>1. Latest(order) = statusLog[Max(order.statuses)] /\ Max(order.statuses) \in DOMAIN statusLog
        BY MaxRow DEF TypeOK, RowsExist, RowsOf, Latest
      <4>2. QED
        BY <1>3, <2>1, <4>1 DEF FailedRow, Stopped
    <3>3. ~(NextLoaded(h, s) /\ s.at = "idle")
      <4>1. NextLoaded(h, s) => Begun
        BY DEF NextLoaded, Goes, Begun, Calling
      <4>2. NextLoaded(h, s) => order.potential # << >>
        BY <1>2, <4>1 DEF EndInv, Settled
      <4>3. Notify("unserved") => notices' # {}
        BY DEF Notify
      <4>4. QED
        BY <1>1, <4>2, <4>3 DEF NextLoaded, Goes
    <3>4. ~(StatusSaved(h, s) /\ handlers[h].status # "searching")
      <4>1. StatusSaved(h, s) => AtStatus(handlers[h])
        BY DEF StatusSaved, Goes, AtStatus
      <4>2. Notify("unserved") => notices' # {}
        BY DEF Notify
      <4>3. QED
        BY <1>1, <2>2, <4>1, <4>2 DEF StatusSaved
    <3>5. ~(StatusInserted(h, s) /\ handlers[h].status # "searching")
      BY <2>2, <2>4 DEF StatusInserted, Goes, AtStatus
    <3>6. ~Ends(h, s)
      BY <3>2, <3>3, <3>4, <3>5 DEF Ends
    <3>7. Good'
      BY <2>1, <3>6, GoodStep DEF SearchInv
    <3>8. QED
      BY <3>1, <3>7
  <2>5. QED
    BY <2>3, <2>4 DEF FailingSave
<1>7. QED
  BY <1>5, <1>6

LEMMA NextTold ==
  ASSUME TypeOK, RowsExist, SearchInv, EndInv, Told, Faults = {}, [Next]_vars, UNCHANGED ends
  PROVE  Told'
<1>1. CallsKept
  BY HistoryKept
<1>2. ASSUME NEW c \in DOMAIN calls, ReceiveCall(c) \/ RejectOrder(c) PROVE Told'
  <2>1. UNCHANGED <<statusLog, rest, handlers>>
    BY <1>2 DEF ReceiveCall, RejectOrder
  <2>2. Good => Good'
    BY <1>1, <1>2, PhoneGood
  <2>3. (FailedRow' <=> FailedRow) /\ (FailingSave' <=> FailingSave)
    BY <2>1 DEF FailedRow, FailingSave
  <2>4. QED
    BY <2>1, <2>2, <2>3 DEF Told, rest
<1>3. CASE UNCHANGED vars
  <2>1. Good' <=> Good
    BY <1>3 DEF vars, db, rest, Good, Carrying, CanSave, Holding, Seeking, AtStatus,
      Taken, Taking, HasFlag, ResponsesOf
  <2>2. (FailedRow' <=> FailedRow) /\ (FailingSave' <=> FailingSave)
    BY <1>3 DEF FailedRow, FailingSave, vars, db
  <2>3. QED
    BY <1>3, <2>1, <2>2 DEF Told, vars, rest
<1>4. QED
  BY <1>1, <1>2, <1>3, StepTold, Steps

\* A process that ends has an assigned worker to lose, and her customer was told.
ToldOrServed ==
  /\ ends = 0 => SearchInv /\ EndInv /\ Told
  /\ ends # 0 => "served" \in notices

LEMMA NextToldOrServed ==
  ASSUME TypeOK, RowsExist, AcceptInv, ToldOrServed, [Next]_vars, Faults = {}
  PROVE  ToldOrServed'
<1>1. CASE UNCHANGED ends
  <2>1. CASE ends = 0
    BY <1>1, <2>1, NextSearch, NextEnd, NextTold DEF ToldOrServed
  <2>2. CASE ends # 0
    BY <1>1, <2>2, NoticesKept DEF ToldOrServed
  <2>3. QED
    BY <2>1, <2>2
<1>2. ASSUME NEW h \in Slots, ProcessEnd(h) PROVE ToldOrServed'
  <2>1. UNCHANGED <<orderWorkers, notices>> /\ ends' = ends + 1 /\ ends \in Nat
    BY <1>2 DEF ProcessEnd, db, TypeOK
  <2>2. AcceptancesAccounted'
    BY NextAccounted DEF AcceptInv
  <2>3. Len(orderWorkers) > 1
    BY <2>1, <2>2 DEF AcceptancesAccounted
  <2>4. orderWorkers # << >>
    BY <2>3
  <2>5. "served" \in notices
    BY <2>4 DEF ToldOrServed, EndInv, Untold
  <2>6. QED
    BY <2>1, <2>5 DEF ToldOrServed
<1>3. QED
  BY <1>1, <1>2, EndsCount

\* When nothing is left to run of an order nobody cancelled, its customer has been
\* notified, of a worker or of there being none: no path of the search, of the
\* retries or of the acceptances ends in silence while the services answer.
THEOREM CustomerToldTheorem ==
  ASSUME Faults = {}
  PROVE  Spec => []CustomerTold
<1>1. Init => AcceptInv /\ ToldOrServed
  <2> SUFFICES ASSUME Init PROVE AcceptInv /\ ToldOrServed
    OBVIOUS
  <2>1. jobs.search /\ jobs.call = 0 /\ statusLog = <<"placed">> /\ ends = 0
    BY DEF Init
  <2>2. Good /\ ~FailedRow
    BY <2>1 DEF Good, FailedRow
  <2>3. QED
    BY <2>1, <2>2, InitAccounted, InitSearch, InitEnd DEF Told, ToldOrServed
<1>2. TypeOK /\ RowsExist /\ AcceptInv /\ ToldOrServed /\ [Next]_vars
        => (AcceptInv /\ ToldOrServed)'
  BY NextAccounted, NextToldOrServed
<1>3. ToldOrServed => CustomerTold
  BY DEF ToldOrServed, Told, Good, FailingSave, CustomerTold, Quiet, Carrying, Free, Seeking,
    AtStatus, Holding
<1>4. QED
  BY <1>1, <1>2, <1>3, TypeCorrect, PTL DEF Spec

=============================================================================
