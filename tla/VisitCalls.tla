----------------------------- MODULE VisitCalls -----------------------------
(***************************************************************************)
(* The day of one worker with several instant orders she has accepted, one *)
(* task each: the follow-up calls queued for them (orders.processor.ts:    *)
(* orderConfirmationCall, workerReminderCall, taskWorkerTrackingETA50-     *)
(* Passed), the calls the customer or she herself asks for                 *)
(* (task.service.ts: taskStartEndByCustomer; ivr.service.ts:               *)
(* callbackRequest), and the keys that start and end a task.  How an       *)
(* order gets there and is paid is OrderDispatch's and Settlement's.       *)
(***************************************************************************)
EXTENDS Naturals, FiniteSets

CONSTANTS Visits,         \* her orders of the day, one task each
          MaxFollowUps,   \* follow-up jobs still to run (bound)
          VisitSlots,     \* requests that may run at the same time (bound)
          MaxVisitCalls,  \* calls asked for by a customer or the worker (bound)
          VisitFaults     \* what may fail: a subset of {"gateway", "record"}

ASSUME VisitsAssumption == IsFiniteSet(Visits) /\ MaxFollowUps \in Nat
ASSUME VisitSlotsAssumption == IsFiniteSet(VisitSlots) /\ MaxVisitCalls \in Nat
ASSUME VisitFaultsAssumption == VisitFaults \subseteq {"gateway", "record"}

VARIABLES
  visitTasks,    \* status of each order's task
  visitReads,    \* latest status of each order
  followUps,     \* the follow-up jobs
  visitLines,    \* calls that wait for a key
  visitRequests, \* the running requests
  visitCalls,    \* calls asked for so far
  starts,        \* tasks started so far
  unchecked      \* a task was started by a key that nothing had checked since the last start

visitVars == <<visitTasks, visitReads, followUps, visitLines, visitRequests, visitCalls,
               starts, unchecked>>

FollowUpKinds == {"confirmation", "reminder", "eta50"}
FollowUpJobs  == DOMAIN followUps
Attempts(job) == IF job[2] = "confirmation" THEN 1 ELSE 2

\* Bull hands a job that stalled out once more, and fails it when it stalls again
\* (maxStalledCount, which no queue of the program sets).
MaxStalled == 1

\* taskStatus, and what the order's latest status reads.
VisitTask == {"pending", "in_progress", "completed", "cancelled"}
VisitRead == {"accepted", "on_going", "payment_pending", "cancelled"}

\* A job: tries ended by an error, tries cut off by the end of the process, calls that
\* rang, and whether it found no reason to call.
FollowUp == [at : {"queued", "calling", "over"}, failed : 0..2, cutOff : 0..(MaxStalled + 1),
             rang : Nat, needless : BOOLEAN]

\* A call with the key that starts or ends a task; seen is the number of tasks started
\* when it was last checked that none is in progress, checked is FALSE for the ETA call.
Line == [visit : Visits, key : {"start", "end"}, seen : Nat, checked : BOOLEAN]

VisitRequest == {[at |-> "idle"]} \cup
  [at : {"find"}, visit : Visits, seen : Nat] \cup
  [at : {"call", "timer"}, lines : SUBSET Line] \cup
  [at : {"start", "end"}, line : Line]
NoVisitRequest == [at |-> "idle"]

VisitAt(r, a)  == visitRequests[r].at = a
VisitGo(r, q)  == visitRequests' = [visitRequests EXCEPT ![r] = q]
VisitEnd(r)    == VisitGo(r, NoVisitRequest)
InProgress     == {v \in Visits : visitTasks[v] = "in_progress"}

(***************************************************************************)
(* The follow-up jobs.                                                     *)
(***************************************************************************)
\* A cancelled order is not called about; the ETA call is not for a visit under way.
FollowUpStarts(job) ==
  /\ followUps[job].at = "queued"
  /\ LET needless == \/ visitReads[job[1]] = "cancelled"
                     \/ job[2] = "eta50" /\ visitReads[job[1]] = "on_going" IN
     followUps' = [followUps EXCEPT ![job] =
                     [@ EXCEPT !.at = IF needless THEN "over" ELSE "calling", !.needless = needless]]
  /\ UNCHANGED <<visitTasks, visitReads, visitLines, visitRequests, visitCalls, starts, unchecked>>

FollowUpRings(job) ==
  /\ followUps[job].at = "calling"
  /\ followUps' = [followUps EXCEPT ![job] = [@ EXCEPT !.at = "over", !.rang = followUps[job].rang + 1]]
  /\ visitLines' = IF job[2] = "eta50"
                   THEN visitLines \cup {[visit |-> job[1], key |-> "start", seen |-> 0, checked |-> FALSE]}
                   ELSE visitLines
  /\ UNCHANGED <<visitTasks, visitReads, visitRequests, visitCalls, starts, unchecked>>

\* Mutant: the job is not tried again.
FollowUpFailsOnce(job) ==
  /\ followUps[job].at = "calling"
  /\ "gateway" \in VisitFaults
  /\ followUps' = [followUps EXCEPT ![job] = [@ EXCEPT !.at = "over", !.failed = @ + 1]]
  /\ UNCHANGED <<visitTasks, visitReads, visitLines, visitRequests, visitCalls, starts, unchecked>>

\* The gateway refuses the call, or takes it and its row is not saved: either way the try
\* fails, and Bull tries again as often as attempts says.
FollowUpFails(job) ==
  /\ followUps[job].at = "calling"
  /\ LET failed == followUps[job].failed + 1
         rang   == followUps[job].rang IN
     \E rings \in {r \in 0..1 : IF r = 0 THEN "gateway" \in VisitFaults ELSE "record" \in VisitFaults} :
       followUps' = [followUps EXCEPT ![job] =
                       [@ EXCEPT !.at = IF failed < Attempts(job) THEN "queued" ELSE "over",
                                 !.failed = failed, !.rang = rang + rings]]
  /\ UNCHANGED <<visitTasks, visitReads, visitLines, visitRequests, visitCalls, starts, unchecked>>

(***************************************************************************)
(* taskStartEndByCustomer, callbackRequest.                                *)
(***************************************************************************)
\* Mutant: the other orders of the worker are not looked at.
TaskStartEndUnchecked(r, v) ==
  /\ VisitAt(r, "idle")
  /\ visitCalls < MaxVisitCalls
  /\ visitCalls' = visitCalls + 1
  /\ VisitGo(r, [at |-> "find", visit |-> v, seen |-> starts])
  /\ UNCHANGED <<visitTasks, visitReads, followUps, visitLines, starts, unchecked>>

\* "Worker has another on going task."
TaskStartEndByCustomer(r, v) ==
  /\ VisitAt(r, "idle")
  /\ visitCalls < MaxVisitCalls
  /\ visitCalls' = visitCalls + 1
  /\ IF InProgress \ {v} # {} THEN UNCHANGED visitRequests
     ELSE VisitGo(r, [at |-> "find", visit |-> v, seen |-> starts])
  /\ UNCHANGED <<visitTasks, visitReads, followUps, visitLines, starts, unchecked>>

CheckedLine(v, seen) ==
  [visit |-> v, key |-> IF visitTasks[v] = "pending" THEN "start" ELSE "end",
   seen |-> seen, checked |-> TRUE]

\* "No Task Found" ends it; else the call offers what the task needs next.
FindVisitTask(r) ==
  LET q == visitRequests[r] IN
  /\ VisitAt(r, "find")
  /\ IF visitTasks[q.visit] \notin {"pending", "in_progress"} THEN VisitEnd(r)
     ELSE VisitGo(r, [at |-> "call", lines |-> {CheckedLine(q.visit, q.seen)}])
  /\ UNCHANGED <<visitTasks, visitReads, followUps, visitLines, visitCalls, starts, unchecked>>

\* The worker rings the number: the task in progress comes first, else a pending one
\* that should not have ended by now; with neither the call she gets has no such key.
\* A timer places it ten seconds later.
CallbackRequest(r) ==
  /\ VisitAt(r, "idle")
  /\ visitCalls < MaxVisitCalls
  /\ visitCalls' = visitCalls + 1
  /\ LET next == IF InProgress # {} THEN InProgress
                 ELSE {v \in Visits : visitTasks[v] = "pending"} IN
     \E lines \in {{CheckedLine(v, starts)} : v \in next}
                   \cup (IF InProgress = {} THEN {{}} ELSE {}) :
       VisitGo(r, [at |-> "timer", lines |-> lines])
  /\ UNCHANGED <<visitTasks, visitReads, followUps, visitLines, starts, unchecked>>

PlaceVisitCall(r) ==
  /\ VisitAt(r, "call") \/ VisitAt(r, "timer")
  /\ visitLines' = visitLines \cup visitRequests[r].lines
  /\ VisitEnd(r)
  /\ UNCHANGED <<visitTasks, visitReads, followUps, visitCalls, starts, unchecked>>

VisitCallRefused(r) ==
  /\ "gateway" \in VisitFaults
  /\ VisitAt(r, "call")
  /\ VisitEnd(r)
  /\ UNCHANGED <<visitTasks, visitReads, followUps, visitLines, visitCalls, starts, unchecked>>

\* A running job whose process ended, whether or not its call already rang: Bull hands it
\* out again, or fails it, whatever tries it has left.
Stalls(f, rings) ==
  [f EXCEPT !.at = IF f.cutOff < MaxStalled THEN "queued" ELSE "over",
            !.cutOff = f.cutOff + 1, !.rang = f.rang + rings]

\* Nobody catches the error of the timer's call: the process ends.
TimerCallRefused(r) ==
  /\ "gateway" \in VisitFaults
  /\ VisitAt(r, "timer")
  /\ visitRequests' = [k \in VisitSlots |-> NoVisitRequest]
  /\ \E rings \in [FollowUpJobs -> 0..1] :
       followUps' = [job \in FollowUpJobs |->
                       IF followUps[job].at # "calling" THEN followUps[job]
                       ELSE Stalls(followUps[job], rings[job])]
  /\ UNCHANGED <<visitTasks, visitReads, visitLines, visitCalls, starts, unchecked>>

(***************************************************************************)
(* The keys, and the customer's cancellation (Settlement has their steps). *)
(***************************************************************************)
\* The task is loaded when the key arrives and saved later.
PressKey(r, line) ==
  /\ VisitAt(r, "idle")
  /\ visitLines' = visitLines \ {line}
  /\ IF visitTasks[line.visit] = (IF line.key = "start" THEN "pending" ELSE "in_progress")
     THEN VisitGo(r, [at |-> line.key, line |-> line]) ELSE UNCHANGED visitRequests
  /\ UNCHANGED <<visitTasks, visitReads, followUps, visitCalls, starts, unchecked>>

SaveVisitStart(r) ==
  LET line == visitRequests[r].line IN
  /\ VisitAt(r, "start")
  /\ visitTasks' = [visitTasks EXCEPT ![line.visit] = "in_progress"]
  /\ visitReads' = [visitReads EXCEPT ![line.visit] = "on_going"]
  /\ starts' = starts + 1
  /\ unchecked' = (unchecked \/ ~line.checked \/ line.seen # starts)
  /\ VisitEnd(r)
  /\ UNCHANGED <<followUps, visitLines, visitCalls>>

SaveVisitEnd(r) ==
  LET line == visitRequests[r].line IN
  /\ VisitAt(r, "end")
  /\ visitTasks' = [visitTasks EXCEPT ![line.visit] = "completed"]
  /\ visitReads' = [visitReads EXCEPT ![line.visit] = "payment_pending"]
  /\ VisitEnd(r)
  /\ UNCHANGED <<followUps, visitLines, visitCalls, starts, unchecked>>

CancelVisit(v) ==
  /\ visitReads[v] = "accepted"
  /\ visitReads' = [visitReads EXCEPT ![v] = "cancelled"]
  /\ visitTasks' = [visitTasks EXCEPT ![v] = IF @ = "pending" THEN "cancelled" ELSE @]
  /\ UNCHANGED <<followUps, visitLines, visitRequests, visitCalls, starts, unchecked>>

\* Every order has been accepted and its task saved; of its follow-up jobs, a reminder
\* for a trial and the ETA call for any other order beside the confirmation, some wait.
VisitInit ==
  /\ visitTasks = [v \in Visits |-> "pending"]
  /\ visitReads = [v \in Visits |-> "accepted"]
  /\ \E waiting \in SUBSET (Visits \X FollowUpKinds) :
       /\ Cardinality(waiting) <= MaxFollowUps
       /\ \A v \in Visits : ~({<<v, "reminder">>, <<v, "eta50">>} \subseteq waiting)
       /\ followUps = [job \in waiting |->
                    [at |-> "queued", failed |-> 0, cutOff |-> 0, rang |-> 0, needless |-> FALSE]]
  /\ visitLines = {}
  /\ visitRequests = [r \in VisitSlots |-> NoVisitRequest]
  /\ visitCalls = 0
  /\ starts = 0
  /\ unchecked = FALSE

VisitStep(r) ==
  \/ \E v \in Visits : TaskStartEndByCustomer(r, v)
  \/ FindVisitTask(r) \/ CallbackRequest(r) \/ PlaceVisitCall(r)
  \/ VisitCallRefused(r) \/ TimerCallRefused(r)
  \/ \E line \in visitLines : PressKey(r, line)
  \/ SaveVisitStart(r) \/ SaveVisitEnd(r)

VisitNext ==
  \/ \E r \in VisitSlots : VisitStep(r)
  \/ \E job \in FollowUpJobs : FollowUpStarts(job) \/ FollowUpRings(job) \/ FollowUpFails(job)
  \/ \E v \in Visits : CancelVisit(v)

VisitSpec == VisitInit /\ [][VisitNext]_visitVars

(***************************************************************************)
(* Properties.                                                             *)
(***************************************************************************)
\* Type invariant.
VisitTypeOK ==
  /\ visitTasks \in [Visits -> VisitTask]
  /\ visitReads \in [Visits -> VisitRead]
  /\ FollowUpJobs \subseteq Visits \X FollowUpKinds
  /\ followUps \in [FollowUpJobs -> FollowUp]
  /\ visitLines \subseteq Line
  /\ visitRequests \in [VisitSlots -> VisitRequest]
  /\ visitCalls \in 0..MaxVisitCalls /\ starts \in Nat /\ unchecked \in BOOLEAN

\* A worker never has two tasks in progress ("Worker has another on going task."), unless
\* one was started from the ETA call, which checks nothing, or from a call that was
\* checked before another task started.
OneVisitAtATime == ~unchecked => Cardinality(InProgress) <= 1

\* However often its gateway, its record and its process fail, a follow-up job rings once
\* more than it has tries at most, and it ends without having rung only when every try was
\* refused, the order needed no call, or the process ended twice under it.
FollowUpsMade ==
  \A job \in FollowUpJobs :
    LET f == followUps[job] IN
    /\ f.rang <= Attempts(job) + 1
    /\ f.at = "over" /\ f.rang = 0 =>
         f.needless \/ f.failed = Attempts(job) \/ f.cutOff > MaxStalled
=============================================================================
