------------------------------ MODULE CallProofs ------------------------------
(***************************************************************************)
(* Theorems about VisitCalls and TimePreference, for every number of       *)
(* orders, requests, calls and callbacks, and every set of faults; and     *)
(* about all the services around the dispatch side by side.                *)
(***************************************************************************)
EXTENDS MCOrderServices, PlacementProofs, FiniteSetTheorems

(***************************************************************************)
(* VisitCalls: the invariant.                                              *)
(***************************************************************************)
\* A job that is still to run has rung only in tries that failed or were cut off, and has
\* stalled once at most; a job that is over had one ring more than that at most, which it
\* owes to the try it ended with.
FollowUpFits(job, f) ==
  /\ f \in FollowUp
  /\ f.at # "over" =>
       f.rang <= f.failed + f.cutOff /\ f.failed < Attempts(job) /\ f.cutOff <= MaxStalled
  /\ f.rang <= Attempts(job) + 1
  /\ f.at = "over" /\ f.rang = 0 =>
       f.needless \/ f.failed = Attempts(job) \/ f.cutOff > MaxStalled

FollowUpsInv ==
  /\ FollowUpJobs \subseteq Visits \X FollowUpKinds
  /\ followUps \in [FollowUpJobs -> FollowUp]
  /\ \A job \in FollowUpJobs : FollowUpFits(job, followUps[job])

\* As long as no task has started since it was checked, what it found still holds.
CheckHolds(v, seen) ==
  seen <= starts /\ (seen = starts /\ ~unchecked => InProgress \subseteq {v})

LineFits(line) == line.checked => CheckHolds(line.visit, line.seen)

RequestFits(q) ==
  /\ q.at = "find" => CheckHolds(q.visit, q.seen)
  /\ q.at \in {"call", "timer"} => \A line \in q.lines : LineFits(line)
  /\ q.at \in {"start", "end"} => LineFits(q.line)

TasksInv ==
  /\ visitTasks \in [Visits -> VisitTask]
  /\ visitReads \in [Visits -> VisitRead]
  /\ visitLines \subseteq Line
  /\ visitRequests \in [VisitSlots -> VisitRequest]
  /\ visitCalls \in 0..MaxVisitCalls /\ starts \in Nat /\ unchecked \in BOOLEAN

ChecksInv ==
  /\ \A line \in visitLines : LineFits(line)
  /\ \A r \in VisitSlots : RequestFits(visitRequests[r])
  /\ ~unchecked => \A v, w \in InProgress : v = w

VisitInv == FollowUpsInv /\ TasksInv /\ ChecksInv

(***************************************************************************)
(* The follow-up jobs.                                                     *)
(***************************************************************************)
LEMMA OneFollowUpMoves ==
  ASSUME FollowUpsInv, NEW job \in FollowUpJobs, NEW f, FollowUpFits(job, f),
         followUps' = [followUps EXCEPT ![job] = f]
  PROVE  FollowUpsInv'
  BY DEF FollowUpsInv, FollowUpJobs, FollowUpFits

LEMMA AttemptsNat == \A job : Attempts(job) \in {1, 2}
  BY DEF Attempts

LEMMA FollowUpStepInv ==
  ASSUME FollowUpsInv, NEW job \in FollowUpJobs,
         FollowUpStarts(job) \/ FollowUpRings(job) \/ FollowUpFails(job)
  PROVE  FollowUpsInv'
<1> DEFINE f == followUps[job]
<1>1. f \in FollowUp /\ FollowUpFits(job, f)
  BY DEF FollowUpsInv
<1>2. CASE FollowUpStarts(job)
  <2>1. PICK needless \in BOOLEAN : followUps' =
          [followUps EXCEPT ![job] = [f EXCEPT !.at = IF needless THEN "over" ELSE "calling",
                                               !.needless = needless]]
    BY <1>2 DEF FollowUpStarts, FollowUpsInv
  <2> DEFINE g == [f EXCEPT !.at = IF needless THEN "over" ELSE "calling", !.needless = needless]
  <2>2. /\ g \in FollowUp /\ g.at = (IF needless THEN "over" ELSE "calling") /\ g.needless = needless
        /\ g.failed = f.failed /\ g.cutOff = f.cutOff /\ g.rang = f.rang
    BY <1>1 DEF FollowUp
  <2>3. f.at = "queued"
    BY <1>2 DEF FollowUpStarts
  <2> HIDE DEF g
  <2>4. FollowUpFits(job, g)
    BY <1>1, <2>2, <2>3 DEF FollowUpFits
  <2>5. QED
    BY <2>1, <2>4, OneFollowUpMoves DEF g
<1>3. CASE FollowUpRings(job)
  <2> DEFINE rang == f.rang + 1
             g == [f EXCEPT !.at = "over", !.rang = rang]
  <2>1. followUps' = [followUps EXCEPT ![job] = g] /\ f.at = "calling"
    BY <1>3 DEF FollowUpRings, FollowUpsInv
  <2>2. rang \in Nat /\ rang = f.rang + 1
    BY <1>1 DEF FollowUp
  <2> HIDE DEF rang
  <2>3. /\ g \in FollowUp /\ g.at = "over" /\ g.rang = rang
        /\ g.failed = f.failed /\ g.cutOff = f.cutOff
    BY <1>1, <2>2 DEF FollowUp
  <2> HIDE DEF g
  <2>4. FollowUpFits(job, g)
    BY <1>1, <2>1, <2>2, <2>3, AttemptsNat DEF FollowUpFits, FollowUp, MaxStalled
  <2>5. QED
    BY <2>1, <2>4, OneFollowUpMoves
<1>4. CASE FollowUpFails(job)
  <2> DEFINE failed == f.failed + 1
             at == IF failed < Attempts(job) THEN "queued" ELSE "over"
             g(rang) == [f EXCEPT !.at = at, !.failed = failed, !.rang = rang]
  <2>1. PICK rings \in 0..1 : followUps' = [followUps EXCEPT ![job] = g(f.rang + rings)]
    BY <1>4 DEF FollowUpFails, FollowUpsInv
  <2>2. f.at = "calling"
    BY <1>4 DEF FollowUpFails
  <2>3. failed \in 0..2 /\ failed = f.failed + 1 /\ failed <= Attempts(job)
    BY <1>1, <2>2, AttemptsNat DEF FollowUpFits, FollowUp
  <2>4. /\ at \in {"queued", "over"} /\ (at # "over" => failed < Attempts(job))
        /\ (at = "over" => failed = Attempts(job))
    BY <2>3, AttemptsNat
  <2>5. PICK rang \in Nat : rang = f.rang + rings
    BY <1>1 DEF FollowUp
  <2> HIDE DEF failed, at
  <2>6. /\ g(rang) \in FollowUp /\ g(rang).at = at /\ g(rang).failed = failed
        /\ g(rang).cutOff = f.cutOff /\ g(rang).rang = rang
    BY <1>1, <2>3, <2>4 DEF FollowUp
  <2>7. followUps' = [followUps EXCEPT ![job] = g(rang)]
    BY <2>1, <2>5
  <2> HIDE DEF g
  <2>8. /\ f.rang <= f.failed + f.cutOff /\ f.cutOff \in 0..MaxStalled
        /\ f.failed \in Nat /\ f.rang \in Nat
    BY <1>1, <2>2 DEF FollowUpFits, FollowUp, MaxStalled
  <2>9. FollowUpFits(job, g(rang))
    BY <2>3, <2>4, <2>5, <2>6, <2>8, AttemptsNat DEF FollowUpFits, MaxStalled
  <2>10. QED
    BY <2>7, <2>9, OneFollowUpMoves
<1>5. QED
  BY <1>2, <1>3, <1>4

\* The end of the process puts a running job back once, and ends it the second time.
LEMMA CutOffInv ==
  ASSUME FollowUpsInv, NEW r \in VisitSlots, TimerCallRefused(r)
  PROVE  FollowUpsInv'
<1>1. PICK rings \in [FollowUpJobs -> 0..1] :
        followUps' = [job \in FollowUpJobs |->
                       IF followUps[job].at # "calling" THEN followUps[job]
                       ELSE Stalls(followUps[job], rings[job])]
  BY DEF TimerCallRefused
<1>2. FollowUpJobs' = FollowUpJobs
  BY <1>1 DEF FollowUpJobs
<1>3. ASSUME NEW job \in FollowUpJobs
      PROVE  FollowUpFits(job, followUps'[job])
  <2> DEFINE f == followUps[job]
             g == Stalls(f, rings[job])
  <2>1. f \in FollowUp /\ FollowUpFits(job, f) /\ rings[job] \in 0..1
    BY DEF FollowUpsInv
  <2>2. CASE f.at # "calling"
    BY <1>1, <2>1, <2>2
  <2>3. CASE f.at = "calling"
    <3>1. followUps'[job] = g
      BY <1>1, <2>3
    <3>2. f.cutOff \in 0..MaxStalled /\ f.rang \in Nat /\ f.failed \in Nat
          /\ f.rang <= f.failed + f.cutOff /\ f.failed < Attempts(job)
      BY <2>1, <2>3 DEF FollowUpFits, FollowUp, MaxStalled
    <3>3. PICK cutOff \in 0..(MaxStalled + 1), rang \in Nat :
            cutOff = f.cutOff + 1 /\ rang = f.rang + rings[job]
      BY <2>1, <3>2 DEF MaxStalled
    <3>4. PICK at \in {"queued", "over"} : at = IF f.cutOff < MaxStalled THEN "queued" ELSE "over"
      OBVIOUS
    <3>5. g = [f EXCEPT !.at = at, !.cutOff = cutOff, !.rang = rang]
      BY <3>3, <3>4 DEF Stalls
    <3> HIDE DEF g
    <3>6. g \in FollowUp /\ g.at = at /\ g.failed = f.failed /\ g.cutOff = cutOff /\ g.rang = rang
      BY <2>1, <3>3, <3>5 DEF FollowUp
    <3>7. FollowUpFits(job, g)
      BY <2>1, <3>2, <3>3, <3>4, <3>6, AttemptsNat DEF FollowUpFits, MaxStalled
    <3>8. QED
      BY <3>1, <3>7
  <2>4. QED
    BY <2>2, <2>3
<1>4. \A job \in FollowUpJobs : followUps'[job] \in FollowUp
  BY <1>3 DEF FollowUpFits
<1>5. followUps' = [job \in FollowUpJobs |-> followUps'[job]]
  BY <1>1
<1>6. QED
  BY <1>2, <1>3, <1>4, <1>5 DEF FollowUpsInv

(***************************************************************************)
(* The calls and the keys.                                                 *)
(***************************************************************************)
LEMMA RequestParts ==
  ASSUME NEW q \in VisitRequest
  PROVE  /\ q.at \in {"idle", "find", "call", "timer", "start", "end"}
         /\ q.at = "find" => q.visit \in Visits /\ q.seen \in Nat
         /\ q.at \in {"call", "timer"} => q.lines \subseteq Line
         /\ q.at \in {"start", "end"} => q.line \in Line
  BY DEF VisitRequest

LEMMA NoRequestFits == NoVisitRequest \in VisitRequest /\ RequestFits(NoVisitRequest)
  BY DEF NoVisitRequest, VisitRequest, RequestFits

\* Nothing that was checked is undone by a step that starts no task.
LEMMA ChecksKept ==
  ASSUME starts' = starts, unchecked' = unchecked, InProgress' \subseteq InProgress
  PROVE  /\ \A line : LineFits(line) => LineFits(line)'
         /\ \A q : RequestFits(q) => RequestFits(q)'
<1>1. \A v, seen : CheckHolds(v, seen) => CheckHolds(v, seen)'
  BY DEF CheckHolds
<1>2. \A line : LineFits(line) => LineFits(line)'
  BY <1>1 DEF LineFits
<1>3. QED
  BY <1>1, <1>2 DEF RequestFits

LEMMA OneRequestMoves ==
  ASSUME TasksInv, ChecksInv, NEW r \in VisitSlots, NEW q \in VisitRequest, RequestFits(q),
         VisitGo(r, q), UNCHANGED <<visitTasks, visitReads, starts, unchecked>>,
         visitCalls' \in 0..MaxVisitCalls,
         visitLines' \subseteq Line, \A line \in visitLines' : LineFits(line)
  PROVE  TasksInv' /\ ChecksInv'
<1>1. InProgress' = InProgress
  BY DEF InProgress
<1>2. /\ \A k \in VisitSlots : visitRequests'[k] = IF k = r THEN q ELSE visitRequests[k]
      /\ visitRequests' \in [VisitSlots -> VisitRequest]
  BY DEF VisitGo, TasksInv
<1>3. TasksInv'
  BY <1>2 DEF TasksInv
<1>4. \A k \in VisitSlots : RequestFits(visitRequests'[k])
  BY <1>2 DEF ChecksInv
<1>5. /\ \A line : LineFits(line) => LineFits(line)'
      /\ \A k : RequestFits(k) => RequestFits(k)'
  BY <1>1, ChecksKept
<1>6. \A line \in visitLines' : LineFits(line)'
  BY <1>5
<1>7. \A k \in VisitSlots : RequestFits(visitRequests[k])'
  <2>1. SUFFICES ASSUME NEW k \in VisitSlots PROVE RequestFits(visitRequests[k])'
    OBVIOUS
  <2>2. PICK m : m = visitRequests'[k]
    OBVIOUS
  <2>3. RequestFits(m)'
    BY <1>4, <1>5, <2>2
  <2>4. QED
    BY <2>2, <2>3 DEF RequestFits, LineFits, CheckHolds
<1>8. QED
  BY <1>1, <1>3, <1>6, <1>7 DEF ChecksInv

LEMMA CheckedLineFits ==
  ASSUME TasksInv, NEW v \in Visits, NEW seen \in Nat, CheckHolds(v, seen)
  PROVE  CheckedLine(v, seen) \in Line /\ LineFits(CheckedLine(v, seen))
  BY DEF CheckedLine, Line, LineFits

LEMMA CheckStepsInv ==
  ASSUME VisitInv, NEW r \in VisitSlots,
         \/ \E v \in Visits : TaskStartEndByCustomer(r, v)
         \/ FindVisitTask(r) \/ CallbackRequest(r)
  PROVE  TasksInv' /\ ChecksInv'
<1>1. /\ TasksInv /\ ChecksInv /\ visitRequests[r] \in VisitRequest /\ RequestFits(visitRequests[r])
      /\ visitLines \subseteq Line /\ \A line \in visitLines : LineFits(line)
      /\ starts \in Nat /\ visitCalls \in 0..MaxVisitCalls
  BY DEF VisitInv, TasksInv, ChecksInv
<1>2. /\ UNCHANGED <<visitTasks, visitReads, starts, unchecked, visitLines>>
      /\ visitCalls' \in 0..MaxVisitCalls
  <2>1. ASSUME visitCalls < MaxVisitCalls, visitCalls' = visitCalls + 1
        PROVE  visitCalls' \in 0..MaxVisitCalls
    BY <1>1, <2>1, VisitSlotsAssumption
  <2>2. ASSUME NEW v \in Visits, TaskStartEndByCustomer(r, v)
        PROVE  /\ UNCHANGED <<visitTasks, visitReads, starts, unchecked, visitLines>>
               /\ visitCalls' \in 0..MaxVisitCalls
    BY <2>1, <2>2 DEF TaskStartEndByCustomer
  <2>3. CASE FindVisitTask(r)
    BY <1>1, <2>3 DEF FindVisitTask
  <2>4. CASE CallbackRequest(r)
    BY <2>1, <2>4 DEF CallbackRequest
  <2>5. QED
    BY <2>2, <2>3, <2>4
<1>3. \E q \in VisitRequest : RequestFits(q) /\ VisitGo(r, q)
  <2>1. CASE UNCHANGED visitRequests
    BY <1>1, <2>1 DEF VisitGo, TasksInv
  <2>2. CASE VisitEnd(r)
    BY <2>2, NoRequestFits DEF VisitEnd
  <2>3. ASSUME NEW v \in Visits, TaskStartEndByCustomer(r, v), ~UNCHANGED visitRequests
        PROVE  \E q \in VisitRequest : RequestFits(q) /\ VisitGo(r, q)
    <3> DEFINE q == [at |-> "find", visit |-> v, seen |-> starts]
    <3>1. VisitGo(r, q) /\ InProgress \subseteq {v}
      BY <2>3 DEF TaskStartEndByCustomer
    <3>2. q \in VisitRequest /\ q.at = "find" /\ q.visit = v /\ q.seen = starts
      BY <1>1 DEF VisitRequest
    <3> HIDE DEF q
    <3>3. RequestFits(q)
      BY <1>1, <3>1, <3>2 DEF RequestFits, CheckHolds
    <3>4. QED
      BY <3>1, <3>2, <3>3
  <2>4. CASE FindVisitTask(r) /\ ~VisitEnd(r)
    <3> DEFINE p == visitRequests[r]
               line == CheckedLine(p.visit, p.seen)
               q == [at |-> "call", lines |-> {line}]
    <3>1. VisitGo(r, q) /\ p.at = "find"
      BY <2>4 DEF FindVisitTask, VisitAt
    <3>2. line \in Line /\ LineFits(line)
      BY <1>1, <3>1, RequestParts, CheckedLineFits DEF RequestFits
    <3> HIDE DEF line
    <3>3. q \in VisitRequest /\ q.at = "call" /\ q.lines = {line}
      BY <3>2 DEF VisitRequest
    <3> HIDE DEF q
    <3>4. RequestFits(q)
      BY <3>2, <3>3 DEF RequestFits
    <3>5. QED
      BY <3>1, <3>3, <3>4
  <2>5. CASE CallbackRequest(r)
    <3> DEFINE next == IF InProgress # {} THEN InProgress
                       ELSE {v \in Visits : visitTasks[v] = "pending"}
               Q(lines) == [at |-> "timer", lines |-> lines]
    <3>1. PICK lines \in {{CheckedLine(v, starts)} : v \in next}
                          \cup (IF InProgress = {} THEN {{}} ELSE {}) : VisitGo(r, Q(lines))
      BY <2>5 DEF CallbackRequest
    <3>2. ASSUME NEW v \in next PROVE v \in Visits /\ CheckHolds(v, starts)
      <4>1. v \in Visits
        BY DEF InProgress
      <4>2. ~unchecked => InProgress \subseteq {v}
        BY <1>1 DEF ChecksInv
      <4>3. QED
        BY <1>1, <4>1, <4>2 DEF CheckHolds
    <3>3. lines \subseteq Line /\ \A line \in lines : LineFits(line)
      <4>1. CASE lines = {}
        BY <4>1
      <4>2. ASSUME NEW v \in next, lines = {CheckedLine(v, starts)}
            PROVE  lines \subseteq Line /\ \A line \in lines : LineFits(line)
        BY <1>1, <3>2, <4>2, CheckedLineFits
      <4>3. QED
        BY <3>1, <4>1, <4>2
    <3>4. /\ Q(lines) \in VisitRequest /\ Q(lines).at = "timer" /\ Q(lines).lines = lines
      BY <3>3 DEF VisitRequest
    <3> HIDE DEF Q
    <3>5. RequestFits(Q(lines))
      BY <3>3, <3>4 DEF RequestFits
    <3>6. QED
      BY <3>1, <3>4, <3>5
  <2>6. QED
    BY <2>1, <2>2, <2>3, <2>4, <2>5
<1>4. QED
  BY <1>1, <1>2, <1>3, OneRequestMoves

LEMMA LineStepsInv ==
  ASSUME VisitInv, NEW r \in VisitSlots,
         \/ PlaceVisitCall(r) \/ VisitCallRefused(r)
         \/ \E line \in visitLines : PressKey(r, line)
  PROVE  TasksInv' /\ ChecksInv'
<1>1. /\ TasksInv /\ ChecksInv /\ visitRequests[r] \in VisitRequest /\ RequestFits(visitRequests[r])
      /\ visitLines \subseteq Line /\ \A line \in visitLines : LineFits(line)
      /\ visitCalls \in 0..MaxVisitCalls
  BY DEF VisitInv, TasksInv, ChecksInv
<1>2. /\ UNCHANGED <<visitTasks, visitReads, starts, unchecked>>
      /\ visitCalls' \in 0..MaxVisitCalls
  BY <1>1 DEF PlaceVisitCall, VisitCallRefused, PressKey
<1>3. visitLines' \subseteq Line /\ \A line \in visitLines' : LineFits(line)
  <2>1. CASE PlaceVisitCall(r)
    <3>1. visitRequests[r].lines \subseteq Line /\ \A line \in visitRequests[r].lines : LineFits(line)
      BY <1>1, <2>1, RequestParts DEF PlaceVisitCall, VisitAt, RequestFits
    <3>2. QED
      BY <1>1, <2>1, <3>1 DEF PlaceVisitCall
  <2>2. CASE VisitCallRefused(r) \/ \E line \in visitLines : PressKey(r, line)
    BY <1>1, <2>2 DEF VisitCallRefused, PressKey
  <2>3. QED
    BY <2>1, <2>2
<1>4. \E q \in VisitRequest : RequestFits(q) /\ VisitGo(r, q)
  <2>1. CASE VisitEnd(r)
    BY <2>1, NoRequestFits DEF VisitEnd
  <2>2. CASE UNCHANGED visitRequests
    BY <1>1, <2>2 DEF VisitGo, TasksInv
  <2>3. ASSUME NEW line \in visitLines, VisitGo(r, [at |-> line.key, line |-> line])
        PROVE  \E q \in VisitRequest : RequestFits(q) /\ VisitGo(r, q)
    <3> DEFINE q == [at |-> line.key, line |-> line]
    <3>1. line \in Line /\ LineFits(line) /\ line.key \in {"start", "end"}
      BY <1>1 DEF Line
    <3>2. q \in VisitRequest /\ q.at \in {"start", "end"} /\ q.line = line
      BY <3>1 DEF VisitRequest
    <3> HIDE DEF q
    <3>3. RequestFits(q)
      BY <3>1, <3>2 DEF RequestFits
    <3>4. QED
      BY <2>3, <3>2, <3>3 DEF q
  <2>4. QED
    BY <2>1, <2>2, <2>3 DEF PlaceVisitCall, VisitCallRefused, PressKey
<1>5. QED
  BY <1>1, <1>2, <1>3, <1>4, OneRequestMoves

LEMMA TimerRefusedInv ==
  ASSUME VisitInv, NEW r \in VisitSlots, TimerCallRefused(r)
  PROVE  TasksInv' /\ ChecksInv'
<1>1. /\ visitRequests' = [k \in VisitSlots |-> NoVisitRequest]
      /\ UNCHANGED <<visitTasks, visitReads, visitLines, visitCalls, starts, unchecked>>
  BY DEF TimerCallRefused
<1>2. TasksInv'
  BY <1>1, NoRequestFits DEF VisitInv, TasksInv
<1>3. InProgress' = InProgress
  BY <1>1 DEF InProgress
<1>4. \A line \in visitLines' : LineFits(line)'
  BY <1>1, <1>3, ChecksKept DEF VisitInv, ChecksInv
<1>5. \A k \in VisitSlots : RequestFits(visitRequests[k])'
  BY <1>1 DEF RequestFits, NoVisitRequest
<1>6. QED
  BY <1>1, <1>2, <1>3, <1>4, <1>5 DEF VisitInv, ChecksInv

\* A step that only ends tasks, or cancels them.
LEMMA TasksEndInv ==
  ASSUME VisitInv, visitTasks' \in [Visits -> VisitTask], visitReads' \in [Visits -> VisitRead],
         InProgress' \subseteq InProgress,
         visitRequests' \in [VisitSlots -> VisitRequest],
         \A k \in VisitSlots : visitRequests'[k] \in {NoVisitRequest, visitRequests[k]},
         UNCHANGED <<visitCalls, starts, unchecked>>,
         visitLines' \subseteq Line, \A line \in visitLines' \ visitLines : ~line.checked
  PROVE  TasksInv' /\ ChecksInv'
<1>1. TasksInv'
  BY NoRequestFits DEF VisitInv, TasksInv
<1>2. \A line \in visitLines' : LineFits(line)'
  <2>1. \A line \in visitLines' \ visitLines : LineFits(line)'
    BY DEF LineFits
  <2>2. \A line \in visitLines : LineFits(line)'
    BY ChecksKept DEF VisitInv, ChecksInv
  <2>3. QED
    BY <2>1, <2>2
<1>3. \A k \in VisitSlots : RequestFits(visitRequests[k])'
  <2>1. SUFFICES ASSUME NEW k \in VisitSlots PROVE RequestFits(visitRequests[k])'
    OBVIOUS
  <2>2. PICK m : m = visitRequests'[k]
    OBVIOUS
  <2>3. RequestFits(m)
    BY <2>2, NoRequestFits DEF VisitInv, ChecksInv
  <2>4. RequestFits(m)'
    BY <2>3, ChecksKept
  <2>5. QED
    BY <2>2, <2>4 DEF RequestFits, LineFits, CheckHolds
<1>4. QED
  BY <1>1, <1>2, <1>3 DEF VisitInv, ChecksInv

LEMMA SaveVisitEndInv ==
  ASSUME VisitInv, NEW r \in VisitSlots, SaveVisitEnd(r)
  PROVE  TasksInv' /\ ChecksInv'
<1> DEFINE v == visitRequests[r].line.visit
<1>1. v \in Visits
  BY RequestParts DEF VisitInv, TasksInv, SaveVisitEnd, VisitAt, Line
<1>2. /\ visitTasks' = [visitTasks EXCEPT ![v] = "completed"]
      /\ visitReads' = [visitReads EXCEPT ![v] = "payment_pending"]
      /\ visitRequests' = [visitRequests EXCEPT ![r] = NoVisitRequest]
      /\ UNCHANGED <<visitLines, visitCalls, starts, unchecked>>
  BY DEF SaveVisitEnd, VisitEnd, VisitGo
<1> HIDE DEF v
<1>3. visitTasks' \in [Visits -> VisitTask] /\ visitReads' \in [Visits -> VisitRead]
  BY <1>1, <1>2 DEF VisitInv, TasksInv, VisitTask, VisitRead
<1>4. InProgress' \subseteq InProgress
  <2>1. \A w \in Visits : visitTasks'[w] = "in_progress" => visitTasks[w] = "in_progress"
    BY <1>2 DEF VisitInv, TasksInv
  <2>2. QED
    BY <2>1 DEF InProgress
<1>5. /\ visitRequests' \in [VisitSlots -> VisitRequest] /\ visitLines' \subseteq Line
      /\ \A k \in VisitSlots : visitRequests'[k] \in {NoVisitRequest, visitRequests[k]}
  BY <1>2, NoRequestFits DEF VisitInv, TasksInv
<1>6. QED
  BY <1>2, <1>3, <1>4, <1>5, TasksEndInv

LEMMA CancelVisitInv ==
  ASSUME VisitInv, NEW v \in Visits, CancelVisit(v)
  PROVE  TasksInv' /\ ChecksInv'
<1>1. /\ visitTasks' = [visitTasks EXCEPT ![v] = IF @ = "pending" THEN "cancelled" ELSE @]
      /\ visitReads' = [visitReads EXCEPT ![v] = "cancelled"]
      /\ UNCHANGED <<visitLines, visitRequests, visitCalls, starts, unchecked>>
  BY DEF CancelVisit
<1>2. visitTasks' \in [Visits -> VisitTask] /\ visitReads' \in [Visits -> VisitRead]
  BY <1>1 DEF VisitInv, TasksInv, VisitTask, VisitRead
<1>3. \A w \in Visits : visitTasks'[w] = "in_progress" => visitTasks[w] = "in_progress"
  BY <1>1 DEF VisitInv, TasksInv
<1>4. InProgress' \subseteq InProgress
  BY <1>3 DEF InProgress
<1>5. /\ visitRequests' \in [VisitSlots -> VisitRequest] /\ visitLines' \subseteq Line
      /\ \A k \in VisitSlots : visitRequests'[k] \in {NoVisitRequest, visitRequests[k]}
  BY <1>1 DEF VisitInv, TasksInv
<1>6. QED
  BY <1>1, <1>2, <1>4, <1>5, TasksEndInv

\* The ETA call's line is not checked; the other calls have no key.
LEMMA FollowUpLinesInv ==
  ASSUME VisitInv, NEW job \in FollowUpJobs,
         FollowUpStarts(job) \/ FollowUpRings(job) \/ FollowUpFails(job)
  PROVE  TasksInv' /\ ChecksInv'
<1> DEFINE eta == [visit |-> job[1], key |-> "start", seen |-> 0, checked |-> FALSE]
<1>1. job[1] \in Visits
  BY DEF VisitInv, FollowUpsInv
<1>2. eta \in Line /\ ~eta.checked
  BY <1>1 DEF Line
<1>3. visitLines' \subseteq Line /\ \A line \in visitLines' \ visitLines : ~line.checked
  <2>1. visitLines' \in {visitLines, visitLines \cup {eta}}
    BY DEF FollowUpStarts, FollowUpRings, FollowUpFails
  <2> HIDE DEF eta
  <2>2. QED
    BY <1>2, <2>1 DEF VisitInv, TasksInv
<1>4. UNCHANGED <<visitTasks, visitReads, visitRequests, visitCalls, starts, unchecked>>
  BY DEF FollowUpStarts, FollowUpRings, FollowUpFails
<1>5. /\ visitRequests' \in [VisitSlots -> VisitRequest]
      /\ \A k \in VisitSlots : visitRequests'[k] \in {NoVisitRequest, visitRequests[k]}
      /\ visitTasks' \in [Visits -> VisitTask] /\ visitReads' \in [Visits -> VisitRead]
      /\ InProgress' = InProgress
  BY <1>4 DEF VisitInv, TasksInv, InProgress
<1>6. QED
  BY <1>3, <1>4, <1>5, TasksEndInv

\* A start makes every earlier check too old to be relied on.
LEMMA SaveVisitStartInv ==
  ASSUME VisitInv, NEW r \in VisitSlots, SaveVisitStart(r)
  PROVE  TasksInv' /\ ChecksInv'
<1> DEFINE line == visitRequests[r].line
           v == line.visit
<1>1. /\ TasksInv /\ ChecksInv /\ line \in Line /\ v \in Visits /\ LineFits(line)
      /\ line.seen \in Nat /\ line.checked \in BOOLEAN
  BY RequestParts DEF VisitInv, TasksInv, ChecksInv, SaveVisitStart, VisitAt, Line, RequestFits
<1>2. /\ visitTasks' = [visitTasks EXCEPT ![v] = "in_progress"]
      /\ visitReads' = [visitReads EXCEPT ![v] = "on_going"]
      /\ visitRequests' = [visitRequests EXCEPT ![r] = NoVisitRequest]
      /\ starts' = starts + 1 /\ starts \in Nat
      /\ unchecked' = (unchecked \/ ~line.checked \/ line.seen # starts)
      /\ UNCHANGED <<visitLines, visitCalls>>
  BY <1>1 DEF SaveVisitStart, VisitEnd, VisitGo, TasksInv
<1>3. TasksInv'
  BY <1>1, <1>2, NoRequestFits DEF TasksInv, VisitTask, VisitRead
<1>4. ASSUME ~unchecked'
      PROVE  \A w, x \in InProgress' : w = x
  <2>1. ~unchecked /\ line.checked /\ line.seen = starts
    BY <1>2, <1>4
  <2>2. InProgress \subseteq {v}
    BY <1>1, <2>1 DEF LineFits, CheckHolds
  <2>3. InProgress' \subseteq {v}
    BY <1>1, <1>2, <2>2 DEF InProgress, TasksInv
  <2>4. QED
    BY <2>3
<1>5. \A w, seen : seen <= starts /\ seen \in Nat => CheckHolds(w, seen)'
  BY <1>2 DEF CheckHolds
<1>6. ASSUME NEW l \in Line, LineFits(l) PROVE LineFits(l)'
  <2>1. l.seen \in Nat
    BY DEF Line
  <2>2. CASE l.checked
    <3>1. l.seen <= starts
      BY <1>6, <2>2 DEF LineFits, CheckHolds
    <3>2. QED
      BY <1>5, <2>1, <3>1 DEF LineFits
  <2>3. CASE ~l.checked
    BY <2>3 DEF LineFits
  <2>4. QED
    BY <2>2, <2>3
<1>7. ASSUME NEW q \in VisitRequest, RequestFits(q) PROVE RequestFits(q)'
  BY <1>5, <1>6, <1>7, RequestParts DEF RequestFits, CheckHolds
<1>8. \A k \in VisitSlots : RequestFits(visitRequests[k])'
  <2>1. SUFFICES ASSUME NEW k \in VisitSlots PROVE RequestFits(visitRequests[k])'
    OBVIOUS
  <2>2. PICK m \in VisitRequest : m = visitRequests'[k] /\ RequestFits(m)
    BY <1>1, <1>2, NoRequestFits DEF TasksInv, ChecksInv
  <2>3. RequestFits(m)'
    BY <1>7, <2>2
  <2>4. QED
    BY <2>2, <2>3 DEF RequestFits, LineFits, CheckHolds
<1>9. \A l \in visitLines' : LineFits(l)'
  BY <1>1, <1>2, <1>6 DEF TasksInv, ChecksInv
<1>10. QED
  BY <1>3, <1>4, <1>8, <1>9 DEF ChecksInv

LEMMA FollowUpsUntouched ==
  ASSUME FollowUpsInv, UNCHANGED followUps
  PROVE  FollowUpsInv'
  BY DEF FollowUpsInv, FollowUpJobs, FollowUpFits

LEMMA VisitNextInv ==
  ASSUME VisitInv, [VisitNext]_visitVars
  PROVE  VisitInv'
<1>1. CASE UNCHANGED visitVars
  <2>1. /\ UNCHANGED followUps /\ InProgress' = InProgress
        /\ UNCHANGED <<visitTasks, visitReads, visitLines, visitRequests, visitCalls, starts, unchecked>>
    BY <1>1 DEF visitVars, InProgress
  <2>2. /\ visitRequests' \in [VisitSlots -> VisitRequest]
        /\ \A k \in VisitSlots : visitRequests'[k] \in {NoVisitRequest, visitRequests[k]}
        /\ visitTasks' \in [Visits -> VisitTask] /\ visitReads' \in [Visits -> VisitRead]
        /\ visitLines' \subseteq Line
    BY <2>1 DEF VisitInv, TasksInv
  <2>3. TasksInv' /\ ChecksInv'
    <3>1. InProgress' \subseteq InProgress /\ UNCHANGED <<visitCalls, starts, unchecked>>
          /\ \A line \in visitLines' \ visitLines : ~line.checked
      BY <2>1
    <3>2. QED
      BY <2>2, <3>1, TasksEndInv
  <2>4. QED
    BY <2>1, <2>3, FollowUpsUntouched DEF VisitInv
<1>2. ASSUME NEW r \in VisitSlots, VisitStep(r) PROVE VisitInv'
  <2>1. CASE TimerCallRefused(r)
    BY <2>1, CutOffInv, TimerRefusedInv DEF VisitInv
  <2>2. CASE ~TimerCallRefused(r)
    <3>1. TasksInv' /\ ChecksInv'
      BY <1>2, <2>2, CheckStepsInv, LineStepsInv, SaveVisitStartInv, SaveVisitEndInv DEF VisitStep
    <3>2. UNCHANGED followUps
      BY <1>2, <2>2 DEF VisitStep, TaskStartEndByCustomer, FindVisitTask, CallbackRequest,
                        PlaceVisitCall, VisitCallRefused, PressKey, SaveVisitStart, SaveVisitEnd
    <3>3. QED
      BY <3>1, <3>2, FollowUpsUntouched DEF VisitInv
  <2>3. QED
    BY <2>1, <2>2
<1>3. ASSUME NEW job \in FollowUpJobs,
             FollowUpStarts(job) \/ FollowUpRings(job) \/ FollowUpFails(job)
      PROVE  VisitInv'
  BY <1>3, FollowUpStepInv, FollowUpLinesInv DEF VisitInv
<1>4. ASSUME NEW v \in Visits, CancelVisit(v) PROVE VisitInv'
  <2>1. UNCHANGED followUps
    BY <1>4 DEF CancelVisit
  <2>2. QED
    BY <1>4, <2>1, CancelVisitInv, FollowUpsUntouched DEF VisitInv
<1>5. QED
  BY <1>1, <1>2, <1>3, <1>4 DEF VisitNext

LEMMA VisitInitInv == VisitInit => VisitInv
<1> SUFFICES ASSUME VisitInit PROVE VisitInv
  OBVIOUS
<1>1. FollowUpsInv
  <2>1. PICK waiting \in SUBSET (Visits \X FollowUpKinds) :
          followUps = [job \in waiting |->
                        [at |-> "queued", failed |-> 0, cutOff |-> 0, rang |-> 0, needless |-> FALSE]]
    BY DEF VisitInit
  <2> DEFINE f == [at |-> "queued", failed |-> 0, cutOff |-> 0, rang |-> 0, needless |-> FALSE]
  <2>2. \A job : FollowUpFits(job, f)
    BY AttemptsNat DEF FollowUpFits, FollowUp, MaxStalled
  <2>3. f \in FollowUp
    BY DEF FollowUp, MaxStalled
  <2> HIDE DEF f
  <2>4. followUps = [job \in waiting |-> f]
    BY <2>1 DEF f
  <2>5. FollowUpJobs = waiting /\ \A job \in waiting : followUps[job] = f
    BY <2>4 DEF FollowUpJobs
  <2>6. followUps \in [FollowUpJobs -> FollowUp]
    BY <2>3, <2>4, <2>5
  <2>7. \A job \in FollowUpJobs : FollowUpFits(job, followUps[job])
    <3>1. SUFFICES ASSUME NEW job \in FollowUpJobs PROVE FollowUpFits(job, followUps[job])
      OBVIOUS
    <3>2. followUps[job] = f
      BY <2>5
    <3>3. QED
      BY <2>2, <3>2
  <2>8. FollowUpJobs \subseteq Visits \X FollowUpKinds
    BY <2>5
  <2>9. QED
    BY <2>6, <2>7, <2>8 DEF FollowUpsInv
<1>2. /\ visitTasks = [v \in Visits |-> "pending"] /\ visitReads = [v \in Visits |-> "accepted"]
      /\ visitLines = {} /\ visitRequests = [r \in VisitSlots |-> NoVisitRequest]
      /\ visitCalls = 0 /\ starts = 0 /\ unchecked = FALSE
  BY DEF VisitInit
<1>3. TasksInv
  <2>1. visitCalls \in 0..MaxVisitCalls /\ starts \in Nat
    BY <1>2, VisitSlotsAssumption
  <2>2. visitTasks \in [Visits -> VisitTask] /\ visitReads \in [Visits -> VisitRead]
    BY <1>2 DEF VisitTask, VisitRead
  <2>3. visitRequests \in [VisitSlots -> VisitRequest]
    BY <1>2, NoRequestFits
  <2>4. QED
    BY <1>2, <2>1, <2>2, <2>3 DEF TasksInv
<1>4. ChecksInv
  BY <1>2, NoRequestFits DEF ChecksInv, InProgress
<1>5. QED
  BY <1>1, <1>3, <1>4 DEF VisitInv

LEMMA VisitInvAlways == VisitSpec => []VisitInv
<1>1. VisitInit => VisitInv
  BY VisitInitInv
<1>2. VisitInv /\ [VisitNext]_visitVars => VisitInv'
  BY VisitNextInv
<1>3. QED
  BY <1>1, <1>2, PTL DEF VisitSpec

\* Every reachable state of the worker's visits, her calls and her jobs is well-typed.
THEOREM VisitTypeCorrect == VisitSpec => []VisitTypeOK
<1>1. VisitInv => VisitTypeOK
  BY DEF VisitInv, FollowUpsInv, TasksInv, VisitTypeOK
<1>2. QED
  BY <1>1, VisitInvAlways, PTL

\* A check of taskStartEndByCustomer or callbackRequest that is still valid when the key
\* is pressed keeps a second task from starting, however requests and keys interleave.
THEOREM OneVisit == VisitSpec => []OneVisitAtATime
<1>1. VisitInv => OneVisitAtATime
  <2> SUFFICES ASSUME VisitInv, ~unchecked PROVE Cardinality(InProgress) <= 1
    BY DEF OneVisitAtATime
  <2>1. CASE InProgress = {}
    BY <2>1, FS_EmptySet
  <2>2. CASE InProgress # {}
    <3>1. PICK v \in InProgress : TRUE
      BY <2>2
    <3>2. InProgress = {v}
      BY <3>1 DEF VisitInv, ChecksInv
    <3>3. QED
      BY <3>2, FS_Singleton
  <2>3. QED
    BY <2>1, <2>2
<1>2. QED
  BY <1>1, VisitInvAlways, PTL

\* A follow-up job rings once more than it has tries at most, and ends silently only when
\* every try was refused, the order needed no call, or the process ended twice under it.
THEOREM FollowUpsKept == VisitSpec => []FollowUpsMade
<1>1. VisitInv => FollowUpsMade
  BY DEF VisitInv, FollowUpsInv, FollowUpFits, FollowUpsMade
<1>2. QED
  BY <1>1, VisitInvAlways, PTL

(***************************************************************************)
(* TimePreference: the invariant.  The daily job and its retries are one   *)
(* chain: a token that is a queued job or a running handler, never two.    *)
(***************************************************************************)
Active   == {s \in PreferenceSlots : preferenceTasks[s].at \notin {"idle", "callback"}}
Carrying == {s \in PreferenceSlots : preferenceTasks[s].at \in {"save", "callback"}}

OneToken ==
  /\ \A s, k \in Active : s = k
  /\ \A c, d \in preferenceJobs : c = d
  /\ Active # {} => preferenceJobs = {}

\* The rows as they are or were: which call had which number.
Pair(row) == <<row.callId, row.retryCount>>
Pairs == {Pair(preferenceRows[i]) : i \in DOMAIN preferenceRows} \cup {Pair(Loaded(s)) : s \in Carrying}

PairsFit(P, n) ==
  /\ \A p \in P : p[1] \in 1..n /\ p[2] \in 1..MaxRetries
  /\ \A p, q \in P : p[1] = q[1] => p[2] = q[2]

\* n calls placed and x jobs handed out again; a handler's call is in no row yet.
TaskFits(t, P, n, x) ==
  /\ t.at \in {"first", "create"} => t.job = 0
  /\ t.at \in {"again", "place", "find", "save"} => t.job \in 1..n
  /\ t.at \in {"create", "find", "save", "queue"} => t.call = n /\ n # 0 /\ t.job < n
  /\ t.at \in {"create", "find", "save"} => \A p \in P : p[1] # n
  /\ t.at = "first" => n <= x
  /\ t.at \in {"create", "queue"} /\ t.job = 0 => n <= x + 1
  /\ t.at \in {"again", "place"} =>
       n <= x + 2 /\ \A p \in P : p[1] = t.job => p[2] < MaxRetries /\ n <= p[2] + x
  /\ t.at \in {"find", "save"} => \A p \in P : p[1] = t.job => p[2] < MaxRetries /\ n <= p[2] + x + 1
  /\ t.at = "queue" => \A p \in P : /\ p[1] = t.job => n <= p[2] + x + 1
                                    /\ p[1] = n => n <= p[2] + x

JobFits(c, P, n, x) ==
  /\ c \in 0..n
  /\ c = 0 => n <= x
  /\ \A p \in P : p[1] = c => n <= p[2] + x

ControlInv ==
  /\ OneToken
  /\ PairsFit(Pairs, preferenceCalls)
  /\ \A s \in Active : TaskFits(preferenceTasks[s], Pairs, preferenceCalls, redelivered)
  /\ \A c \in preferenceJobs : JobFits(c, Pairs, preferenceCalls, redelivered)
  /\ CallsBounded

RowsInv ==
  /\ PreferenceTypeOK
  /\ \A s \in Carrying : preferenceTasks[s].row \in DOMAIN preferenceRows /\ Len(preferenceTasks[s].loaded) = 1
  /\ \A s \in PreferenceSlots : TaskAt(s, "save") => Loaded(s).callId = preferenceTasks[s].job

\* Without an interruption there is one row, and its chain goes on until it is answered.
Follows(t, c) ==
  \/ t.at \in {"again", "place", "find", "save"} /\ t.job = c
  \/ t.at = "queue" /\ t.call = c

Following(c) == c \in preferenceJobs \/ \E s \in PreferenceSlots : Follows(preferenceTasks[s], c)

Ended(i) ==
  \/ preferenceRows[i].retryCount = MaxRetries
  \/ \E j \in DOMAIN answered[i] : answered[i][j] # "neither"

OneRow ==
  ~brokenOff =>
    /\ Len(preferenceRows) <= 1
    /\ (0 \in preferenceJobs \/ \E s \in PreferenceSlots : preferenceTasks[s].at \in {"first", "create"})
         => Len(preferenceRows) = 0

ChainInv ==
  /\ OneRow
  /\ ~brokenOff /\ ~staleSave =>
       \A i \in DOMAIN preferenceRows : Ended(i) \/ Following(preferenceRows[i].callId)

PreferenceInv == RowsInv /\ ControlInv /\ AnswerKept /\ ChainInv

(***************************************************************************)
(* TimePreference: what the steps have in common.                          *)
(***************************************************************************)
LEMMA NoTaskTyped ==
  /\ NoTask \in PreferenceTask /\ NoTask.at = "idle" /\ NoTask.job = 0 /\ NoTask.call = 0
  /\ NoTask.row = 0 /\ NoTask.loaded = << >>
  BY PreferenceLimitsAssumption DEF NoTask, PreferenceTask

LEMMA TaskNow ==
  ASSUME RowsInv, NEW s \in PreferenceSlots
  PROVE  /\ preferenceTasks[s] \in PreferenceTask
         /\ s \in Carrying => /\ preferenceTasks[s].row \in DOMAIN preferenceRows
                              /\ preferenceRows[preferenceTasks[s].row] \in PreferenceRow
                              /\ preferenceTasks[s].loaded \in Seq(PreferenceRow)
                              /\ Loaded(s) \in PreferenceRow
                              /\ preferenceTasks[s].loaded = <<Loaded(s)>>
  BY DEF RowsInv, PreferenceTypeOK, PreferenceTask, Loaded

\* Every row and every loaded copy of one is in Pairs.
LEMMA InPairs ==
  /\ \A i \in DOMAIN preferenceRows :
       <<preferenceRows[i].callId, preferenceRows[i].retryCount>> \in Pairs
  /\ \A s \in Carrying : <<Loaded(s).callId, Loaded(s).retryCount>> \in Pairs
  BY DEF Pairs, Pair

\* The token moves: s is the only handler that runs, or takes the only job.
LEMMA TokenMoves ==
  ASSUME ControlInv, NEW s \in PreferenceSlots, NEW t, NEW J,
         \A k \in PreferenceSlots : preferenceTasks'[k] = IF k = s THEN t ELSE preferenceTasks[k],
         \A k \in Active : k = s,
         preferenceJobs' = J, \A c, d \in J : c = d,
         \/ t.at \notin {"idle", "callback"} /\ J = {}
              /\ TaskFits(t, Pairs', preferenceCalls', redelivered')
         \/ t.at \in {"idle", "callback"},
         \A c \in J : JobFits(c, Pairs', preferenceCalls', redelivered'),
         PairsFit(Pairs', preferenceCalls'), preferenceCalls' <= MaxRetries + redelivered'
  PROVE  ControlInv'
<1>1. Active' \subseteq {s} /\ (s \in Active' => t.at \notin {"idle", "callback"} /\ preferenceTasks'[s] = t)
  BY DEF Active
<1>2. OneToken'
  BY <1>1 DEF OneToken
<1>3. \A k \in Active' : TaskFits(preferenceTasks'[k], Pairs', preferenceCalls', redelivered')
  BY <1>1
<1>4. QED
  BY <1>2, <1>3 DEF ControlInv, CallsBounded

\* A smaller set of pairs, or more jobs handed out again, fits as well.
LEMMA FitsMonotone ==
  ASSUME NEW P, NEW Q \in SUBSET P, NEW n \in Nat, NEW x \in Nat
  PROVE  /\ PairsFit(P, n) => PairsFit(Q, n)
         /\ \A t : TaskFits(t, P, n, x) => TaskFits(t, Q, n, x)
         /\ \A c : JobFits(c, P, n, x) => JobFits(c, Q, n, x)
  BY DEF PairsFit, TaskFits, JobFits

\* A handler of a callback comes or goes; the token stays where it is.
LEMMA CallbackMoves ==
  ASSUME ControlInv, RowsInv, NEW s \in PreferenceSlots, NEW t,
         \A k \in PreferenceSlots : preferenceTasks'[k] = IF k = s THEN t ELSE preferenceTasks[k],
         s \notin Active, t.at \in {"idle", "callback"},
         Pairs' \subseteq Pairs, UNCHANGED <<preferenceJobs, preferenceCalls, redelivered>>
  PROVE  ControlInv'
<1>1. Active' = Active /\ \A k \in Active : preferenceTasks'[k] = preferenceTasks[k]
  BY DEF Active
<1>2. preferenceCalls \in Nat /\ redelivered \in Nat
  BY PreferenceLimitsAssumption DEF RowsInv, PreferenceTypeOK
<1>3. OneToken' /\ CallsBounded'
  BY <1>1 DEF OneToken, CallsBounded, ControlInv
<1>4. /\ PairsFit(Pairs', preferenceCalls)
      /\ \A k \in Active : TaskFits(preferenceTasks[k], Pairs', preferenceCalls, redelivered)
      /\ \A c \in preferenceJobs : JobFits(c, Pairs', preferenceCalls, redelivered)
  BY <1>2, FitsMonotone DEF ControlInv
<1>5. QED
  BY <1>1, <1>3, <1>4 DEF ControlInv

LEMMA PairsLoaded ==
  ASSUME NEW s \in PreferenceSlots, NEW t,
         \A k \in PreferenceSlots : preferenceTasks'[k] = IF k = s THEN t ELSE preferenceTasks[k],
         UNCHANGED preferenceRows,
         t.at \in {"save", "callback"} => \E i \in DOMAIN preferenceRows : t.loaded[1] = preferenceRows[i]
  PROVE  Pairs' \subseteq Pairs
<1>1. ASSUME NEW k \in Carrying' PROVE Pair(Loaded(k))' \in Pairs
  <2>1. CASE k = s
    <3>1. PICK i \in DOMAIN preferenceRows : t.loaded[1] = preferenceRows[i]
      BY <1>1, <2>1 DEF Carrying
    <3>2. Pair(Loaded(k))' = Pair(preferenceRows[i])
      BY <2>1, <3>1 DEF Pair, Loaded, Carrying
    <3>3. QED
      BY <3>1, <3>2 DEF Pairs
  <2>2. CASE k # s
    <3>1. k \in Carrying /\ Pair(Loaded(k))' = Pair(Loaded(k))
      BY <1>1, <2>2 DEF Carrying, Pair, Loaded
    <3>2. QED
      BY <3>1 DEF Pairs
  <2>3. QED
    BY <2>1, <2>2
<1>2. {Pair(preferenceRows[i]) : i \in DOMAIN preferenceRows}' \subseteq Pairs
  BY DEF Pairs, Pair
<1>3. QED
  BY <1>1, <1>2 DEF Pairs

LEMMA PairsWritten ==
  ASSUME RowsInv, NEW s \in PreferenceSlots, NEW t, NEW row, NEW i \in DOMAIN preferenceRows,
         \A k \in PreferenceSlots : preferenceTasks'[k] = IF k = s THEN t ELSE preferenceTasks[k],
         preferenceRows' = [preferenceRows EXCEPT ![i] = row],
         t.at \notin {"save", "callback"}
  PROVE  Pairs' \subseteq Pairs \cup {<<row.callId, row.retryCount>>}
<1>1. ASSUME NEW k \in Carrying' PROVE Pair(Loaded(k))' \in Pairs
  <2>1. k \in Carrying /\ Pair(Loaded(k))' = Pair(Loaded(k))
    BY <1>1 DEF Carrying, Pair, Loaded
  <2>2. QED
    BY <2>1 DEF Pairs
<1>2. ASSUME NEW j \in DOMAIN preferenceRows' PROVE Pair(preferenceRows[j])' \in Pairs \cup {<<row.callId, row.retryCount>>}
  <2>1. j \in DOMAIN preferenceRows /\ preferenceRows'[j] = IF j = i THEN row ELSE preferenceRows[j]
    BY DEF RowsInv, PreferenceTypeOK
  <2>2. QED
    BY <2>1 DEF Pair, Pairs
<1>3. QED
  BY <1>1, <1>2 DEF Pairs

(***************************************************************************)
(* TimePreference: the token, step by step.                                *)
(***************************************************************************)
LEMMA NumbersNow ==
  ASSUME RowsInv
  PROVE  /\ preferenceCalls \in Nat /\ redelivered \in Nat /\ MaxPreferenceCalls \in Nat
         /\ preferenceCalls <= MaxPreferenceCalls
         /\ \A s, t : TaskGo(s, t) => \A k \in PreferenceSlots :
                preferenceTasks'[k] = IF k = s THEN t ELSE preferenceTasks[k]
         /\ preferenceTasks \in [PreferenceSlots -> PreferenceTask]
  BY PreferenceLimitsAssumption DEF RowsInv, PreferenceTypeOK, TaskGo

\* A queued job is taken: its handler runs, or finds nothing to do.
LEMMA JobTaken ==
  ASSUME PreferenceInv, NEW s \in PreferenceSlots, NEW c \in preferenceJobs, JobStarts(s, c), NEW t,
         TaskGo(s, t), UNCHANGED <<preferenceRows, preferenceCalls, redelivered>>,
         \/ t.at = "idle"
         \/ t.at = "first" /\ t.job = 0 /\ c = 0
         \/ t.at = "again" /\ t.job = c /\ c # 0
              /\ \E i \in RowsOf(c) : preferenceRows[i].retryCount < MaxRetries
  PROVE  ControlInv'
<1>1. /\ RowsInv /\ ControlInv /\ preferenceCalls \in Nat /\ redelivered \in Nat
      /\ \A k \in PreferenceSlots : preferenceTasks'[k] = IF k = s THEN t ELSE preferenceTasks[k]
  BY NumbersNow DEF PreferenceInv
<1>2. Active = {} /\ preferenceJobs' = {}
  BY <1>1 DEF ControlInv, OneToken, JobStarts
<1>3. Pairs' \subseteq Pairs
  BY <1>1, PairsLoaded
<1>4. /\ PairsFit(Pairs', preferenceCalls) /\ PairsFit(Pairs, preferenceCalls)
      /\ JobFits(c, Pairs', preferenceCalls, redelivered) /\ JobFits(c, Pairs, preferenceCalls, redelivered)
  BY <1>1, <1>3, FitsMonotone DEF ControlInv
<1>5. preferenceCalls <= MaxRetries + redelivered
  BY <1>1 DEF ControlInv, CallsBounded
<1>6. t.at \in {"first", "again"} => TaskFits(t, Pairs', preferenceCalls, redelivered)
  <2>1. CASE t.at = "first"
    BY <1>4, <2>1 DEF TaskFits, JobFits
  <2>2. CASE t.at = "again"
    <3>1. PICK i \in RowsOf(c) : preferenceRows[i].retryCount < MaxRetries
      BY <2>2
    <3>2. PICK n : n = preferenceRows[i].retryCount /\ <<c, n>> \in Pairs /\ n < MaxRetries
      BY <3>1, InPairs DEF RowsOf
    <3>3. n \in 1..MaxRetries /\ preferenceCalls <= n + redelivered
      BY <1>4, <3>2 DEF PairsFit, JobFits
    <3>4. \A p \in Pairs : p[1] = c => p[2] = n /\ preferenceCalls <= p[2] + redelivered
      BY <1>4, <3>2, <3>3 DEF PairsFit
    <3>5. preferenceCalls <= redelivered + 2
      BY <1>1, <3>2, <3>3 DEF MaxRetries
    <3>6. QED
      BY <1>3, <1>4, <2>2, <3>2, <3>4, <3>5 DEF TaskFits, JobFits
  <2>3. QED
    BY <2>1, <2>2
<1>7. QED
  BY <1>1, <1>2, <1>4, <1>5, <1>6, TokenMoves

\* The running handler goes on without placing a call or writing a row, or ends.
LEMMA HandlerGoesOn ==
  ASSUME PreferenceInv, NEW s \in Active, NEW t,
         TaskGo(s, t), UNCHANGED <<preferenceRows, preferenceJobs, preferenceCalls, redelivered>>,
         \/ t.at = "idle"
         \/ TaskAt(s, "again") /\ t.at = "place" /\ t.job = preferenceTasks[s].job
         \/ /\ TaskAt(s, "find") /\ t.at = "save" /\ t.job = preferenceTasks[s].job
            /\ t.call = preferenceTasks[s].call
            /\ \E i \in DOMAIN preferenceRows : t.loaded[1] = preferenceRows[i]
  PROVE  ControlInv'
<1>1. /\ RowsInv /\ ControlInv /\ preferenceCalls \in Nat /\ redelivered \in Nat
      /\ \A k \in PreferenceSlots : preferenceTasks'[k] = IF k = s THEN t ELSE preferenceTasks[k]
      /\ s \in PreferenceSlots
  BY NumbersNow DEF PreferenceInv, Active
<1>2. preferenceJobs = {} /\ \A k \in Active : k = s
  BY <1>1 DEF ControlInv, OneToken
<1>3. Pairs' \subseteq Pairs
  BY <1>1, PairsLoaded
<1>4. /\ PairsFit(Pairs', preferenceCalls)
      /\ TaskFits(preferenceTasks[s], Pairs', preferenceCalls, redelivered)
  BY <1>1, <1>3, FitsMonotone DEF ControlInv
<1>5. preferenceCalls <= MaxRetries + redelivered
  BY <1>1 DEF ControlInv, CallsBounded
<1>6. t.at \in {"place", "save"} => TaskFits(t, Pairs', preferenceCalls, redelivered)
  BY <1>4 DEF TaskFits, TaskAt
<1>7. QED
  BY <1>1, <1>2, <1>4, <1>5, <1>6, TokenMoves

\* A call is placed: its id is new, so no row has it.
LEMMA CallPlaced ==
  ASSUME PreferenceInv, NEW s \in Active, NEW t,
         TaskGo(s, t), UNCHANGED <<preferenceRows, preferenceJobs, redelivered>>,
         preferenceCalls' = preferenceCalls + 1,
         t.call = preferenceCalls + 1, t.job = preferenceTasks[s].job,
         \/ TaskAt(s, "first") /\ t.at = "create"
         \/ TaskAt(s, "place") /\ t.at = "find"
  PROVE  ControlInv'
<1>1. /\ RowsInv /\ ControlInv /\ preferenceCalls \in Nat /\ redelivered \in Nat
      /\ \A k \in PreferenceSlots : preferenceTasks'[k] = IF k = s THEN t ELSE preferenceTasks[k]
      /\ s \in PreferenceSlots
  BY NumbersNow DEF PreferenceInv, Active
<1>2. preferenceJobs = {} /\ \A k \in Active : k = s
  BY <1>1 DEF ControlInv, OneToken
<1>3. Pairs' \subseteq Pairs
  BY <1>1, PairsLoaded
<1>4. /\ PairsFit(Pairs', preferenceCalls)
      /\ TaskFits(preferenceTasks[s], Pairs', preferenceCalls, redelivered)
  BY <1>1, <1>3, FitsMonotone DEF ControlInv
<1>5. PICK m \in Nat : m = preferenceCalls + 1
  BY <1>1
<1>6. PairsFit(Pairs', m)
  BY <1>1, <1>4, <1>5 DEF PairsFit
<1>7. \A p \in Pairs' : p[1] # m /\ p[2] \in Nat
  BY <1>1, <1>4, <1>5 DEF PairsFit, MaxRetries
<1>8. TaskFits(t, Pairs', m, redelivered) /\ m <= MaxRetries + redelivered
  <2>1. CASE TaskAt(s, "first")
    BY <1>1, <1>4, <1>5, <1>7, <2>1 DEF TaskFits, TaskAt, MaxRetries
  <2>2. CASE TaskAt(s, "place")
    BY <1>1, <1>4, <1>5, <1>7, <2>2 DEF TaskFits, TaskAt, MaxRetries
  <2>3. QED
    BY <2>1, <2>2
<1>9. /\ preferenceCalls' = m /\ redelivered' = redelivered /\ preferenceJobs' = {}
      /\ t.at \notin {"idle", "callback"}
  BY <1>2, <1>5
<1>10. QED
  BY <1>1, <1>2, <1>6, <1>8, <1>9, TokenMoves

\* A new row, or a row saved for its next call, has the call that was placed last.
LEMMA CallRecorded ==
  ASSUME PreferenceInv, NEW s \in Active, NEW t, NEW n,
         TaskGo(s, t), UNCHANGED <<preferenceJobs, preferenceCalls, redelivered>>,
         t.at = "queue", t.call = preferenceTasks[s].call, t.job = preferenceTasks[s].job,
         Pairs' \subseteq Pairs \cup {<<preferenceCalls, n>>},
         \/ TaskAt(s, "create") /\ n = 1
         \/ TaskAt(s, "save") /\ n - 1 \in 1..(MaxRetries - 1) /\ n \in Nat
              /\ <<preferenceTasks[s].job, n - 1>> \in Pairs
  PROVE  ControlInv'
<1>1. /\ RowsInv /\ ControlInv /\ preferenceCalls \in Nat /\ redelivered \in Nat
      /\ \A k \in PreferenceSlots : preferenceTasks'[k] = IF k = s THEN t ELSE preferenceTasks[k]
      /\ s \in PreferenceSlots
  BY NumbersNow DEF PreferenceInv, Active
<1>2. preferenceJobs = {} /\ \A k \in Active : k = s
  BY <1>1 DEF ControlInv, OneToken
<1>3. /\ PairsFit(Pairs, preferenceCalls) /\ preferenceCalls <= MaxRetries + redelivered
      /\ TaskFits(preferenceTasks[s], Pairs, preferenceCalls, redelivered)
  BY <1>1 DEF ControlInv, CallsBounded
<1>4. /\ t.call = preferenceCalls /\ preferenceCalls # 0 /\ t.job < preferenceCalls
      /\ \A p \in Pairs : p[1] # preferenceCalls
      /\ TaskAt(s, "create") => t.job = 0 /\ preferenceCalls <= redelivered + 1
      /\ TaskAt(s, "save") => \A p \in Pairs : p[1] = t.job => preferenceCalls <= p[2] + redelivered + 1
      /\ TaskAt(s, "save") => t.job \in 1..preferenceCalls
  BY <1>3 DEF TaskFits, TaskAt
<1>5. n \in 1..MaxRetries /\ preferenceCalls <= n + redelivered
  <2>1. CASE TaskAt(s, "create")
    BY <1>1, <1>4, <2>1 DEF MaxRetries, TaskAt
  <2>2. CASE TaskAt(s, "save")
    <3>1. PICK m : m = n - 1 /\ <<t.job, m>> \in Pairs /\ m \in 1..(MaxRetries - 1) /\ n \in Nat
      BY <2>2 DEF TaskAt
    <3>2. preferenceCalls <= m + redelivered + 1
      BY <1>4, <2>2, <3>1
    <3>3. n = m + 1 /\ n \in 1..MaxRetries
      BY <3>1 DEF MaxRetries
    <3>4. QED
      BY <1>1, <3>1, <3>2, <3>3
  <2>3. QED
    BY <2>1, <2>2
<1>6. \A p \in Pairs' : p \in Pairs \/ (p[1] = preferenceCalls /\ p[2] = n)
  <2>1. SUFFICES ASSUME NEW p \in Pairs', p \notin Pairs
                 PROVE  p[1] = preferenceCalls /\ p[2] = n
    OBVIOUS
  <2>2. p = <<preferenceCalls, n>>
    BY <2>1
  <2>3. QED
    BY <2>2
<1>7. PairsFit(Pairs', preferenceCalls)
  BY <1>1, <1>3, <1>4, <1>5, <1>6 DEF PairsFit
<1>8. TaskFits(t, Pairs', preferenceCalls, redelivered)
  <2>1. ASSUME NEW p \in Pairs'
        PROVE  /\ p[1] = t.job => preferenceCalls <= p[2] + redelivered + 1
               /\ p[1] = preferenceCalls => preferenceCalls <= p[2] + redelivered
    <3>1. CASE p \in Pairs
      BY <1>3, <1>4, <3>1 DEF PairsFit, TaskAt
    <3>2. CASE p[1] = preferenceCalls /\ p[2] = n
      BY <1>4, <1>5, <3>2
    <3>3. QED
      BY <1>6, <3>1, <3>2
  <2>2. t.job = 0 => preferenceCalls <= redelivered + 1
    BY <1>1, <1>4 DEF TaskAt
  <2>3. QED
    BY <1>4, <2>1, <2>2 DEF TaskFits
<1>9. /\ preferenceJobs' = {} /\ preferenceCalls' = preferenceCalls /\ redelivered' = redelivered
      /\ t.at \notin {"idle", "callback"}
  BY <1>2
<1>10. QED
  BY <1>1, <1>2, <1>3, <1>7, <1>8, <1>9, TokenMoves

LEMMA RetryQueued ==
  ASSUME PreferenceInv, NEW s \in PreferenceSlots, QueueRetry(s)
  PROVE  ControlInv'
<1>1. /\ RowsInv /\ ControlInv /\ preferenceCalls \in Nat /\ redelivered \in Nat
      /\ TaskGo(s, NoTask)
      /\ \A k \in PreferenceSlots : preferenceTasks'[k] = IF k = s THEN NoTask ELSE preferenceTasks[k]
      /\ s \in Active
  BY NumbersNow DEF PreferenceInv, Active, QueueRetry, TaskAt, TaskEnd
<1>2. preferenceJobs = {} /\ \A k \in Active : k = s
  BY <1>1 DEF ControlInv, OneToken
<1>3. /\ UNCHANGED <<preferenceRows, preferenceCalls, redelivered>>
      /\ preferenceJobs' = {preferenceTasks[s].call} /\ preferenceTasks[s].at = "queue"
  BY <1>2 DEF QueueRetry, preferenceHistory, TaskAt
<1>4. Pairs' \subseteq Pairs
  BY <1>1, <1>3, PairsLoaded, NoTaskTyped
<1>5. /\ PairsFit(Pairs', preferenceCalls)
      /\ TaskFits(preferenceTasks[s], Pairs', preferenceCalls, redelivered)
  BY <1>1, <1>4, FitsMonotone DEF ControlInv
<1>6. JobFits(preferenceTasks[s].call, Pairs', preferenceCalls, redelivered)
  BY <1>1, <1>3, <1>5 DEF TaskFits, JobFits
<1>7. preferenceCalls <= MaxRetries + redelivered
  BY <1>1 DEF ControlInv, CallsBounded
<1>8. /\ preferenceCalls' = preferenceCalls /\ redelivered' = redelivered
      /\ \A c \in preferenceJobs' : JobFits(c, Pairs', preferenceCalls, redelivered)
      /\ \A c, d \in preferenceJobs' : c = d
  BY <1>3, <1>6
<1>9. NoTask.at \in {"idle", "callback"}
  BY NoTaskTyped
<1>10. QED
  BY <1>1, <1>2, <1>5, <1>7, <1>8, <1>9, TokenMoves

\* One job at most is handed out again: the chain's own.
LEMMA ChainRedelivered ==
  ASSUME PreferenceInv, PreferenceCrash
  PROVE  ControlInv'
<1>1. /\ RowsInv /\ ControlInv /\ preferenceCalls \in Nat
      /\ JobsRunning = {preferenceTasks[s].job : s \in Active}
  BY NumbersNow DEF PreferenceInv, JobsRunning, Active
<1>2. /\ redelivered = 0 /\ redelivered' = Cardinality(JobsRunning)
      /\ preferenceJobs' = preferenceJobs \cup JobsRunning
      /\ preferenceTasks' = [s \in PreferenceSlots |-> NoTask]
      /\ UNCHANGED <<preferenceRows, preferenceCalls>>
  BY DEF PreferenceCrash
<1>3. Active' = {} /\ Carrying' = {}
  BY <1>2, NoTaskTyped DEF Active, Carrying
<1>4. Pairs' \subseteq Pairs
  BY <1>2, <1>3 DEF Pairs, Pair
<1>5. PairsFit(Pairs', preferenceCalls) /\ preferenceCalls <= MaxRetries
  <2>1. PairsFit(Pairs, preferenceCalls) /\ preferenceCalls <= MaxRetries + redelivered
    BY <1>1 DEF ControlInv, CallsBounded
  <2>2. preferenceCalls <= MaxRetries
    BY <1>1, <1>2, <2>1 DEF MaxRetries
  <2>3. QED
    BY <1>4, <2>1, <2>2 DEF PairsFit
<1>6. redelivered' \in Nat /\ \A c \in preferenceJobs' : JobFits(c, Pairs', preferenceCalls, redelivered')
  <2>1. CASE Active = {}
    <3>1. preferenceJobs' = preferenceJobs /\ redelivered' = 0
      BY <1>1, <1>2, <2>1, FS_EmptySet
    <3>2. \A c \in preferenceJobs : JobFits(c, Pairs, preferenceCalls, 0)
      BY <1>1, <1>2 DEF ControlInv
    <3>3. QED
      BY <1>1, <1>4, <3>1, <3>2, FitsMonotone
  <2>2. ASSUME NEW s \in Active
        PROVE  redelivered' \in Nat /\ \A c \in preferenceJobs' : JobFits(c, Pairs', preferenceCalls, redelivered')
    <3>1. JobsRunning = {preferenceTasks[s].job} /\ preferenceJobs = {}
      BY <1>1 DEF ControlInv, OneToken
    <3>2. redelivered' = 1 /\ preferenceJobs' = {preferenceTasks[s].job}
      BY <1>2, <3>1, FS_Singleton
    <3>3. TaskFits(preferenceTasks[s], Pairs', preferenceCalls, 0)
      BY <1>1, <1>2, <1>4, FitsMonotone DEF ControlInv
    <3>4. preferenceTasks[s].at \in {"first", "create", "again", "place", "find", "save", "queue"}
          /\ preferenceTasks[s].job \in Nat
      BY <1>1, TaskNow, NumbersNow DEF Active, PreferenceTask
    <3>5. \A p \in Pairs' : p[1] \in 1..preferenceCalls /\ p[2] \in Nat
      BY <1>5 DEF PairsFit, MaxRetries
    <3>6. JobFits(preferenceTasks[s].job, Pairs', preferenceCalls, 1)
      BY <1>1, <3>3, <3>4, <3>5 DEF TaskFits, JobFits
    <3>7. QED
      BY <3>2, <3>6
  <2>3. QED
    BY <2>1, <2>2
<1>7. \A c, d \in preferenceJobs' : c = d
  BY <1>1, <1>2 DEF ControlInv, OneToken
<1>8. CallsBounded'
  BY <1>1, <1>2, <1>5, <1>6 DEF CallsBounded, MaxRetries
<1>9. QED
  BY <1>2, <1>3, <1>5, <1>6, <1>7, <1>8 DEF ControlInv, OneToken

(***************************************************************************)
(* TimePreference: the rows, the answers and the chain.                    *)
(***************************************************************************)
LEMMA OneTaskTyped ==
  ASSUME RowsInv, NEW s \in PreferenceSlots, NEW t \in PreferenceTask, TaskGo(s, t),
         preferenceRows' \in Seq(PreferenceRow), DOMAIN preferenceRows \subseteq DOMAIN preferenceRows',
         preferenceJobs' \subseteq 0..MaxPreferenceCalls, preferenceCalls' \in 0..MaxPreferenceCalls,
         callbacks' \in 0..MaxCallbacks,
         answered' \in Seq(Seq(Answers)), Len(answered') = Len(preferenceRows'),
         staleSave' \in BOOLEAN, brokenOff' \in BOOLEAN, redelivered' \in Nat,
         t.at \in {"save", "callback"} => t.row \in DOMAIN preferenceRows' /\ Len(t.loaded) = 1,
         t.at = "save" => t.loaded[1].callId = t.job
  PROVE  RowsInv'
<1>1. /\ preferenceTasks' \in [PreferenceSlots -> PreferenceTask]
      /\ \A k \in PreferenceSlots : preferenceTasks'[k] = IF k = s THEN t ELSE preferenceTasks[k]
  BY DEF RowsInv, PreferenceTypeOK, TaskGo
<1>2. PreferenceTypeOK'
  BY <1>1 DEF PreferenceTypeOK
<1>3. \A k \in Carrying' : preferenceTasks'[k].row \in DOMAIN preferenceRows' /\ Len(preferenceTasks'[k].loaded) = 1
  BY <1>1 DEF Carrying, RowsInv
<1>4. \A k \in PreferenceSlots : preferenceTasks'[k].at = "save" =>
        preferenceTasks'[k].loaded[1].callId = preferenceTasks'[k].job
  BY <1>1 DEF RowsInv, TaskAt, Loaded
<1>5. QED
  BY <1>2, <1>3, <1>4 DEF RowsInv, TaskAt, Loaded

\* A step that changes no row: the chain goes on in the job or the handler it leaves.
LEMMA ChainMoves ==
  ASSUME PreferenceInv, NEW s \in PreferenceSlots, NEW t,
         \A k \in PreferenceSlots : preferenceTasks'[k] = IF k = s THEN t ELSE preferenceTasks[k],
         UNCHANGED <<preferenceRows, answered, staleSave>>,
         brokenOff => brokenOff',
         ~brokenOff' /\ 0 \in preferenceJobs' => 0 \in preferenceJobs,
         ~brokenOff' /\ t.at \in {"first", "create"} =>
           0 \in preferenceJobs \/ preferenceTasks[s].at \in {"first", "create"},
         ~brokenOff' /\ ~staleSave =>
           \A i \in DOMAIN preferenceRows :
             LET c == preferenceRows[i].callId IN
             (c \in preferenceJobs /\ c \notin preferenceJobs') \/ Follows(preferenceTasks[s], c) =>
               Ended(i) \/ c \in preferenceJobs' \/ Follows(t, c)
  PROVE  AnswerKept' /\ ChainInv'
<1>1. AnswerKept'
  BY DEF PreferenceInv, AnswerKept
<1>2. OneRow'
  <2>1. SUFFICES ASSUME ~brokenOff' PROVE OneRow'
    BY DEF OneRow
  <2>2. ~brokenOff
    BY <2>1
  <2>3. ASSUME 0 \in preferenceJobs' \/ \E k \in PreferenceSlots : preferenceTasks'[k].at \in {"first", "create"}
        PROVE  0 \in preferenceJobs \/ \E k \in PreferenceSlots : preferenceTasks[k].at \in {"first", "create"}
    BY <2>1, <2>3
  <2>4. QED
    BY <2>2, <2>3 DEF PreferenceInv, ChainInv, OneRow
<1>3. ASSUME ~brokenOff', ~staleSave', NEW i \in DOMAIN preferenceRows'
      PROVE  Ended(i)' \/ Following(preferenceRows[i].callId)'
  <2>1. PICK c : c = preferenceRows[i].callId /\ c = preferenceRows'[i].callId
    OBVIOUS
  <2>2. ~brokenOff /\ ~staleSave /\ i \in DOMAIN preferenceRows
    BY <1>3
  <2>3. Ended(i)' <=> Ended(i)
    BY DEF Ended
  <2>4. Ended(i) \/ Following(c)
    BY <2>1, <2>2 DEF PreferenceInv, ChainInv
  <2>5. Following(c) => Ended(i) \/ c \in preferenceJobs' \/ \E k \in PreferenceSlots : Follows(preferenceTasks'[k], c)
    <3>1. CASE c \in preferenceJobs
      BY <1>3, <2>1, <2>2, <3>1
    <3>2. ASSUME NEW k \in PreferenceSlots, Follows(preferenceTasks[k], c)
          PROVE  Ended(i) \/ c \in preferenceJobs' \/ \E m \in PreferenceSlots : Follows(preferenceTasks'[m], c)
      <4>1. CASE k = s
        BY <1>3, <2>1, <2>2, <3>2, <4>1
      <4>2. CASE k # s
        BY <3>2, <4>2
      <4>3. QED
        BY <4>1, <4>2
    <3>3. QED
      BY <3>1, <3>2 DEF Following
  <2>6. QED
    BY <2>1, <2>3, <2>4, <2>5 DEF Following, Follows
<1>4. QED
  BY <1>1, <1>2, <1>3 DEF ChainInv

LEMMA ReaderTyped ==
  ASSUME RowsInv, NEW s \in PreferenceSlots, NEW t \in PreferenceTask, TaskGo(s, t),
         UNCHANGED <<preferenceRows, answered, staleSave, redelivered>>,
         preferenceJobs' \subseteq 0..MaxPreferenceCalls, preferenceCalls' \in 0..MaxPreferenceCalls,
         callbacks' \in 0..MaxCallbacks, brokenOff' \in BOOLEAN,
         t.at \in {"save", "callback"} => t.row \in DOMAIN preferenceRows /\ Len(t.loaded) = 1,
         t.at = "save" => t.loaded[1].callId = t.job
  PROVE  RowsInv'
<1>1. /\ preferenceRows' \in Seq(PreferenceRow) /\ DOMAIN preferenceRows \subseteq DOMAIN preferenceRows'
      /\ answered' \in Seq(Seq(Answers)) /\ Len(answered') = Len(preferenceRows')
      /\ staleSave' \in BOOLEAN /\ redelivered' \in Nat
  BY DEF RowsInv, PreferenceTypeOK
<1>2. QED
  BY <1>1, OneTaskTyped

LEMMA ChainNow ==
  ASSUME PreferenceInv
  PROVE  /\ RowsInv /\ ControlInv /\ AnswerKept /\ ChainInv
         /\ preferenceRows \in Seq(PreferenceRow) /\ preferenceJobs \subseteq 0..MaxPreferenceCalls
         /\ preferenceCalls \in 0..MaxPreferenceCalls /\ callbacks \in 0..MaxCallbacks
         /\ answered \in Seq(Seq(Answers)) /\ Len(answered) = Len(preferenceRows)
         /\ staleSave \in BOOLEAN /\ brokenOff \in BOOLEAN /\ redelivered \in Nat
         /\ \A i \in DOMAIN preferenceRows : preferenceRows[i] \in PreferenceRow /\ preferenceRows[i].callId \in CallIds
         /\ \A s \in Active : s \in PreferenceSlots /\ preferenceJobs = {} /\ \A k \in Active : k = s
         /\ \A s \in Active : TaskFits(preferenceTasks[s], Pairs, preferenceCalls, redelivered)
<1>1. RowsInv /\ ControlInv /\ AnswerKept /\ ChainInv
  BY DEF PreferenceInv
<1>2. \A i \in DOMAIN preferenceRows : preferenceRows[i] \in PreferenceRow /\ preferenceRows[i].callId \in CallIds
  <2>1. \A i \in DOMAIN preferenceRows : preferenceRows[i] \in PreferenceRow
    BY <1>1 DEF RowsInv, PreferenceTypeOK
  <2>2. \A row \in PreferenceRow : row.callId \in CallIds
    BY DEF PreferenceRow
  <2>3. QED
    BY <2>1, <2>2
<1>3. QED
  BY <1>1, <1>2 DEF RowsInv, PreferenceTypeOK, ControlInv, OneToken, Active

LEMMA StartFirstCallInv ==
  ASSUME PreferenceInv, NEW s \in PreferenceSlots, StartFirstCall(s)
  PROVE  PreferenceInv'
<1> DEFINE t == [NoTask EXCEPT !.at = "first"]
<1>1. /\ TaskGo(s, t) /\ JobStarts(s, 0) /\ 0 \in preferenceJobs /\ preferenceJobs' = preferenceJobs \ {0}
      /\ UNCHANGED <<preferenceRows, preferenceCalls, callbacks, answered, staleSave, brokenOff, redelivered>>
  BY DEF StartFirstCall, JobStarts, preferenceHistory
<1>2. t \in PreferenceTask /\ t.at = "first" /\ t.job = 0
  BY NoTaskTyped DEF PreferenceTask
<1> HIDE DEF t
<1>3. ControlInv'
  BY <1>1, <1>2, JobTaken
<1>4. RowsInv'
  BY <1>1, <1>2, ChainNow, ReaderTyped
<1>5. preferenceTasks[s].at = "idle" /\ \A c : ~Follows(preferenceTasks[s], c)
  BY <1>1 DEF JobStarts, TaskAt, Follows
<1>6. \A i \in DOMAIN preferenceRows : preferenceRows[i].callId # 0
  BY ChainNow, PreferenceLimitsAssumption DEF CallIds
<1>7. AnswerKept' /\ ChainInv'
  BY <1>1, <1>2, <1>5, <1>6, ChainNow, NumbersNow, ChainMoves
<1>8. QED
  BY <1>3, <1>4, <1>7 DEF PreferenceInv

LEMMA RetryCallInv ==
  ASSUME PreferenceInv, NEW s \in PreferenceSlots, NEW c \in CallIds, RetryCall(s, c)
  PROVE  PreferenceInv'
<1> DEFINE go == \E i \in RowsOf(c) : ~Answered(preferenceRows[i]) /\ preferenceRows[i].retryCount < MaxRetries
           again == [NoTask EXCEPT !.at = "again", !.job = c]
<1>1. /\ JobStarts(s, c) /\ c \in preferenceJobs /\ preferenceJobs' = preferenceJobs \ {c} /\ c # 0
      /\ IF go THEN TaskGo(s, again) ELSE UNCHANGED preferenceTasks
      /\ UNCHANGED <<preferenceRows, preferenceCalls, callbacks, answered, staleSave, brokenOff, redelivered>>
      /\ preferenceTasks[s].at = "idle"
  BY DEF RetryCall, JobStarts, preferenceHistory, TaskAt
<1>2. /\ again \in PreferenceTask /\ again.at = "again" /\ again.job = c
  <2>1. c \in 0..MaxPreferenceCalls
    BY PreferenceLimitsAssumption DEF CallIds
  <2>2. QED
    BY <2>1, NoTaskTyped DEF PreferenceTask
<1> HIDE DEF again
<1>3. PICK t \in PreferenceTask : /\ TaskGo(s, t) /\ (go => t = again)
                                  /\ (~go => t = preferenceTasks[s])
  <2>1. CASE go
    BY <1>1, <1>2, <2>1
  <2>2. CASE ~go
    BY <1>1, <2>2, ChainNow, TaskNow, NumbersNow DEF TaskGo
  <2>3. QED
    BY <2>1, <2>2
<1>4. \/ t.at = "idle"
      \/ t.at = "again" /\ t.job = c /\ \E i \in RowsOf(c) : preferenceRows[i].retryCount < MaxRetries
  BY <1>1, <1>2, <1>3
<1>5. ControlInv'
  BY <1>1, <1>3, <1>4, JobTaken
<1>6. RowsInv'
  BY <1>1, <1>3, <1>4, ChainNow, ReaderTyped
<1>7. ASSUME ~staleSave, NEW i \in DOMAIN preferenceRows, preferenceRows[i].callId = c, ~go
      PROVE  Ended(i)
  <2>1. i \in RowsOf(c) /\ preferenceRows[i] \in PreferenceRow
    BY <1>7, ChainNow DEF RowsOf
  <2>2. CASE preferenceRows[i].answer # "neither"
    <3>1. answered[i] # << >> /\ answered[i][Len(answered[i])] # "neither"
      BY <1>7, <2>2, ChainNow DEF AnswerKept
    <3>2. answered[i] \in Seq(Answers)
      BY <1>7, ChainNow
    <3>3. Len(answered[i]) \in DOMAIN answered[i]
      BY <3>1, <3>2
    <3>4. QED
      BY <3>1, <3>3 DEF Ended
  <2>3. CASE preferenceRows[i].answer = "neither"
    <3>1. preferenceRows[i].retryCount \in 1..MaxRetries /\ ~(preferenceRows[i].retryCount < MaxRetries)
      BY <1>7, <2>1, <2>3 DEF PreferenceRow, Answered
    <3>2. QED
      BY <3>1 DEF Ended, MaxRetries
  <2>4. QED
    BY <2>2, <2>3
<1>8. go => Follows(t, c)
  BY <1>2, <1>3 DEF Follows
<1>9. \A d : ~Follows(preferenceTasks[s], d)
  BY <1>1 DEF Follows
<1>10. ~staleSave => \A i \in DOMAIN preferenceRows :
         (preferenceRows[i].callId \in preferenceJobs /\ preferenceRows[i].callId \notin preferenceJobs')
           \/ Follows(preferenceTasks[s], preferenceRows[i].callId) =>
         Ended(i) \/ preferenceRows[i].callId \in preferenceJobs' \/ Follows(t, preferenceRows[i].callId)
  BY <1>1, <1>7, <1>8, <1>9
<1> HIDE DEF go
<1>11. AnswerKept' /\ ChainInv'
  BY <1>1, <1>3, <1>4, <1>10, ChainNow, NumbersNow, ChainMoves
<1>12. QED
  BY <1>5, <1>6, <1>11 DEF PreferenceInv

\* Placing a call, or being refused one.
LEMMA PlacesInv ==
  ASSUME PreferenceInv, NEW s \in Active, NEW next, Places(s, next),
         UNCHANGED <<preferenceRows, preferenceJobs, callbacks, answered, staleSave, redelivered>>,
         \/ TaskAt(s, "first") /\ next = "create"
         \/ TaskAt(s, "place") /\ next = "find"
  PROVE  PreferenceInv'
<1> DEFINE old == preferenceTasks[s]
           call == preferenceCalls + 1
           t == [old EXCEPT !.at = next, !.call = call]
<1>1. s \in PreferenceSlots /\ old \in PreferenceTask /\ preferenceCalls \in Nat
  BY ChainNow, TaskNow, NumbersNow
<1>2. CASE /\ preferenceCalls < MaxPreferenceCalls /\ preferenceCalls' = preferenceCalls + 1
           /\ TaskGo(s, t) /\ UNCHANGED brokenOff
  <2>1. call \in 0..MaxPreferenceCalls /\ call = preferenceCalls + 1
    BY <1>1, <1>2, NumbersNow, ChainNow
  <2> HIDE DEF call
  <2>2. t \in PreferenceTask /\ t.at = next /\ t.call = call /\ t.job = old.job
    BY <1>1, <2>1 DEF PreferenceTask
  <2> HIDE DEF t
  <2>3. ControlInv'
    BY <1>1, <1>2, <2>1, <2>2, CallPlaced
  <2>4. RowsInv'
    <3>1. preferenceCalls' \in 0..MaxPreferenceCalls
      BY <1>2, <2>1
    <3>2. QED
      BY <1>1, <1>2, <2>2, <3>1, ChainNow, ReaderTyped
  <2>5. \A c : Follows(old, c) => Follows(t, c)
    BY <2>2 DEF Follows, TaskAt
  <2>6. AnswerKept' /\ ChainInv'
    <3>1. ~brokenOff' /\ t.at \in {"first", "create"} => old.at \in {"first", "create"}
      BY <2>2 DEF TaskAt
    <3>2. /\ \A k \in PreferenceSlots : preferenceTasks'[k] = IF k = s THEN t ELSE preferenceTasks[k]
          /\ preferenceJobs' = preferenceJobs /\ brokenOff' = brokenOff
      BY <1>1, <1>2, ChainNow, NumbersNow
    <3>3. QED
      BY <1>1, <2>5, <3>1, <3>2, ChainMoves
  <2>7. QED
    BY <2>3, <2>4, <2>6 DEF PreferenceInv
<1>3. CASE TaskEnd(s) /\ brokenOff' = TRUE /\ UNCHANGED preferenceCalls
  <2>1. TaskGo(s, NoTask) /\ \A k \in PreferenceSlots : preferenceTasks'[k] = IF k = s THEN NoTask ELSE preferenceTasks[k]
    BY <1>1, <1>3, ChainNow, NumbersNow DEF TaskEnd
  <2>2. ControlInv'
    BY <1>3, <2>1, NoTaskTyped, HandlerGoesOn
  <2>3. RowsInv'
    <3>1. brokenOff' \in BOOLEAN
      BY <1>3
    <3>2. QED
      BY <1>1, <1>3, <2>1, <3>1, NoTaskTyped, ChainNow, ReaderTyped
  <2>4. AnswerKept' /\ ChainInv'
    BY <1>1, <1>3, <2>1, ChainMoves
  <2>5. QED
    BY <2>2, <2>3, <2>4 DEF PreferenceInv
<1>4. QED
  BY <1>2, <1>3 DEF Places

LEMMA CallsPlacedInv ==
  ASSUME PreferenceInv, NEW s \in PreferenceSlots, FirstCall(s) \/ CallAgain(s)
  PROVE  PreferenceInv'
<1>1. s \in Active
  BY DEF FirstCall, CallAgain, TaskAt, Active
<1>2. QED
  BY <1>1, PlacesInv DEF FirstCall, CallAgain

\* The row is looked for by its call: without one the chain has moved on.
LEMMA RowLookedFor ==
  ASSUME PreferenceInv, NEW s \in PreferenceSlots, FindAgain(s) \/ FindRow(s)
  PROVE  PreferenceInv'
<1> DEFINE old == preferenceTasks[s]
           Went(i) == [old EXCEPT !.at = "save", !.row = i, !.loaded = <<preferenceRows[i]>>]
           place == [old EXCEPT !.at = "place"]
<1>1. /\ s \in Active /\ old \in PreferenceTask /\ old.at \in {"again", "find"}
      /\ UNCHANGED <<preferenceRows, preferenceJobs, preferenceCalls, callbacks, answered,
                     staleSave, brokenOff, redelivered>>
  BY ChainNow, TaskNow DEF FindAgain, FindRow, TaskAt, Active, preferenceHistory
<1>2. \E t \in PreferenceTask :
        /\ TaskGo(s, t)
        /\ \/ t.at = "idle" /\ RowsOf(old.job) = {}
           \/ TaskAt(s, "again") /\ t.at = "place" /\ t.job = old.job
           \/ /\ TaskAt(s, "find") /\ t.at = "save" /\ t.job = old.job /\ t.call = old.call
              /\ Len(t.loaded) = 1 /\ t.row \in DOMAIN preferenceRows
              /\ t.loaded[1] = preferenceRows[t.row] /\ t.loaded[1].callId = t.job
  <2>1. CASE RowsOf(old.job) = {}
    BY <2>1, NoTaskTyped DEF FindAgain, FindRow, TaskEnd
  <2>2. CASE RowsOf(old.job) # {} /\ FindAgain(s)
    <3>1. TaskGo(s, place) /\ TaskAt(s, "again")
      BY <2>2 DEF FindAgain
    <3>2. place \in PreferenceTask /\ place.at = "place" /\ place.job = old.job
      BY <1>1 DEF PreferenceTask
    <3> HIDE DEF place
    <3>3. QED
      BY <3>1, <3>2
  <2>3. CASE RowsOf(old.job) # {} /\ FindRow(s)
    <3>1. PICK i \in RowsOf(old.job) : TaskGo(s, Went(i)) /\ TaskAt(s, "find")
      BY <2>3 DEF FindRow
    <3>2. /\ i \in DOMAIN preferenceRows /\ preferenceRows[i].callId = old.job /\ i \in Nat
          /\ preferenceRows[i] \in PreferenceRow
      BY <3>1, ChainNow DEF RowsOf
    <3>3. PICK copy : copy = <<preferenceRows[i]>> /\ copy \in Seq(PreferenceRow) /\ Len(copy) = 1
                      /\ copy[1] = preferenceRows[i]
      <4>1. ASSUME NEW row \in PreferenceRow
            PROVE  <<row>> \in Seq(PreferenceRow) /\ Len(<<row>>) = 1 /\ <<row>>[1] = row
        OBVIOUS
      <4>2. QED
        BY <3>2, <4>1
    <3>4. Went(i) = [old EXCEPT !.at = "save", !.row = i, !.loaded = copy]
      BY <3>3
    <3>5. PICK t : t = [old EXCEPT !.at = "save", !.row = i, !.loaded = copy]
      OBVIOUS
    <3>6. /\ t \in PreferenceTask /\ t.at = "save" /\ t.job = old.job
          /\ t.call = old.call /\ t.row = i /\ t.loaded = copy
      BY <1>1, <3>2, <3>3, <3>5 DEF PreferenceTask
    <3>7. TaskGo(s, t)
      BY <3>1, <3>4, <3>5
    <3>8. QED
      BY <3>1, <3>2, <3>3, <3>6, <3>7
  <2>4. QED
    BY <2>1, <2>2, <2>3
<1>3. PICK t \in PreferenceTask :
        /\ TaskGo(s, t)
        /\ \/ t.at = "idle" /\ RowsOf(old.job) = {}
           \/ TaskAt(s, "again") /\ t.at = "place" /\ t.job = old.job
           \/ /\ TaskAt(s, "find") /\ t.at = "save" /\ t.job = old.job /\ t.call = old.call
              /\ Len(t.loaded) = 1 /\ t.row \in DOMAIN preferenceRows
              /\ t.loaded[1] = preferenceRows[t.row] /\ t.loaded[1].callId = t.job
  BY <1>2
<1>4. ControlInv'
  BY <1>1, <1>3, HandlerGoesOn
<1>5. RowsInv'
  BY <1>1, <1>3, ChainNow, ReaderTyped
<1>6. \A i \in DOMAIN preferenceRows :
        Follows(old, preferenceRows[i].callId) => Follows(t, preferenceRows[i].callId)
  BY <1>1, <1>3 DEF Follows, RowsOf, TaskAt
<1>7. AnswerKept' /\ ChainInv'
  BY <1>1, <1>3, <1>6, ChainNow, NumbersNow, ChainMoves
<1>8. QED
  BY <1>4, <1>5, <1>7 DEF PreferenceInv

LEMMA QueueRetryInv ==
  ASSUME PreferenceInv, NEW s \in PreferenceSlots, QueueRetry(s)
  PROVE  PreferenceInv'
<1> DEFINE old == preferenceTasks[s]
<1>1. /\ s \in Active /\ old.at = "queue" /\ TaskGo(s, NoTask)
      /\ preferenceJobs' = preferenceJobs \cup {old.call}
      /\ UNCHANGED <<preferenceRows, preferenceCalls, callbacks, answered, staleSave, brokenOff, redelivered>>
  BY DEF QueueRetry, TaskEnd, TaskAt, Active, preferenceHistory
<1>2. ControlInv'
  BY RetryQueued
<1>3. old.call \in 1..MaxPreferenceCalls
  BY <1>1, ChainNow, NumbersNow DEF TaskFits
<1>4. preferenceJobs' \subseteq 0..MaxPreferenceCalls
  BY <1>1, <1>3, ChainNow
<1>5. RowsInv'
  BY <1>1, <1>4, NoTaskTyped, ChainNow, ReaderTyped
<1>6. \A c : Follows(old, c) => c \in preferenceJobs'
  BY <1>1 DEF Follows
<1>7. (0 \in preferenceJobs' => 0 \in preferenceJobs) /\ NoTask.at = "idle"
  BY <1>1, <1>3, NoTaskTyped
<1>8. \A k \in PreferenceSlots : preferenceTasks'[k] = IF k = s THEN NoTask ELSE preferenceTasks[k]
  BY <1>1, ChainNow, NumbersNow
<1>9. \A c \in preferenceJobs : c \in preferenceJobs'
  BY <1>1
<1>10. AnswerKept' /\ ChainInv'
  BY <1>1, <1>6, <1>7, <1>8, <1>9, ChainMoves
<1>11. QED
  BY <1>2, <1>5, <1>10 DEF PreferenceInv

\* The gateway calls back about any call it has placed.
LEMMA CallbackInv ==
  ASSUME PreferenceInv, NEW s \in PreferenceSlots, Callback(s)
  PROVE  PreferenceInv'
<1> DEFINE Went(i) == [NoTask EXCEPT !.at = "callback", !.row = i, !.loaded = <<preferenceRows[i]>>]
<1>1. /\ preferenceTasks[s].at = "idle" /\ callbacks < MaxCallbacks /\ callbacks' = callbacks + 1
      /\ UNCHANGED <<preferenceRows, preferenceJobs, preferenceCalls, answered, staleSave,
                     brokenOff, redelivered>>
  BY DEF Callback, TaskAt
<1>2. \E t \in PreferenceTask :
        /\ TaskGo(s, t)
        /\ \/ t.at = "idle"
           \/ /\ t.at = "callback" /\ Len(t.loaded) = 1 /\ t.row \in DOMAIN preferenceRows
              /\ t.loaded[1] = preferenceRows[t.row]
  <2>1. CASE UNCHANGED preferenceTasks
    BY <1>1, <2>1, ChainNow, TaskNow, NumbersNow DEF TaskGo
  <2>2. ASSUME NEW c, NEW i \in RowsOf(c), TaskGo(s, Went(i))
        PROVE  \E t \in PreferenceTask :
                 /\ TaskGo(s, t)
                 /\ t.at = "callback" /\ Len(t.loaded) = 1 /\ t.row \in DOMAIN preferenceRows
                 /\ t.loaded[1] = preferenceRows[t.row]
    <3>1. i \in DOMAIN preferenceRows /\ i \in Nat /\ preferenceRows[i] \in PreferenceRow
      BY ChainNow DEF RowsOf
    <3>2. PICK copy : copy = <<preferenceRows[i]>> /\ copy \in Seq(PreferenceRow) /\ Len(copy) = 1
                      /\ copy[1] = preferenceRows[i]
      <4>1. ASSUME NEW row \in PreferenceRow
            PROVE  <<row>> \in Seq(PreferenceRow) /\ Len(<<row>>) = 1 /\ <<row>>[1] = row
        OBVIOUS
      <4>2. QED
        BY <3>1, <4>1
    <3>3. PICK t : t = [NoTask EXCEPT !.at = "callback", !.row = i, !.loaded = copy]
      OBVIOUS
    <3>4. t \in PreferenceTask /\ t.at = "callback" /\ t.row = i /\ t.loaded = copy
      BY <3>1, <3>2, <3>3, NoTaskTyped DEF PreferenceTask
    <3>5. TaskGo(s, t)
      BY <2>2, <3>2, <3>3
    <3>6. QED
      BY <3>1, <3>2, <3>4, <3>5
  <2>3. QED
    BY <2>1, <2>2 DEF Callback
<1>3. PICK t \in PreferenceTask :
        /\ TaskGo(s, t)
        /\ \/ t.at = "idle"
           \/ /\ t.at = "callback" /\ Len(t.loaded) = 1 /\ t.row \in DOMAIN preferenceRows
              /\ t.loaded[1] = preferenceRows[t.row]
  BY <1>2
<1>4. /\ \A k \in PreferenceSlots : preferenceTasks'[k] = IF k = s THEN t ELSE preferenceTasks[k]
      /\ s \notin Active
  BY <1>1, <1>3, ChainNow, NumbersNow DEF Active
<1>5. Pairs' \subseteq Pairs
  BY <1>1, <1>3, <1>4, PairsLoaded
<1>6. ControlInv'
  BY <1>1, <1>3, <1>4, <1>5, ChainNow, CallbackMoves
<1>7. callbacks' \in 0..MaxCallbacks
  BY <1>1, ChainNow, PreferenceLimitsAssumption
<1>8. RowsInv'
  BY <1>1, <1>3, <1>7, ChainNow, ReaderTyped
<1>9. AnswerKept' /\ ChainInv'
  <2>1. \A c : ~Follows(preferenceTasks[s], c)
    BY <1>1 DEF Follows
  <2>2. QED
    BY <1>1, <1>3, <1>4, <2>1, ChainMoves
<1>10. QED
  BY <1>6, <1>8, <1>9 DEF PreferenceInv

\* The process ends: what ran is handed out again, and the chain counts as broken off.
LEMMA PreferenceCrashInv ==
  ASSUME PreferenceInv, PreferenceCrash
  PROVE  PreferenceInv'
<1>1. /\ redelivered' = Cardinality(JobsRunning) /\ redelivered' \in Nat
      /\ preferenceJobs' = preferenceJobs \cup JobsRunning
      /\ brokenOff' = (brokenOff \/ JobsRunning # {})
      /\ preferenceTasks' = [s \in PreferenceSlots |-> NoTask]
      /\ UNCHANGED <<preferenceRows, preferenceCalls, callbacks, answered, staleSave>>
      /\ JobsRunning = {preferenceTasks[s].job : s \in Active}
  <2>1. JobsRunning = {preferenceTasks[s].job : s \in Active}
    BY DEF JobsRunning, Active
  <2>2. Cardinality(JobsRunning) \in Nat
    <3>1. CASE Active = {}
      BY <2>1, <3>1, FS_EmptySet
    <3>2. ASSUME NEW s \in Active PROVE Cardinality(JobsRunning) \in Nat
      <4>1. JobsRunning = {preferenceTasks[s].job}
        BY <2>1, ChainNow
      <4>2. Cardinality(JobsRunning) = 1
        BY <4>1, FS_Singleton
      <4>3. QED
        BY <4>2
    <3>3. QED
      BY <3>1, <3>2
  <2>3. QED
    BY <2>1, <2>2 DEF PreferenceCrash
<1>2. ControlInv'
  BY ChainRedelivered
<1>3. JobsRunning \subseteq 0..MaxPreferenceCalls
  <2>1. \A s \in Active : preferenceTasks[s].job \in 0..MaxPreferenceCalls
    BY ChainNow, TaskNow DEF PreferenceTask
  <2>2. QED
    BY <1>1, <2>1
<1>4. RowsInv'
  <2>1. preferenceTasks' \in [PreferenceSlots -> PreferenceTask]
    BY <1>1, NoTaskTyped
  <2>2. PreferenceTypeOK'
    BY <1>1, <1>3, <2>1, ChainNow DEF PreferenceTypeOK
  <2>3. \A k \in PreferenceSlots : preferenceTasks'[k].at = "idle"
    BY <1>1, NoTaskTyped
  <2>4. QED
    BY <2>2, <2>3 DEF RowsInv, Carrying, TaskAt
<1>5. AnswerKept'
  BY <1>1, ChainNow DEF AnswerKept
<1>6. \A k \in PreferenceSlots : preferenceTasks'[k].at = "idle"
  BY <1>1, NoTaskTyped
<1>7. ASSUME ~brokenOff'
      PROVE  ~brokenOff /\ Active = {} /\ preferenceJobs' = preferenceJobs
  BY <1>1, <1>7
<1>8. OneRow'
  BY <1>1, <1>6, <1>7, ChainNow DEF OneRow, ChainInv
<1>9. ASSUME ~brokenOff', ~staleSave', NEW i \in DOMAIN preferenceRows'
      PROVE  Ended(i)' \/ Following(preferenceRows[i].callId)'
  <2>1. Ended(i) \/ Following(preferenceRows[i].callId)
    BY <1>1, <1>7, <1>9, ChainNow DEF ChainInv
  <2>2. \A s \in PreferenceSlots : \A c : ~Follows(preferenceTasks[s], c)
    BY <1>7, <1>9 DEF Follows, Active
  <2>3. QED
    BY <1>1, <1>7, <1>9, <2>1, <2>2 DEF Following, Ended
<1>10. QED
  BY <1>2, <1>4, <1>5, <1>8, <1>9 DEF PreferenceInv, ChainInv

LEMMA CreateRowInv ==
  ASSUME PreferenceInv, NEW s \in PreferenceSlots, CreateRow(s)
  PROVE  PreferenceInv'
<1> DEFINE old == preferenceTasks[s]
           n == Len(preferenceRows) + 1
           new == [callId |-> old.call, answer |-> "neither", received |-> FALSE, retryCount |-> 1]
           went == [old EXCEPT !.at = "queue"]
<1>1. /\ s \in Active /\ s \in PreferenceSlots /\ old \in PreferenceTask /\ old.at = "create"
      /\ preferenceRows' = Append(preferenceRows, new) /\ answered' = Append(answered, << >>)
      /\ TaskGo(s, went)
      /\ UNCHANGED <<preferenceJobs, preferenceCalls, callbacks, staleSave, brokenOff, redelivered>>
  BY ChainNow, TaskNow DEF CreateRow, TaskAt, Active
<1>2. old.call = preferenceCalls /\ preferenceCalls # 0 /\ TaskFits(old, Pairs, preferenceCalls, redelivered)
  BY <1>1, ChainNow DEF TaskFits
<1>3. PICK row \in PreferenceRow : /\ row = new /\ row.callId = preferenceCalls /\ row.answer = "neither"
                                   /\ row.retryCount = 1
  <2>1. preferenceCalls \in 0..MaxPreferenceCalls /\ MaxPreferenceCalls \in Nat
    BY ChainNow, NumbersNow
  <2>2. old.call \in CallIds
    BY <1>2, <2>1 DEF CallIds
  <2>3. /\ new \in PreferenceRow /\ new.callId = old.call /\ new.answer = "neither"
        /\ new.retryCount = 1
    BY <2>2 DEF PreferenceRow, Answers, MaxRetries
  <2> HIDE DEF new
  <2>4. QED
    BY <1>2, <2>3
<1>4. PICK t \in PreferenceTask : t = went /\ t.at = "queue" /\ t.call = old.call /\ t.job = old.job
  <2>1. /\ went \in PreferenceTask /\ went.at = "queue" /\ went.call = old.call /\ went.job = old.job
    BY <1>1 DEF PreferenceTask
  <2> HIDE DEF went
  <2>2. QED
    BY <2>1
<1>5. << >> \in Seq(Answers) /\ \A r : << >> # Append(<< >>, r)
  OBVIOUS
<1>6. /\ preferenceRows' \in Seq(PreferenceRow) /\ Len(preferenceRows') = n /\ preferenceRows'[n] = row
      /\ \A i \in DOMAIN preferenceRows : preferenceRows'[i] = preferenceRows[i]
      /\ DOMAIN preferenceRows' = DOMAIN preferenceRows \cup {n}
      /\ n \notin DOMAIN preferenceRows /\ DOMAIN preferenceRows = 1..Len(preferenceRows)
  <2>1. preferenceRows' = Append(preferenceRows, row) /\ preferenceRows \in Seq(PreferenceRow)
    BY <1>1, <1>3, ChainNow
  <2>2. QED
    BY <2>1, AppendProperties
<1>7. /\ answered' \in Seq(Seq(Answers)) /\ Len(answered') = n /\ answered'[n] = << >>
      /\ \A i \in DOMAIN preferenceRows : answered'[i] = answered[i]
  <2>1. answered \in Seq(Seq(Answers)) /\ Len(answered) = Len(preferenceRows)
    BY ChainNow
  <2>2. QED
    BY <1>1, <1>5, <1>6, <2>1, AppendProperties
<1> HIDE DEF n, new, went
<1>8. \A k \in PreferenceSlots : preferenceTasks'[k] = IF k = s THEN t ELSE preferenceTasks[k]
  BY <1>1, <1>4, ChainNow, NumbersNow
<1>9. Pairs' \subseteq Pairs \cup {<<preferenceCalls, 1>>}
  <2>1. ASSUME NEW k \in Carrying' PROVE Pair(Loaded(k))' \in Pairs
    <3>1. k \in Carrying /\ Pair(Loaded(k))' = Pair(Loaded(k))
      BY <1>4, <1>8, <2>1 DEF Carrying, Pair, Loaded
    <3>2. QED
      BY <3>1 DEF Pairs
  <2>2. ASSUME NEW i \in DOMAIN preferenceRows'
        PROVE  Pair(preferenceRows[i])' \in Pairs \cup {<<preferenceCalls, 1>>}
    <3>1. CASE i = n
      BY <1>3, <1>6, <3>1 DEF Pair
    <3>2. CASE i \in DOMAIN preferenceRows
      BY <1>6, <3>2 DEF Pair, Pairs
    <3>3. QED
      BY <1>6, <3>1, <3>2
  <2>3. QED
    BY <2>1, <2>2 DEF Pairs
<1>10. ControlInv'
  BY <1>1, <1>4, <1>9, CallRecorded DEF TaskAt
<1>11. RowsInv'
  <2>1. DOMAIN preferenceRows \subseteq DOMAIN preferenceRows' /\ Len(answered') = Len(preferenceRows')
    BY <1>6, <1>7
  <2>2. /\ preferenceJobs' \subseteq 0..MaxPreferenceCalls /\ preferenceCalls' \in 0..MaxPreferenceCalls
        /\ callbacks' \in 0..MaxCallbacks /\ staleSave' \in BOOLEAN /\ brokenOff' \in BOOLEAN
        /\ redelivered' \in Nat
    BY <1>1, ChainNow
  <2>3. TaskGo(s, t)
    BY <1>1, <1>4
  <2>4. QED
    BY <1>1, <1>4, <1>6, <1>7, <2>1, <2>2, <2>3, ChainNow, OneTaskTyped
<1>12. AnswerKept'
  BY <1>1, <1>3, <1>6, <1>7, ChainNow DEF AnswerKept
<1>13. ~brokenOff => Len(preferenceRows) = 0
  BY <1>1, ChainNow DEF ChainInv, OneRow
<1>14. OneRow'
  <2>1. ~brokenOff => Len(preferenceRows') = 1
    BY <1>6, <1>13 DEF n
  <2>2. preferenceJobs' = {} /\ \A k \in PreferenceSlots : preferenceTasks'[k].at \notin {"first", "create"}
    BY <1>1, <1>4, <1>8, ChainNow DEF Active
  <2>3. QED
    BY <1>1, <2>1, <2>2 DEF OneRow
<1>15. ASSUME ~brokenOff', NEW i \in DOMAIN preferenceRows'
       PROVE  Following(preferenceRows[i].callId)'
  <2>1. i = n
    BY <1>1, <1>6, <1>13, <1>15
  <2>2. preferenceRows'[i].callId = t.call /\ preferenceTasks'[s] = t
    BY <1>1, <1>2, <1>3, <1>4, <1>6, <1>8, <2>1
  <2>3. QED
    BY <1>1, <1>4, <2>2 DEF Following, Follows
<1>16. QED
  BY <1>10, <1>11, <1>12, <1>14, <1>15 DEF PreferenceInv, ChainInv

\* A whole row is saved by a handler that loaded one: call and number stay together.
LEMMA RowSaved ==
  ASSUME PreferenceInv, NEW s \in Carrying, NEW t \in PreferenceTask, NEW row \in PreferenceRow,
         TaskGo(s, t), SaveRow(s, row), t.at \in {"idle", "queue"},
         UNCHANGED <<preferenceJobs, preferenceCalls, callbacks, brokenOff, redelivered>>,
         answered' \in Seq(Seq(Answers)), Len(answered') = Len(preferenceRows),
         \A i \in DOMAIN preferenceRows : i # preferenceTasks[s].row => answered'[i] = answered[i],
         \/ answered' = answered /\ row.answer = Loaded(s).answer
         \/ /\ answered'[preferenceTasks[s].row] # << >>
            /\ answered'[preferenceTasks[s].row][Len(answered'[preferenceTasks[s].row])] = row.answer
  PROVE  /\ RowsInv' /\ AnswerKept'
         /\ Pairs' \subseteq Pairs \cup {<<row.callId, row.retryCount>>}
         /\ DOMAIN preferenceRows' = DOMAIN preferenceRows /\ Len(preferenceRows') = Len(preferenceRows)
         /\ \A i \in DOMAIN preferenceRows :
              preferenceRows'[i] = IF i = preferenceTasks[s].row THEN row ELSE preferenceRows[i]
<1> DEFINE m == preferenceTasks[s].row
<1>1. s \in PreferenceSlots /\ m \in DOMAIN preferenceRows /\ preferenceRows \in Seq(PreferenceRow)
  BY ChainNow, TaskNow DEF Carrying
<1>2. preferenceRows' = [preferenceRows EXCEPT ![m] = row]
      /\ staleSave' = (staleSave \/ preferenceRows[m] # Loaded(s))
  BY DEF SaveRow
<1> HIDE DEF m
<1>3. /\ preferenceRows' \in Seq(PreferenceRow) /\ Len(preferenceRows') = Len(preferenceRows)
      /\ DOMAIN preferenceRows' = DOMAIN preferenceRows
      /\ \A i \in DOMAIN preferenceRows : preferenceRows'[i] = IF i = m THEN row ELSE preferenceRows[i]
  BY <1>1, <1>2, ExceptSeq
<1>4. \A k \in PreferenceSlots : preferenceTasks'[k] = IF k = s THEN t ELSE preferenceTasks[k]
  BY <1>1, ChainNow, NumbersNow
<1>5. Pairs' \subseteq Pairs \cup {<<row.callId, row.retryCount>>}
  <2>1. RowsInv /\ t.at \notin {"save", "callback"}
    BY ChainNow
  <2>2. QED
    BY <1>1, <1>2, <1>4, <2>1, PairsWritten
<1>6. RowsInv'
  <2>1. /\ preferenceJobs' \subseteq 0..MaxPreferenceCalls /\ preferenceCalls' \in 0..MaxPreferenceCalls
        /\ callbacks' \in 0..MaxCallbacks /\ staleSave' \in BOOLEAN /\ brokenOff' \in BOOLEAN
        /\ redelivered' \in Nat
    BY <1>2, ChainNow
  <2>2. /\ DOMAIN preferenceRows \subseteq DOMAIN preferenceRows' /\ Len(answered') = Len(preferenceRows')
        /\ t.at \notin {"save", "callback"}
    BY <1>3
  <2>3. QED
    BY <1>1, <1>3, <2>1, <2>2, ChainNow, OneTaskTyped
<1>7. AnswerKept'
  <2>1. SUFFICES ASSUME ~staleSave', NEW i \in DOMAIN preferenceRows
                 PROVE  preferenceRows'[i].answer = IF answered'[i] = << >> THEN "neither"
                                                    ELSE answered'[i][Len(answered'[i])]
    BY <1>3 DEF AnswerKept
  <2>2. ~staleSave /\ preferenceRows[m] = Loaded(s)
    BY <1>2, <2>1
  <2>3. preferenceRows[i].answer = IF answered[i] = << >> THEN "neither" ELSE answered[i][Len(answered[i])]
    BY <2>2, ChainNow DEF AnswerKept
  <2>4. CASE i = m
    BY <1>3, <2>2, <2>3, <2>4 DEF m
  <2>5. CASE i # m
    BY <1>3, <2>3, <2>5 DEF m
  <2>6. QED
    BY <2>4, <2>5
<1>8. QED
  BY <1>3, <1>5, <1>6, <1>7 DEF m

LEMMA SaveRetryInv ==
  ASSUME PreferenceInv, NEW s \in PreferenceSlots, SaveRetry(s)
  PROVE  PreferenceInv'
<1> DEFINE old == preferenceTasks[s]
           m == old.row
           was == Loaded(s)
           more == was.retryCount + 1
           saved == [was EXCEPT !.callId = old.call, !.retryCount = more]
           went == [old EXCEPT !.at = "queue"]
<1>1. /\ s \in Active /\ s \in Carrying /\ old \in PreferenceTask /\ old.at = "save" /\ TaskAt(s, "save")
      /\ was \in PreferenceRow /\ was.callId = old.job /\ m \in DOMAIN preferenceRows
      /\ UNCHANGED <<preferenceJobs, preferenceCalls, callbacks, answered, brokenOff, redelivered>>
  <2>1. s \in Active /\ s \in Carrying /\ old.at = "save" /\ TaskAt(s, "save")
    BY DEF SaveRetry, TaskAt, Active, Carrying
  <2>2. was.callId = old.job
    BY <2>1, ChainNow DEF RowsInv
  <2>3. QED
    BY <2>1, <2>2, ChainNow, TaskNow DEF SaveRetry
<1>2. SaveRow(s, saved) /\ TaskGo(s, went)
  BY DEF SaveRetry
<1>3. /\ old.call = preferenceCalls /\ preferenceCalls # 0
      /\ \A p \in Pairs : p[1] = old.job => p[2] < MaxRetries
      /\ <<old.job, was.retryCount>> \in Pairs
  <2>1. TaskFits(old, Pairs, preferenceCalls, redelivered)
    BY <1>1, ChainNow
  <2>2. <<was.callId, was.retryCount>> \in Pairs
    BY <1>1, InPairs
  <2>3. QED
    BY <1>1, <2>1, <2>2 DEF TaskFits
<1>4. more \in 1..MaxRetries /\ more - 1 = was.retryCount /\ was.retryCount \in 1..(MaxRetries - 1)
  <2>1. was.retryCount \in 1..MaxRetries /\ was.retryCount < MaxRetries
    BY <1>1, <1>3 DEF PreferenceRow
  <2>2. QED
    BY <2>1 DEF MaxRetries
<1>5. old.call \in CallIds
  <2>1. preferenceCalls \in 0..MaxPreferenceCalls /\ MaxPreferenceCalls \in Nat
    BY ChainNow, NumbersNow
  <2>2. QED
    BY <1>3, <2>1 DEF CallIds
<1> HIDE DEF more
<1>6. PICK row \in PreferenceRow :
        /\ row = saved /\ row.callId = old.call /\ row.retryCount = more /\ row.answer = was.answer
  <2>1. /\ saved \in PreferenceRow /\ saved.callId = old.call /\ saved.retryCount = more
        /\ saved.answer = was.answer
    BY <1>1, <1>4, <1>5 DEF PreferenceRow
  <2> HIDE DEF saved
  <2>2. QED
    BY <2>1
<1>7. PICK t \in PreferenceTask : t = went /\ t.at = "queue" /\ t.call = old.call /\ t.job = old.job
  <2>1. /\ went \in PreferenceTask /\ went.at = "queue" /\ went.call = old.call /\ went.job = old.job
    BY <1>1 DEF PreferenceTask
  <2> HIDE DEF went
  <2>2. QED
    BY <2>1
<1> HIDE DEF saved, went, was
<1>8. /\ RowsInv' /\ AnswerKept'
      /\ Pairs' \subseteq Pairs \cup {<<row.callId, row.retryCount>>}
      /\ DOMAIN preferenceRows' = DOMAIN preferenceRows /\ Len(preferenceRows') = Len(preferenceRows)
      /\ \A i \in DOMAIN preferenceRows : preferenceRows'[i] = IF i = m THEN row ELSE preferenceRows[i]
  <2>1. TaskGo(s, t) /\ SaveRow(s, row) /\ row.answer = Loaded(s).answer
    BY <1>2, <1>6, <1>7 DEF was
  <2>2. answered' = answered /\ answered' \in Seq(Seq(Answers)) /\ Len(answered') = Len(preferenceRows)
    BY <1>1, ChainNow
  <2>3. QED
    BY <1>1, <1>7, <2>1, <2>2, RowSaved
<1>9. ControlInv'
  <2>1. Pairs' \subseteq Pairs \cup {<<preferenceCalls, more>>}
    BY <1>3, <1>6, <1>8
  <2>2. more \in Nat /\ more - 1 \in 1..(MaxRetries - 1) /\ <<old.job, more - 1>> \in Pairs
    BY <1>3, <1>4 DEF MaxRetries
  <2>3. TaskGo(s, t)
    BY <1>2, <1>7
  <2>4. QED
    BY <1>1, <1>7, <2>1, <2>2, <2>3, CallRecorded
<1>10. \A k \in PreferenceSlots : preferenceTasks'[k] = IF k = s THEN t ELSE preferenceTasks[k]
  BY <1>2, <1>7, ChainNow, NumbersNow
<1>11. OneRow'
  <2>1. \A k \in PreferenceSlots : preferenceTasks'[k].at \in {"first", "create"} =>
                                    preferenceTasks[k].at \in {"first", "create"}
    BY <1>7, <1>10
  <2>2. QED
    BY <1>1, <1>8, <2>1, ChainNow DEF ChainInv, OneRow
<1>12. ASSUME ~brokenOff', NEW i \in DOMAIN preferenceRows'
       PROVE  Following(preferenceRows[i].callId)'
  <2>1. i = m
    <3>1. Len(preferenceRows) <= 1 /\ DOMAIN preferenceRows = 1..Len(preferenceRows)
          /\ Len(preferenceRows) \in Nat
      BY <1>1, <1>12, ChainNow DEF ChainInv, OneRow
    <3>2. QED
      BY <1>1, <1>8, <1>12, <3>1
  <2>2. preferenceRows'[i].callId = t.call /\ preferenceTasks'[s] = t
    BY <1>1, <1>6, <1>7, <1>8, <1>10, <2>1
  <2>3. QED
    BY <1>7, <2>2 DEF Following, Follows
<1>13. QED
  BY <1>8, <1>9, <1>11, <1>12 DEF PreferenceInv, ChainInv

\* A callback keeps call and number of its row; an answer it saves is remembered.
LEMMA CallbackSaved ==
  ASSUME PreferenceInv, NEW s \in PreferenceSlots, CallReceived(s) \/ UpdateWorkingTime(s)
  PROVE  PreferenceInv'
<1> DEFINE was == Loaded(s)
           m == preferenceTasks[s].row
<1>1. /\ s \in Carrying /\ s \notin Active /\ was \in PreferenceRow /\ m \in DOMAIN preferenceRows
      /\ TaskGo(s, NoTask)
      /\ UNCHANGED <<preferenceJobs, preferenceCalls, callbacks, brokenOff, redelivered>>
  <2>1. s \in Carrying /\ s \notin Active /\ TaskGo(s, NoTask)
        /\ UNCHANGED <<preferenceJobs, preferenceCalls, callbacks, brokenOff, redelivered>>
    BY DEF CallReceived, UpdateWorkingTime, TaskAt, TaskEnd, Carrying, Active
  <2>2. QED
    BY <2>1, ChainNow, TaskNow
<1>2. \E row \in PreferenceRow :
        /\ SaveRow(s, row) /\ row.callId = was.callId /\ row.retryCount = was.retryCount
        /\ \/ answered' = answered /\ row.answer = was.answer
           \/ /\ row.answer \in Answers
              /\ answered' = [answered EXCEPT ![m] = Append(answered[m], row.answer)]
  <2>1. CASE CallReceived(s)
    <3> DEFINE saved == [was EXCEPT !.received = TRUE]
    <3>1. /\ saved \in PreferenceRow /\ saved.callId = was.callId
          /\ saved.retryCount = was.retryCount /\ saved.answer = was.answer
      BY <1>1 DEF PreferenceRow
    <3>2. SaveRow(s, saved) /\ answered' = answered
      BY <2>1 DEF CallReceived
    <3> HIDE DEF saved
    <3>3. QED
      BY <3>1, <3>2
  <2>2. CASE UpdateWorkingTime(s)
    <3>1. PICK answer \in Answers :
            /\ SaveRow(s, [was EXCEPT !.answer = answer])
            /\ answered' = [answered EXCEPT ![m] = Append(answered[m], answer)]
      BY <2>2 DEF UpdateWorkingTime
    <3> DEFINE saved == [was EXCEPT !.answer = answer]
    <3>2. /\ saved \in PreferenceRow /\ saved.callId = was.callId
          /\ saved.retryCount = was.retryCount /\ saved.answer = answer
      BY <1>1 DEF PreferenceRow
    <3> HIDE DEF saved
    <3>3. QED
      BY <3>1, <3>2 DEF saved
  <2>3. QED
    BY <2>1, <2>2
<1>3. PICK row \in PreferenceRow :
        /\ SaveRow(s, row) /\ row.callId = was.callId /\ row.retryCount = was.retryCount
        /\ \/ answered' = answered /\ row.answer = was.answer
           \/ /\ row.answer \in Answers
              /\ answered' = [answered EXCEPT ![m] = Append(answered[m], row.answer)]
  BY <1>2
<1>4. /\ answered \in Seq(Seq(Answers)) /\ Len(answered) = Len(preferenceRows)
      /\ m \in DOMAIN answered /\ answered[m] \in Seq(Answers)
  BY <1>1, ChainNow
<1> HIDE DEF was, m
<1>5. /\ answered' \in Seq(Seq(Answers)) /\ Len(answered') = Len(preferenceRows)
      /\ \A i \in DOMAIN preferenceRows : i # m => answered'[i] = answered[i]
      /\ \A j \in DOMAIN answered[m] : j \in DOMAIN answered'[m] /\ answered'[m][j] = answered[m][j]
      /\ \/ answered' = answered /\ row.answer = was.answer
         \/ answered'[m] # << >> /\ answered'[m][Len(answered'[m])] = row.answer
  <2>1. CASE answered' = answered /\ row.answer = was.answer
    BY <1>4, <2>1
  <2>2. CASE row.answer \in Answers /\ answered' = [answered EXCEPT ![m] = Append(answered[m], row.answer)]
    <3>1. PICK more : /\ more = Append(answered[m], row.answer) /\ more \in Seq(Answers) /\ more # << >>
                      /\ more[Len(more)] = row.answer
                      /\ \A j \in DOMAIN answered[m] : j \in DOMAIN more /\ more[j] = answered[m][j]
      <4>1. ASSUME NEW q \in Seq(Answers), NEW x \in Answers
            PROVE  /\ Append(q, x) \in Seq(Answers) /\ Len(Append(q, x)) = Len(q) + 1
                   /\ Append(q, x)[Len(q) + 1] = x
                   /\ \A j \in DOMAIN q : j \in 1..(Len(q) + 1) /\ Append(q, x)[j] = q[j]
        BY AppendProperties
      <4>2. PICK more : more = Append(answered[m], row.answer)
        OBVIOUS
      <4>3. /\ more \in Seq(Answers) /\ Len(more) = Len(answered[m]) + 1 /\ Len(answered[m]) \in Nat
            /\ more[Len(more)] = row.answer
            /\ \A j \in DOMAIN answered[m] : j \in 1..Len(more) /\ more[j] = answered[m][j]
        BY <1>4, <2>2, <4>1, <4>2
      <4>4. more # << >> /\ DOMAIN more = 1..Len(more)
        BY <4>3
      <4>5. QED
        BY <4>2, <4>3, <4>4
    <3>2. /\ answered' \in Seq(Seq(Answers)) /\ Len(answered') = Len(answered)
          /\ \A i \in DOMAIN answered : answered'[i] = IF i = m THEN more ELSE answered[i]
      BY <1>4, <2>2, <3>1, ExceptSeq
    <3>3. DOMAIN answered = DOMAIN preferenceRows
      BY <1>4, ChainNow
    <3>4. QED
      BY <1>4, <3>1, <3>2, <3>3
  <2>3. QED
    BY <1>3, <2>1, <2>2
<1>6. /\ RowsInv' /\ AnswerKept'
      /\ Pairs' \subseteq Pairs \cup {<<row.callId, row.retryCount>>}
      /\ DOMAIN preferenceRows' = DOMAIN preferenceRows /\ Len(preferenceRows') = Len(preferenceRows)
      /\ \A i \in DOMAIN preferenceRows : preferenceRows'[i] = IF i = m THEN row ELSE preferenceRows[i]
  BY <1>1, <1>3, <1>5, NoTaskTyped, RowSaved DEF was, m
<1>7. \A k \in PreferenceSlots : preferenceTasks'[k] = IF k = s THEN NoTask ELSE preferenceTasks[k]
  BY <1>1, ChainNow, NumbersNow
<1>8. ControlInv'
  <2>1. Pairs' \subseteq Pairs
    BY <1>1, <1>3, <1>6, InPairs DEF was
  <2>2. QED
    BY <1>1, <1>7, <2>1, NoTaskTyped, ChainNow, CallbackMoves
<1>9. OneRow'
  <2>1. \A k \in PreferenceSlots : preferenceTasks'[k].at \in {"first", "create"} =>
                                    preferenceTasks[k].at \in {"first", "create"}
    BY <1>7, NoTaskTyped
  <2>2. QED
    BY <1>1, <1>6, <2>1, ChainNow DEF ChainInv, OneRow
<1>10. ASSUME ~brokenOff', ~staleSave', NEW i \in DOMAIN preferenceRows'
       PROVE  Ended(i)' \/ Following(preferenceRows[i].callId)'
  <2>1. ~brokenOff /\ ~staleSave /\ preferenceRows[m] = was /\ i \in DOMAIN preferenceRows
    BY <1>1, <1>3, <1>6, <1>10 DEF SaveRow, was, m
  <2>2. preferenceRows'[i].callId = preferenceRows[i].callId
        /\ preferenceRows'[i].retryCount = preferenceRows[i].retryCount
    BY <1>3, <1>6, <2>1
  <2>3. \A j \in DOMAIN answered[i] : j \in DOMAIN answered'[i] /\ answered'[i][j] = answered[i][j]
    BY <1>5, <2>1
  <2>4. Ended(i) => Ended(i)'
    BY <2>2, <2>3 DEF Ended
  <2>5. \A c : ~Follows(preferenceTasks[s], c)
    BY <1>1 DEF Follows, Active
  <2>6. PICK c : c = preferenceRows[i].callId
    OBVIOUS
  <2>7. Following(c) => c \in preferenceJobs' \/ \E k \in PreferenceSlots : Follows(preferenceTasks'[k], c)
    BY <1>1, <1>7, <2>5 DEF Following
  <2>8. Following(c) => Following(preferenceRows[i].callId)'
    BY <2>2, <2>6, <2>7 DEF Following, Follows
  <2>9. QED
    BY <2>1, <2>4, <2>6, <2>8, ChainNow DEF ChainInv
<1>11. QED
  BY <1>6, <1>8, <1>9, <1>10 DEF PreferenceInv, ChainInv

LEMMA PreferenceInitInv == PreferenceInit => PreferenceInv
<1> SUFFICES ASSUME PreferenceInit PROVE PreferenceInv
  OBVIOUS
<1>1. /\ preferenceRows = << >> /\ preferenceJobs = {0} /\ preferenceCalls = 0 /\ callbacks = 0
      /\ answered = << >> /\ staleSave = FALSE /\ brokenOff = FALSE /\ redelivered = 0
      /\ preferenceTasks = [s \in PreferenceSlots |-> NoTask]
  BY DEF PreferenceInit
<1>2. Active = {} /\ Carrying = {} /\ \A s \in PreferenceSlots : preferenceTasks[s].at = "idle"
  BY <1>1, NoTaskTyped DEF Active, Carrying
<1>3. Pairs = {} /\ DOMAIN preferenceRows = {}
  BY <1>1, <1>2 DEF Pairs
<1>4. PreferenceTypeOK
  <2>1. /\ preferenceRows \in Seq(PreferenceRow) /\ answered \in Seq(Seq(Answers))
        /\ Len(answered) = Len(preferenceRows)
    BY <1>1
  <2>2. /\ preferenceJobs \subseteq 0..MaxPreferenceCalls /\ preferenceCalls \in 0..MaxPreferenceCalls
        /\ callbacks \in 0..MaxCallbacks /\ redelivered \in Nat
    BY <1>1, PreferenceLimitsAssumption
  <2>3. preferenceTasks \in [PreferenceSlots -> PreferenceTask]
    BY <1>1, NoTaskTyped
  <2>4. QED
    BY <1>1, <2>1, <2>2, <2>3 DEF PreferenceTypeOK
<1>5. RowsInv
  BY <1>2, <1>4 DEF RowsInv, TaskAt
<1>6. ControlInv
  BY <1>1, <1>2, <1>3 DEF ControlInv, OneToken, PairsFit, JobFits, CallsBounded, MaxRetries
<1>7. AnswerKept /\ ChainInv
  BY <1>1, <1>3 DEF AnswerKept, ChainInv, OneRow
<1>8. QED
  BY <1>5, <1>6, <1>7 DEF PreferenceInv

LEMMA PreferenceIdle ==
  ASSUME PreferenceInv, UNCHANGED preferenceVars
  PROVE  PreferenceInv'
<1>1. /\ UNCHANGED <<preferenceRows, preferenceJobs, preferenceCalls, callbacks, answered, staleSave>>
      /\ UNCHANGED <<brokenOff, redelivered, preferenceTasks>>
  BY DEF preferenceVars, preferenceHistory
<1>2. Active' = Active /\ Carrying' = Carrying /\ Pairs' = Pairs
  BY <1>1 DEF Active, Carrying, Pairs, Pair, Loaded
<1>3. RowsInv'
  BY <1>1, <1>2, ChainNow DEF RowsInv, PreferenceTypeOK, TaskAt, Loaded
<1>4. ControlInv'
  BY <1>1, <1>2, ChainNow DEF ControlInv, OneToken, CallsBounded
<1>5. AnswerKept' /\ ChainInv'
  BY <1>1, ChainNow DEF AnswerKept, ChainInv, OneRow, Ended, Following, Follows
<1>6. QED
  BY <1>3, <1>4, <1>5 DEF PreferenceInv

LEMMA PreferenceInvAlways == PreferenceSpec => []PreferenceInv
<1>1. PreferenceInit => PreferenceInv
  BY PreferenceInitInv
<1>2. ASSUME PreferenceInv, [PreferenceNext]_preferenceVars
      PROVE  PreferenceInv'
  <2>1. ASSUME NEW s \in PreferenceSlots, PreferenceStep(s) PROVE PreferenceInv'
    BY <1>2, <2>1, StartFirstCallInv, CallsPlacedInv, CreateRowInv, QueueRetryInv, RetryCallInv,
       RowLookedFor, SaveRetryInv, CallbackInv, CallbackSaved DEF PreferenceStep
  <2>2. QED
    BY <1>2, <2>1, PreferenceCrashInv, PreferenceIdle DEF PreferenceNext
<1>3. QED
  BY <1>1, <1>2, PTL DEF PreferenceSpec

\* Every reachable state of the day's calls to a worker is well-typed: however retries,
\* callbacks and redelivered jobs overlap, no row counts more retries than there are.
THEOREM PreferenceTypeCorrect == PreferenceSpec => []PreferenceTypeOK
<1>1. PreferenceInv => PreferenceTypeOK
  BY DEF PreferenceInv, RowsInv
<1>2. QED
  BY <1>1, PreferenceInvAlways, PTL

\* A worker is called three times a day at most, and once more for a redelivered job.
THEOREM PreferenceCallsBounded == PreferenceSpec => []CallsBounded
<1>1. PreferenceInv => CallsBounded
  BY DEF PreferenceInv, ControlInv
<1>2. QED
  BY <1>1, PreferenceInvAlways, PTL

\* The last answer a callback saved stays in its row, unless a whole-row save that was
\* stale wrote over it.
THEOREM LastAnswerKept == PreferenceSpec => []AnswerKept
<1>1. PreferenceInv => AnswerKept
  BY DEF PreferenceInv
<1>2. QED
  BY <1>1, PreferenceInvAlways, PTL

\* When nothing is left to run, the worker has answered or has been called three times,
\* unless a call was refused, the process ended or a stale row was saved.
THEOREM RetriesGoOn == PreferenceSpec => []RetriesUntilAnswered
<1>1. ASSUME PreferenceInv PROVE RetriesUntilAnswered
  <2>1. SUFFICES ASSUME PreferenceQuiet, ~brokenOff, ~staleSave, NEW i \in DOMAIN preferenceRows
                 PROVE  Ended(i)
    BY DEF RetriesUntilAnswered, Ended
  <2>2. \A c : ~Following(c)
    BY <2>1 DEF PreferenceQuiet, TaskAt, Following, Follows
  <2>3. QED
    BY <1>1, <2>1, <2>2, ChainNow DEF ChainInv
<1>2. QED
  BY <1>1, PreferenceInvAlways, PTL

(***************************************************************************)
(* The services around the dispatch side by side.                          *)
(***************************************************************************)
\* Whichever service moves, its step is a step of its own specification and a stutter of
\* every other one.
LEMMA OrderServicesParts ==
  OrderServicesSpec => PlacementSpec /\ SchedulingSpec /\ PreferenceSpec /\ VisitSpec
<1>1. OrderServicesInit => PlacementInit /\ SchedulingInit /\ PreferenceInit /\ VisitInit
  BY DEF OrderServicesInit
<1>2. ASSUME [OrderServicesNext]_OrderServicesVars
      PROVE  /\ [PlacementNext]_placementVars /\ [SchedulingNext]_schedulingVars
             /\ [PreferenceNext]_preferenceVars /\ [VisitNext]_visitVars
  <2>1. CASE UNCHANGED OrderServicesVars
    BY <2>1 DEF OrderServicesVars
  <2>2. QED
    BY <1>2, <2>1 DEF OrderServicesNext
<1>3. QED
  BY <1>1, <1>2, PTL
  DEF OrderServicesSpec, PlacementSpec, SchedulingSpec, PreferenceSpec, VisitSpec

\* The four services side by side keep their types and everything proved of each of them,
\* for every value of all their constants.
THEOREM OrderServicesHold ==
  OrderServicesSpec => [](/\ OrderServicesTypeOK
                          /\ OneOrderPerEstimate /\ PlacedAndQueued /\ WorkersListed
                          /\ SearchStartsWhenAllowed /\ TasksOnWorkDays
                          /\ CallsBounded /\ AnswerKept /\ RetriesUntilAnswered
                          /\ OneVisitAtATime /\ FollowUpsMade)
<1>1. PlacementTypeOK /\ SchedulingTypeOK /\ PreferenceTypeOK /\ VisitTypeOK
      => OrderServicesTypeOK
  BY DEF OrderServicesTypeOK
<1>2. QED
  BY <1>1, OrderServicesParts, PlacementTypeCorrect, QuestionsAsked, PreferenceTypeCorrect,
     VisitTypeCorrect, EstimateOrderedOnce, StatusBeforeJob, WorkersAlwaysListed, SearchTimeRight,
     TasksRight, PreferenceCallsBounded, LastAnswerKept, RetriesGoOn, OneVisit,
     FollowUpsKept, PTL
=============================================================================
