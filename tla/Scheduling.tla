----------------------------- MODULE Scheduling -----------------------------
(***************************************************************************)
(* The arithmetic of clocks and calendars in placeOrder and searchWorker   *)
(* (orders.service.ts): when the search starts, whether an order's time is *)
(* allowed, and on which days its tasks fall.  Each is an operator; one    *)
(* question at a time is put to them.                                      *)
(*                                                                         *)
(* Times are seconds since a Monday 0:00.  The server's local time is UTC  *)
(* (the image sets no time zone); where it is not, getSearchDelay, which   *)
(* compares UTC and builds local dates, is wrong by the offset.            *)
(***************************************************************************)
EXTENDS Naturals, Sequences, FiniteSets

CONSTANTS DayStartTime, DayEndTime, WorkEndTime, \* HHMM integers of the environment
          MinimumSearchDelay,                    \* seconds
          Moments,                               \* times of search questions (bound)
          OrderStarts, TaskMinutes, TaskCounts   \* inputs of order questions (bound)

Minute == 60
Hour   == 60 * Minute
Day    == 24 * Hour

IsHHMM(n) == n \in Nat /\ n \div 100 < 24 /\ n % 100 < 60

ASSUME HoursAssumption ==
  /\ IsHHMM(DayStartTime) /\ IsHHMM(DayEndTime) /\ IsHHMM(WorkEndTime)
  /\ DayStartTime <= DayEndTime
ASSUME MinimumSearchDelayAssumption == MinimumSearchDelay \in Nat
ASSUME QuestionsAssumption ==
  /\ Moments \subseteq Nat /\ OrderStarts \subseteq Nat
  /\ TaskMinutes \subseteq Nat /\ TaskCounts \subseteq Nat

VARIABLE asked  \* the question

schedulingVars == asked

DayOf(t)    == t \div Day
Midnight(t) == DayOf(t) * Day
\* What now.toISOString() shows of the time of day, as an integer.
HHMM(t)     == 100 * ((t \div Hour) % 24) + ((t \div Minute) % 60)
\* new Date(y, m, d, n / 100, n % 100): the hour is cut to an integer.
AtHHMM(midnight, n) == midnight + (n \div 100) * Hour + (n % 100) * Minute

(***************************************************************************)
(* getSearchDelay.                                                         *)
(***************************************************************************)
\* Mutant: in the evening, the start of the same day.
SearchDelaySameDay(now) ==
  IF HHMM(now) >= DayStartTime /\ HHMM(now) <= DayEndTime THEN MinimumSearchDelay
  ELSE AtHHMM(Midnight(now) + Day, DayStartTime) - now

SearchDelay(now) ==
  IF HHMM(now) >= DayStartTime /\ HHMM(now) <= DayEndTime THEN MinimumSearchDelay
  ELSE IF HHMM(now) > DayEndTime THEN AtHHMM(Midnight(now) + Day, DayStartTime) - now
  ELSE AtHHMM(Midnight(now), DayStartTime) - now

(***************************************************************************)
(* validateOrder, getWorkDates, getWorkStartAndEndTimes, getTaskDateList.  *)
(***************************************************************************)
\* Mutant: the end of the work is not looked at.
ValidOrderStart(start, minutes) ==
  /\ start >= AtHHMM(Midnight(start), DayStartTime)
  /\ start <= AtHHMM(Midnight(start), WorkEndTime)

ValidOrder(start, minutes) ==
  /\ start >= AtHHMM(Midnight(start), DayStartTime)
  /\ start <= AtHHMM(Midnight(start), WorkEndTime)
  /\ start + minutes * Minute <= AtHHMM(Midnight(start), WorkEndTime)

Weekends == 0..7   \* the day of the week that is off; 7: no such day

\* One turn of the loop, which ends with count dates: one day further, kept unless it
\* is the weekend.
OneDayOn(dates, day, count, weekend) ==
  IF Len(dates) = count \/ DayOf(day) % 7 = weekend THEN dates ELSE Append(dates, day)

\* The dates after so many turns: of two days in a row one at least is kept.
WorkDates(start, count, weekend) ==
  LET Turn[n \in 0..(2 * count)] ==
        IF n = 0 THEN << >> ELSE OneDayOn(Turn[n - 1], start + n * Day, count, weekend)
  IN Turn[2 * count]

TaskDateList(start, minutes, count, weekend) ==
  LET dates == WorkDates(start, count, weekend) IN
  [i \in DOMAIN dates |-> [start |-> dates[i], end |-> dates[i] + minutes * Minute]]

(***************************************************************************)
(* The questions.                                                          *)
(***************************************************************************)
SearchQuestion == [about : {"search"}, now : Moments]
OrderQuestion  == [about : {"order"}, start : OrderStarts, minutes : TaskMinutes,
                   count : TaskCounts, weekend : Weekends]
NoQuestion     == [about |-> "nothing"]

SchedulingInit == asked = NoQuestion
Ask            == asked = NoQuestion /\ asked' \in SearchQuestion \cup OrderQuestion
SchedulingNext == Ask
SchedulingSpec == SchedulingInit /\ [][SchedulingNext]_schedulingVars

(***************************************************************************)
(* Properties.                                                             *)
(***************************************************************************)
\* Type invariant.
SchedulingTypeOK == asked \in {NoQuestion} \cup SearchQuestion \cup OrderQuestion

AllowedToSearch(t) == HHMM(t) >= DayStartTime /\ HHMM(t) <= DayEndTime

\* The search starts MINIMUM_SEARCH_DELAY from now when searches are allowed, and
\* otherwise at the first minute they are: no allowed minute is missed, none invented.
SearchStartsWhenAllowed ==
  asked.about = "search" =>
    LET start == asked.now + SearchDelay(asked.now) IN
    IF AllowedToSearch(asked.now) THEN start = asked.now + MinimumSearchDelay
    ELSE /\ AllowedToSearch(start)
         /\ \A m \in (asked.now \div Minute)..(start \div Minute - 1) : ~AllowedToSearch(m * Minute)

\* An order that is let through has count tasks on as many days, none of them the
\* weekend, with no other day left out between two of them, and each within the hours of
\* its own day.  Which day is the first is not stated, for the code does not agree with
\* itself: getWorkDates begins a day after orderStartTime, while its comment in
\* getTaskDateList says from that day, and acceptOrder books an instant order's task and
\* the trial at orderStartTime itself.
TasksOnWorkDays ==
  asked.about = "order" /\ ValidOrder(asked.start, asked.minutes) =>
    LET tasks == TaskDateList(asked.start, asked.minutes, asked.count, asked.weekend)
        days  == {DayOf(tasks[i].start) : i \in DOMAIN tasks}
    IN /\ Len(tasks) = asked.count
       /\ Cardinality(days) = asked.count
       /\ \A d \in days : d % 7 # asked.weekend
       /\ \A d, e \in days : {f \in d..e : f % 7 # asked.weekend} \subseteq days
       /\ \A i \in DOMAIN tasks :
            /\ tasks[i].start >= AtHHMM(Midnight(tasks[i].start), DayStartTime)
            /\ tasks[i].end <= AtHHMM(Midnight(tasks[i].start), WorkEndTime)
=============================================================================
