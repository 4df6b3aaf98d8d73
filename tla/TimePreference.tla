--------------------------- MODULE TimePreference ---------------------------
(***************************************************************************)
(* The daily call that asks one worker when she works tomorrow             *)
(* (ivr/cron.service.ts, ivr/ivr.processor.ts, and their parts of          *)
(* ivr.service.ts and workers.service.ts): the first call, its retries     *)
(* every 25 minutes, and the gateway's callbacks about any of its calls.   *)
(* A row is found by the id of its last call and saved whole.              *)
(***************************************************************************)
EXTENDS Naturals, Sequences, FiniteSets

CONSTANTS PreferenceSlots,   \* handlers that may run at the same time (bound)
          MaxPreferenceCalls,\* calls placed, redeliveries included (bound)
          MaxCallbacks,      \* callbacks of the gateway (bound)
          PreferenceFaults   \* what may happen: a subset of {"gateway", "crash"}

ASSUME PreferenceSlotsAssumption == IsFiniteSet(PreferenceSlots)
ASSUME PreferenceLimitsAssumption == MaxPreferenceCalls \in Nat /\ MaxCallbacks \in Nat
ASSUME PreferenceFaultsAssumption == PreferenceFaults \subseteq {"gateway", "crash"}

VARIABLES
  preferenceRows,  \* worker_time_preference_response, in the sequence they were saved
  preferenceJobs,  \* jobs in the queue ivrCalls: the daily one is 0, a retry has its call's id
  preferenceCalls, \* calls the gateway has placed: their ids are 1, 2, ...
  callbacks,       \* callbacks so far
  answered,        \* for each row, the answers that were saved
  staleSave,       \* a handler has saved a row that had changed since it loaded it
  brokenOff,       \* a job has died before it queued the next one, or its call was refused
  redelivered,     \* jobs Bull has handed out again
  preferenceTasks  \* the running handlers

preferenceHistory == <<callbacks, answered, staleSave, brokenOff, redelivered>>
preferenceVars ==
  <<preferenceRows, preferenceJobs, preferenceCalls, preferenceHistory, preferenceTasks>>

MaxRetries == 3
CallIds    == 1..MaxPreferenceCalls

\* is_agreed and is_disagreed: the default, and what an answer without a choice sets, is
\* neither.
Answers == {"neither", "agreed", "disagreed"}

PreferenceRow == [callId : CallIds, answer : Answers, received : BOOLEAN, retryCount : 1..MaxRetries]

\* A handler: its job, the await it stands at, the call it has placed, and the row it
\* loaded with its number.
PreferenceTask ==
  [at : {"idle", "first", "create", "again", "place", "find", "save", "queue", "callback"},
   job : 0..MaxPreferenceCalls, call : 0..MaxPreferenceCalls,
   row : Nat, loaded : Seq(PreferenceRow)]
NoTask == [at |-> "idle", job |-> 0, call |-> 0, row |-> 0, loaded |-> << >>]

TaskAt(s, a)   == preferenceTasks[s].at = a
TaskGo(s, t)   == preferenceTasks' = [preferenceTasks EXCEPT ![s] = t]
TaskEnd(s)     == TaskGo(s, NoTask)
RowsOf(callId) == {i \in DOMAIN preferenceRows : preferenceRows[i].callId = callId}
Answered(row)  == row.answer # "neither"

\* Bull runs the processor of each job name on its own, so handlers may overlap.
JobStarts(s, j) ==
  /\ TaskAt(s, "idle")
  /\ j \in preferenceJobs
  /\ preferenceJobs' = preferenceJobs \ {j}

\* The gateway places the call, or refuses it and ends the job.
Places(s, next) ==
  \/ /\ preferenceCalls < MaxPreferenceCalls
     /\ preferenceCalls' = preferenceCalls + 1
     /\ TaskGo(s, [preferenceTasks[s] EXCEPT !.at = next, !.call = preferenceCalls + 1])
     /\ UNCHANGED brokenOff
  \/ /\ "gateway" \in PreferenceFaults
     /\ TaskEnd(s)
     /\ brokenOff' = TRUE
     /\ UNCHANGED preferenceCalls

(***************************************************************************)
(* workTimePreferenceCall.                                                 *)
(***************************************************************************)
StartFirstCall(s) ==
  /\ JobStarts(s, 0)
  /\ TaskGo(s, [NoTask EXCEPT !.at = "first"])
  /\ UNCHANGED <<preferenceRows, preferenceCalls, preferenceHistory>>

FirstCall(s) ==
  /\ TaskAt(s, "first")
  /\ Places(s, "create")
  /\ UNCHANGED <<preferenceRows, preferenceJobs, callbacks, answered, staleSave, redelivered>>

CreateRow(s) ==
  /\ TaskAt(s, "create")
  /\ preferenceRows' = Append(preferenceRows, [callId |-> preferenceTasks[s].call,
                          answer |-> "neither", received |-> FALSE, retryCount |-> 1])
  /\ answered' = Append(answered, << >>)
  /\ TaskGo(s, [preferenceTasks[s] EXCEPT !.at = "queue"])
  /\ UNCHANGED <<preferenceJobs, preferenceCalls, callbacks, staleSave, brokenOff, redelivered>>

QueueRetry(s) ==
  /\ TaskAt(s, "queue")
  /\ preferenceJobs' = preferenceJobs \cup {preferenceTasks[s].call}
  /\ TaskEnd(s)
  /\ UNCHANGED <<preferenceRows, preferenceCalls, preferenceHistory>>

(***************************************************************************)
(* retryPreferenceCall.                                                    *)
(***************************************************************************)
\* Mutant: one retry too many.
RetryCallOnceMore(s, callId) ==
  /\ callId # 0
  /\ JobStarts(s, callId)
  /\ IF \E i \in RowsOf(callId) : ~Answered(preferenceRows[i]) /\ preferenceRows[i].retryCount <= MaxRetries
     THEN TaskGo(s, [NoTask EXCEPT !.at = "again", !.job = callId])
     ELSE UNCHANGED preferenceTasks
  /\ UNCHANGED <<preferenceRows, preferenceCalls, preferenceHistory>>

\* Mutant: one retry too few.
RetryCallOnceLess(s, callId) ==
  /\ callId # 0
  /\ JobStarts(s, callId)
  /\ IF \E i \in RowsOf(callId) : ~Answered(preferenceRows[i]) /\ preferenceRows[i].retryCount < MaxRetries - 1
     THEN TaskGo(s, [NoTask EXCEPT !.at = "again", !.job = callId])
     ELSE UNCHANGED preferenceTasks
  /\ UNCHANGED <<preferenceRows, preferenceCalls, preferenceHistory>>

\* "Call not found" when the row has another call by now; an answer ends the retries.
RetryCall(s, callId) ==
  /\ callId # 0
  /\ JobStarts(s, callId)
  /\ IF \E i \in RowsOf(callId) : ~Answered(preferenceRows[i]) /\ preferenceRows[i].retryCount < MaxRetries
     THEN TaskGo(s, [NoTask EXCEPT !.at = "again", !.job = callId])
     ELSE UNCHANGED preferenceTasks
  /\ UNCHANGED <<preferenceRows, preferenceCalls, preferenceHistory>>

\* The row is loaded once more for its worker.
FindAgain(s) ==
  /\ TaskAt(s, "again")
  /\ IF RowsOf(preferenceTasks[s].job) = {} THEN TaskEnd(s)
     ELSE TaskGo(s, [preferenceTasks[s] EXCEPT !.at = "place"])
  /\ UNCHANGED <<preferenceRows, preferenceJobs, preferenceCalls, preferenceHistory>>

CallAgain(s) ==
  /\ TaskAt(s, "place")
  /\ Places(s, "find")
  /\ UNCHANGED <<preferenceRows, preferenceJobs, callbacks, answered, staleSave, redelivered>>

\* updateTimePreferenceResponse: the row is loaded after the call has been placed.
FindRow(s) ==
  LET t == preferenceTasks[s] IN
  /\ TaskAt(s, "find")
  /\ IF RowsOf(t.job) = {} THEN TaskEnd(s)
     ELSE \E i \in RowsOf(t.job) :
            TaskGo(s, [t EXCEPT !.at = "save", !.row = i, !.loaded = <<preferenceRows[i]>>])
  /\ UNCHANGED <<preferenceRows, preferenceJobs, preferenceCalls, preferenceHistory>>

Loaded(s) == preferenceTasks[s].loaded[1]

\* save(row) writes every column back.
SaveRow(s, row) ==
  LET i == preferenceTasks[s].row IN
  /\ preferenceRows' = [preferenceRows EXCEPT ![i] = row]
  /\ staleSave' = (staleSave \/ preferenceRows[i] # Loaded(s))

\* Mutant: a retry starts the row anew.
SaveRetryAnew(s) ==
  LET t == preferenceTasks[s] IN
  /\ TaskAt(s, "save")
  /\ SaveRow(s, [Loaded(s) EXCEPT !.callId = t.call, !.retryCount = @ + 1, !.answer = "neither"])
  /\ TaskGo(s, [t EXCEPT !.at = "queue"])
  /\ UNCHANGED <<preferenceJobs, preferenceCalls, callbacks, answered, brokenOff, redelivered>>

SaveRetry(s) ==
  LET t == preferenceTasks[s] IN
  /\ TaskAt(s, "save")
  /\ SaveRow(s, [Loaded(s) EXCEPT !.callId = t.call, !.retryCount = @ + 1])
  /\ TaskGo(s, [t EXCEPT !.at = "queue"])
  /\ UNCHANGED <<preferenceJobs, preferenceCalls, callbacks, answered, brokenOff, redelivered>>

(***************************************************************************)
(* The gateway's callbacks: scheduleCallReceived, updateWorkingTime.       *)
(***************************************************************************)
\* The row as it will be saved is fixed when it is loaded.
Callback(s) ==
  /\ TaskAt(s, "idle")
  /\ callbacks < MaxCallbacks
  /\ callbacks' = callbacks + 1
  /\ \E c \in 1..preferenceCalls :
       IF RowsOf(c) = {} THEN UNCHANGED preferenceTasks   \* "Call not found"
       ELSE \E i \in RowsOf(c) :
              TaskGo(s, [NoTask EXCEPT !.at = "callback", !.row = i, !.loaded = <<preferenceRows[i]>>])
  /\ UNCHANGED <<preferenceRows, preferenceJobs, preferenceCalls, answered, staleSave,
                 brokenOff, redelivered>>

CallReceived(s) ==
  /\ TaskAt(s, "callback")
  /\ SaveRow(s, [Loaded(s) EXCEPT !.received = TRUE])
  /\ TaskEnd(s)
  /\ UNCHANGED <<preferenceJobs, preferenceCalls, callbacks, answered, brokenOff, redelivered>>

UpdateWorkingTime(s) ==
  /\ TaskAt(s, "callback")
  /\ \E answer \in Answers :
       /\ SaveRow(s, [Loaded(s) EXCEPT !.answer = answer])
       /\ answered' = [answered EXCEPT ![preferenceTasks[s].row] = Append(@, answer)]
  /\ TaskEnd(s)
  /\ UNCHANGED <<preferenceJobs, preferenceCalls, callbacks, brokenOff, redelivered>>

(***************************************************************************)
(* The process ends: Bull hands the stalled jobs out once more.            *)
(***************************************************************************)
JobsRunning == {preferenceTasks[s].job : s \in {s \in PreferenceSlots :
                                                  preferenceTasks[s].at \notin {"idle", "callback"}}}

\* One such end with jobs running is modelled (bound): a job that stalls a second time is
\* failed by Bull, which ends its chain as a refused call does.
PreferenceCrash ==
  /\ "crash" \in PreferenceFaults
  /\ \E s \in PreferenceSlots : ~TaskAt(s, "idle")
  /\ redelivered = 0
  /\ redelivered' = Cardinality(JobsRunning)
  /\ preferenceJobs' = preferenceJobs \cup JobsRunning
  /\ brokenOff' = (brokenOff \/ JobsRunning # {})
  /\ preferenceTasks' = [s \in PreferenceSlots |-> NoTask]
  /\ UNCHANGED <<preferenceRows, preferenceCalls, callbacks, answered, staleSave>>

\* The daily job has been queued for an active worker (triggerDailyCalling).
PreferenceInit ==
  /\ preferenceRows = << >>
  /\ preferenceJobs = {0}
  /\ preferenceCalls = 0
  /\ callbacks = 0
  /\ answered = << >>
  /\ staleSave = FALSE
  /\ brokenOff = FALSE
  /\ redelivered = 0
  /\ preferenceTasks = [s \in PreferenceSlots |-> NoTask]

PreferenceStep(s) ==
  \/ StartFirstCall(s) \/ FirstCall(s) \/ CreateRow(s) \/ QueueRetry(s)
  \/ \E c \in CallIds : RetryCall(s, c)
  \/ FindAgain(s) \/ CallAgain(s) \/ FindRow(s) \/ SaveRetry(s)
  \/ Callback(s) \/ CallReceived(s) \/ UpdateWorkingTime(s)

PreferenceNext == PreferenceCrash \/ \E s \in PreferenceSlots : PreferenceStep(s)

PreferenceSpec == PreferenceInit /\ [][PreferenceNext]_preferenceVars

(***************************************************************************)
(* Properties.                                                             *)
(***************************************************************************)
\* Type invariant.
PreferenceTypeOK ==
  /\ preferenceRows \in Seq(PreferenceRow)
  /\ preferenceJobs \subseteq 0..MaxPreferenceCalls
  /\ preferenceCalls \in 0..MaxPreferenceCalls
  /\ callbacks \in 0..MaxCallbacks
  /\ answered \in Seq(Seq(Answers)) /\ Len(answered) = Len(preferenceRows)
  /\ staleSave \in BOOLEAN /\ brokenOff \in BOOLEAN /\ redelivered \in Nat
  /\ preferenceTasks \in [PreferenceSlots -> PreferenceTask]

\* A worker is called at most three times a day, and once more only for a job that was
\* handed out twice, however callbacks and retries overwrite each other's row.
CallsBounded == preferenceCalls <= MaxRetries + redelivered

PreferenceQuiet == preferenceJobs = {} /\ \A s \in PreferenceSlots : TaskAt(s, "idle")

\* The retries end early only for an answer, a refused call, a lost process, or a row
\* that two handlers overwrote.
RetriesUntilAnswered ==
  PreferenceQuiet /\ ~brokenOff /\ ~staleSave =>
    \A i \in DOMAIN preferenceRows :
      \/ preferenceRows[i].retryCount = MaxRetries
      \/ \E j \in DOMAIN answered[i] : answered[i][j] # "neither"

\* The last answer that was saved stands, whatever retries come after it.
AnswerKept ==
  ~staleSave => \A i \in DOMAIN preferenceRows :
                  preferenceRows[i].answer = IF answered[i] = << >> THEN "neither"
                                             ELSE answered[i][Len(answered[i])]
=============================================================================
