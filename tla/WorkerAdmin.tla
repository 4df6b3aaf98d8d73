----------------------------- MODULE WorkerAdmin -----------------------------
(***************************************************************************)
(* One domestic worker in the back office (workers.service.ts): her        *)
(* creation over four tables, the update of her payment methods, her       *)
(* deletion, and what the search for workers needs of her rows.  No        *)
(* request uses a transaction.                                             *)
(***************************************************************************)
EXTENDS Naturals, Sequences, FiniteSets, Functions

CONSTANTS Methods,          \* ids of payment methods (bound)
          MaxNewMethods,    \* payment methods named by one request (bound)
          WorkerSlots,      \* requests that may run at the same time (bound)
          MaxWorkerUpdates, \* updates of the worker (bound)
          WorkerFaults      \* what may fail: a subset of {"crash", "lookup"}

ASSUME MethodsAssumption == IsFiniteSet(Methods) /\ IsFiniteSet(WorkerSlots)
ASSUME WorkerLimitsAssumption == MaxNewMethods \in Nat /\ MaxWorkerUpdates \in Nat
ASSUME WorkerFaultsAssumption == WorkerFaults \subseteq {"crash", "lookup"}

VARIABLES
  methodRows,     \* every payment method: absent, unlinked, or linked to the worker
  defaultMethods, \* the rows whose is_default is true
  worker,         \* the worker's row: none, live, or deleted (isDeleted)
  hasStatus,      \* she has a worker_status row
  workerUpdates,  \* updates so far
  workerOverlap,  \* two requests have run at the same time
  looseDefaults,  \* a request has left is_default out, or created her with several
  creationDied,   \* her creation ended between two saves
  workerRequests  \* the running requests

workerRows    == <<methodRows, defaultMethods, worker, hasStatus>>
workerHistory == <<workerUpdates, workerOverlap, looseDefaults, creationDied>>
workerVars    == <<workerRows, workerHistory, workerRequests>>

\* A worker's row, and a payment method's: workerId of the second may name nobody.
WorkerRow == {"none", "live", "deleted"}
MethodRow == {"absent", "unlinked", "linked"}

\* is_default of a new payment method; PaymentInfoInput is partial in an update.
IsDefaultInputs == {"true", "false", "omitted"}
NewMethods      == UNION {[1..n -> IsDefaultInputs] : n \in 0..MaxNewMethods}

\* A request: the await it stands at, worker.workerPaymentMethods as it holds it,
\* the old defaults it still has to clear, and the new methods still to save.
WorkerRequest ==
  [at : {"idle", "identity", "methods", "save_worker", "status",
         "new", "clear", "save_method", "save_update", "save_deleted"},
   held : SUBSET Methods, toClear : SUBSET Methods, news : NewMethods]

NoWorkerRequest == [at |-> "idle", held |-> {}, toClear |-> {}, news |-> << >>]

WorkerAt(r, a) == workerRequests[r].at = a
WorkerGo(r, q) == workerRequests' = [workerRequests EXCEPT ![r] = q]
WorkerBegins(r, q) ==
  /\ WorkerAt(r, "idle")
  /\ WorkerGo(r, q)
  /\ workerOverlap' = (workerOverlap \/ \E k \in WorkerSlots : ~WorkerAt(k, "idle"))

Trues(news) == Cardinality({i \in DOMAIN news : news[i] = "true"})

LinkedMethods == {m \in Methods : methodRows[m] = "linked"}

(***************************************************************************)
(* createWorker: identity document, payment methods, worker, status.       *)
(***************************************************************************)
CreateWorker(r) ==
  /\ worker = "none"
  /\ \A k \in WorkerSlots : WorkerAt(k, "idle")
  /\ \E news \in NewMethods :
       /\ \A i \in DOMAIN news : news[i] # "omitted"
       /\ WorkerBegins(r, [NoWorkerRequest EXCEPT !.at = "identity", !.news = news])
       /\ looseDefaults' = (looseDefaults \/ Trues(news) > 1)
  /\ UNCHANGED <<workerRows, workerUpdates, creationDied>>

\* The national identity service has confirmed her; the document is saved.
SaveIdentityDoc(r) ==
  /\ WorkerAt(r, "identity")
  /\ WorkerGo(r, [workerRequests[r] EXCEPT !.at = "methods"])
  /\ UNCHANGED <<workerRows, workerHistory>>

\* A new payment method is a row of its own first; is_default defaults to true.
InsertMethod(m, input) ==
  /\ methodRows[m] = "absent"
  /\ methodRows' = [methodRows EXCEPT ![m] = "unlinked"]
  /\ defaultMethods' = IF input = "false" THEN defaultMethods ELSE defaultMethods \cup {m}

SaveFirstMethod(r, m) ==
  LET q == workerRequests[r] IN
  /\ WorkerAt(r, "methods")
  /\ q.news # << >>
  /\ InsertMethod(m, Head(q.news))
  /\ WorkerGo(r, [q EXCEPT !.held = @ \cup {m}, !.news = Tail(@)])
  /\ UNCHANGED <<worker, hasStatus, workerHistory>>

FindAreas(r) ==
  /\ WorkerAt(r, "methods")
  /\ workerRequests[r].news = << >>
  /\ WorkerGo(r, [workerRequests[r] EXCEPT !.at = "save_worker"])
  /\ UNCHANGED <<workerRows, workerHistory>>

\* A sourcing zone or a microarea is not found: what has been saved remains.
AreaNotFound(r) ==
  /\ "lookup" \in WorkerFaults
  /\ WorkerAt(r, "save_worker")
  /\ WorkerGo(r, NoWorkerRequest)
  /\ UNCHANGED <<workerRows, workerHistory>>

\* save(worker) makes exactly the methods it holds the worker's own.
LinkExactly(held) ==
  methodRows' = [m \in Methods |-> IF m \in held THEN "linked"
                                   ELSE IF methodRows[m] = "linked" THEN "unlinked"
                                   ELSE methodRows[m]]

\* Mutant: the trainee status is left to the first update.
SaveWorkerOnly(r) ==
  /\ WorkerAt(r, "save_worker")
  /\ worker' = "live"
  /\ LinkExactly(workerRequests[r].held)
  /\ WorkerGo(r, NoWorkerRequest)
  /\ UNCHANGED <<defaultMethods, hasStatus, workerHistory>>

SaveWorker(r) ==
  /\ WorkerAt(r, "save_worker")
  /\ worker' = "live"
  /\ LinkExactly(workerRequests[r].held)
  /\ WorkerGo(r, [workerRequests[r] EXCEPT !.at = "status"])
  /\ UNCHANGED <<defaultMethods, hasStatus, workerHistory>>

SaveTraineeStatus(r) ==
  /\ WorkerAt(r, "status")
  /\ hasStatus' = TRUE
  /\ WorkerGo(r, NoWorkerRequest)
  /\ UNCHANGED <<methodRows, defaultMethods, worker, workerHistory>>

(***************************************************************************)
(* updateWorker: checks, then each new payment method, then the worker.    *)
(***************************************************************************)
\* "Only one default payment method is allowed": a request that names several is
\* refused; one that leaves is_default out is not.
UpdateWorker(r) ==
  /\ worker = "live"
  /\ workerUpdates < MaxWorkerUpdates
  /\ workerUpdates' = workerUpdates + 1
  /\ \E news \in NewMethods :
       /\ Trues(news) <= 1
       /\ WorkerBegins(r, [NoWorkerRequest EXCEPT !.at = "new", !.held = LinkedMethods,
                                                  !.news = news])
       /\ looseDefaults' = (looseDefaults \/ \E i \in DOMAIN news : news[i] = "omitted")
  /\ UNCHANGED <<workerRows, creationDied>>

\* Mutant: the old methods are cleared only for the first new one.
NextMethodFirst(r) ==
  LET q == workerRequests[r] IN
  /\ WorkerAt(r, "new")
  /\ WorkerGo(r, IF q.news = << >> THEN [q EXCEPT !.at = "save_update"]
                 ELSE [q EXCEPT !.at = "clear",
                         !.toClear = IF q.news[1] = "true" /\ Len(q.news) = MaxNewMethods
                                     THEN q.held ELSE {}])
  /\ UNCHANGED <<workerRows, workerHistory>>

\* A new default clears all the methods the request holds: worker.workerPaymentMethods
\* and oldPaymentInfos are one array, to which new methods are added.
NextMethod(r) ==
  LET q == workerRequests[r] IN
  /\ WorkerAt(r, "new")
  /\ WorkerGo(r, IF q.news = << >> THEN [q EXCEPT !.at = "save_update"]
                 ELSE [q EXCEPT !.at = "clear",
                         !.toClear = IF Head(q.news) = "true" THEN q.held ELSE {}])
  /\ UNCHANGED <<workerRows, workerHistory>>

\* One save per old method; the row keeps the worker it was loaded with.
ClearDefault(r, m) ==
  LET q == workerRequests[r] IN
  /\ WorkerAt(r, "clear")
  /\ m \in q.toClear
  /\ defaultMethods' = defaultMethods \ {m}
  /\ WorkerGo(r, [q EXCEPT !.toClear = @ \ {m}])
  /\ UNCHANGED <<methodRows, worker, hasStatus, workerHistory>>

SaveMethod(r, m) ==
  LET q == workerRequests[r] IN
  /\ WorkerAt(r, "clear")
  /\ q.toClear = {}
  /\ InsertMethod(m, Head(q.news))
  /\ WorkerGo(r, [q EXCEPT !.at = "new", !.held = @ \cup {m}, !.news = Tail(@)])
  /\ UNCHANGED <<worker, hasStatus, workerHistory>>

\* save(worker) writes the row as it was loaded: a deletion in between is undone.
SaveUpdate(r) ==
  /\ WorkerAt(r, "save_update")
  /\ worker' = "live"
  /\ LinkExactly(workerRequests[r].held)
  /\ WorkerGo(r, NoWorkerRequest)
  /\ UNCHANGED <<defaultMethods, hasStatus, workerHistory>>

(***************************************************************************)
(* deleteWorker; and the process ends.                                     *)
(***************************************************************************)
DeleteWorker(r) ==
  /\ worker = "live"
  /\ WorkerBegins(r, [NoWorkerRequest EXCEPT !.at = "save_deleted"])
  /\ UNCHANGED <<workerRows, workerUpdates, looseDefaults, creationDied>>

SaveDeleted(r) ==
  /\ WorkerAt(r, "save_deleted")
  /\ worker' = "deleted"
  /\ WorkerGo(r, NoWorkerRequest)
  /\ UNCHANGED <<methodRows, defaultMethods, hasStatus, workerHistory>>

Creating == \E r \in WorkerSlots : workerRequests[r].at \in {"identity", "methods", "save_worker", "status"}

WorkerCrash ==
  /\ "crash" \in WorkerFaults
  /\ \E r \in WorkerSlots : ~WorkerAt(r, "idle")
  /\ creationDied' = (creationDied \/ Creating)
  /\ workerRequests' = [r \in WorkerSlots |-> NoWorkerRequest]
  /\ UNCHANGED <<workerRows, workerUpdates, workerOverlap, looseDefaults>>

WorkerInit ==
  /\ methodRows = [m \in Methods |-> "absent"]
  /\ defaultMethods = {}
  /\ worker = "none"
  /\ hasStatus = FALSE
  /\ workerUpdates = 0
  /\ workerOverlap = FALSE
  /\ looseDefaults = FALSE
  /\ creationDied = FALSE
  /\ workerRequests = [r \in WorkerSlots |-> NoWorkerRequest]

WorkerStep(r) ==
  \/ CreateWorker(r) \/ SaveIdentityDoc(r) \/ FindAreas(r) \/ AreaNotFound(r)
  \/ SaveWorker(r) \/ SaveTraineeStatus(r)
  \/ UpdateWorker(r) \/ NextMethod(r) \/ SaveUpdate(r)
  \/ DeleteWorker(r) \/ SaveDeleted(r)
  \/ \E m \in Methods : SaveFirstMethod(r, m) \/ ClearDefault(r, m) \/ SaveMethod(r, m)

WorkerNext == WorkerCrash \/ \E r \in WorkerSlots : WorkerStep(r)

WorkerSpec == WorkerInit /\ [][WorkerNext]_workerVars

\* Type invariant.
WorkerTypeOK ==
  /\ methodRows \in [Methods -> MethodRow]
  /\ defaultMethods \subseteq Methods
  /\ worker \in WorkerRow
  /\ hasStatus \in BOOLEAN /\ workerOverlap \in BOOLEAN
  /\ looseDefaults \in BOOLEAN /\ creationDied \in BOOLEAN
  /\ workerUpdates \in 0..MaxWorkerUpdates
  /\ workerRequests \in [WorkerSlots -> WorkerRequest]

\* As long as requests do not overlap and all say which new method is the default, a
\* worker never has two default methods, wherever an update dies between its saves.
OneDefaultMethod ==
  ~workerOverlap /\ ~looseDefaults => Cardinality(LinkedMethods \cap defaultMethods) <= 1

\* getActiveWorkersByMicroareaId reads lastStatus.status of every worker of the area:
\* one without a status row makes every estimate, order and search there fail.
SearchBreaks == worker = "live" /\ ~hasStatus

\* That happens only while she is being created, or when her creation died halfway.
SearchBreaksOnlyInCreation == SearchBreaks => Creating \/ creationDied
=============================================================================
