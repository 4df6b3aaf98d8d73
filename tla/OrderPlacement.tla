--------------------------- MODULE OrderPlacement ---------------------------
(***************************************************************************)
(* The placing of one customer's orders (orders.service.ts: estimate,      *)
(* placeOrder) beside the first job of each, the search for workers        *)
(* (orders.processor.ts, searchWorker, of which OrderDispatch has every    *)
(* step).  Nothing here runs in a transaction; the one-to-one column       *)
(* estimateId of an order is unique in the table.                          *)
(***************************************************************************)
EXTENDS Naturals, Sequences, FiniteSetsExt

CONSTANTS MaxEstimates,    \* estimates the customer asks for (bound)
          PlaceSlots,      \* placeOrder requests that may overlap (bound)
          MaxPlacings,     \* placeOrder requests in all (bound)
          PlacementFaults  \* what may happen: a subset of PlacementFaultKinds

\* The process ends; MINIMUM_SEARCH_DELAY runs out before the request; Redis refuses
\* the job; the address or its area is not found; a worker of the area has no status.
PlacementFaultKinds == {"crash", "slow", "redis", "area", "workers"}

ASSUME PlacementLimitsAssumption == MaxEstimates \in Nat /\ MaxPlacings \in Nat
ASSUME PlaceSlotsAssumption == IsFiniteSet(PlaceSlots)
ASSUME PlacementFaultsAssumption == PlacementFaults \subseteq PlacementFaultKinds

VARIABLES
  valid,      \* estimates[i] is not past its validity
  orderRows,  \* the customer's orders, in the sequence they were placed
  searches,   \* the searchWorker job of each order
  placings,   \* the running placeOrder requests
  placed,     \* placeOrder requests so far
  halfPlaced, \* orders whose request died between its save and its job
  early       \* orders whose search began before their request had ended

placementVars == <<valid, orderRows, searches, placings, placed, halfPlaced, early>>

Estimates == DOMAIN valid

\* potentialWorkers: none saved, all the free workers, or the willing ones among them.
WorkerListings == {"none", "free", "willing"}
OrderReads     == {"none", "placed", "searching", "failed", "payment_pending", "completed"}

PlacedOrder == [estimate : 1..MaxEstimates, reads : OrderReads,
                list : WorkerListings, hasJobId : BOOLEAN]

\* A search: where its job stands, what it loaded of the order, and whether the process
\* has ended under it once.
Search == [at : {"none", "queued", "status", "lists", "save", "failing", "over"},
           list : WorkerListings, hasJobId : BOOLEAN, stalled : BOOLEAN]
NoSearch == [at |-> "none", list |-> "none", hasJobId |-> FALSE, stalled |-> FALSE]

Placing == [at : {"idle", "unpaid", "estimate", "ordered", "area", "insert",
                  "status", "queue", "workers", "save"},
            estimate : 0..MaxEstimates, order : Nat]
NoPlacing == [at |-> "idle", estimate |-> 0, order |-> 0]

PlacingAt(r, a)  == placings[r].at = a
PlacingGo(r, a)  == placings' = [placings EXCEPT ![r].at = a]
PlacingEnd(r)    == placings' = [placings EXCEPT ![r] = NoPlacing]
PlacingFor(o)    == {r \in PlaceSlots : placings[r].order = o}

OrderIds == DOMAIN orderRows

(***************************************************************************)
(* estimate; time passes.                                                  *)
(***************************************************************************)
\* A row only when the works, the address and the finance API allow it and the area has
\* an active worker; what the price is does not matter here.
Estimated ==
  /\ Len(valid) < MaxEstimates
  /\ valid' = Append(valid, TRUE)
  /\ UNCHANGED <<orderRows, searches, placings, placed, halfPlaced, early>>

EstimateExpires(e) ==
  /\ valid[e]
  /\ valid' = [valid EXCEPT ![e] = FALSE]
  /\ UNCHANGED <<orderRows, searches, placings, placed, halfPlaced, early>>

(***************************************************************************)
(* placeOrder.                                                             *)
(***************************************************************************)
PlaceOrder(r) ==
  /\ PlacingAt(r, "idle")
  /\ placed < MaxPlacings
  /\ placed' = placed + 1
  /\ PlacingGo(r, "unpaid")
  /\ UNCHANGED <<valid, orderRows, searches, halfPlaced, early>>

\* orderStatuses[0].status of every order: an order without a status row throws, like
\* one that is not paid.
FindUnpaid(r) ==
  /\ PlacingAt(r, "unpaid")
  /\ IF \E o \in OrderIds : orderRows[o].reads \in {"none", "payment_pending"}
     THEN PlacingEnd(r) ELSE PlacingGo(r, "estimate")
  /\ UNCHANGED <<valid, orderRows, searches, placed, halfPlaced, early>>

\* The last estimate that is still valid.
FindEstimate(r) ==
  LET found == {e \in Estimates : valid[e]} IN
  /\ PlacingAt(r, "estimate")
  /\ IF found = {} THEN PlacingEnd(r)
     ELSE placings' = [placings EXCEPT ![r] = [@ EXCEPT !.at = "ordered", !.estimate = Max(found)]]
  /\ UNCHANGED <<valid, orderRows, searches, placed, halfPlaced, early>>

OrderedAlready(e) == \E o \in OrderIds : orderRows[o].estimate = e

\* "Estimate has already been ordered"; an order for a time that is not allowed ends too.
FindOrdered(r) ==
  /\ PlacingAt(r, "ordered")
  /\ \/ ~OrderedAlready(placings[r].estimate) /\ PlacingGo(r, "area")
     \/ PlacingEnd(r)
  /\ UNCHANGED <<valid, orderRows, searches, placed, halfPlaced, early>>

FindArea(r) ==
  /\ PlacingAt(r, "area")
  /\ \/ PlacingGo(r, "insert")
     \/ "area" \in PlacementFaults /\ PlacingEnd(r)
  /\ UNCHANGED <<valid, orderRows, searches, placed, halfPlaced, early>>

NewOrder(e) == [estimate |-> e, reads |-> "none", list |-> "none", hasJobId |-> FALSE]

\* Mutant: estimateId is not unique.
InsertOrderTwice(r) ==
  /\ PlacingAt(r, "insert")
  /\ orderRows' = Append(orderRows, NewOrder(placings[r].estimate))
  /\ searches' = Append(searches, NoSearch)
  /\ placings' = [placings EXCEPT ![r].at = "status", ![r].order = Len(orderRows) + 1]
  /\ UNCHANGED <<valid, placed, halfPlaced, early>>

\* The second order of an estimate violates the unique constraint: the save throws.
InsertOrder(r) ==
  /\ PlacingAt(r, "insert")
  /\ IF OrderedAlready(placings[r].estimate)
     THEN PlacingEnd(r) /\ UNCHANGED <<orderRows, searches>>
     ELSE /\ orderRows' = Append(orderRows, NewOrder(placings[r].estimate))
          /\ searches' = Append(searches, NoSearch)
          /\ placings' = [placings EXCEPT ![r].at = "status", ![r].order = Len(orderRows) + 1]
  /\ UNCHANGED <<valid, placed, halfPlaced, early>>

\* Mutant: the job is queued before the status is recorded.
QueueSearchFirst(r) ==
  LET o == placings[r].order IN
  /\ PlacingAt(r, "status")
  /\ searches' = [searches EXCEPT ![o].at = "queued"]
  /\ PlacingGo(r, "workers")
  /\ UNCHANGED <<valid, orderRows, placed, halfPlaced, early>>

\* updateOrderStatus(placed): nobody else knows the order yet.
MarkPlaced(r) ==
  /\ PlacingAt(r, "status")
  /\ orderRows' = [orderRows EXCEPT ![placings[r].order].reads = "placed"]
  /\ PlacingGo(r, "queue")
  /\ UNCHANGED <<valid, searches, placed, halfPlaced, early>>

QueueSearch(r) ==
  LET o == placings[r].order IN
  /\ PlacingAt(r, "queue")
  /\ \/ /\ searches' = [searches EXCEPT ![o].at = "queued"]
        /\ PlacingGo(r, "workers")
        /\ UNCHANGED halfPlaced
     \/ /\ "redis" \in PlacementFaults
        /\ PlacingEnd(r)
        /\ halfPlaced' = halfPlaced \cup {o}
        /\ UNCHANGED searches
  /\ UNCHANGED <<valid, orderRows, placed, early>>

FreeWorkersNow(r) ==
  /\ PlacingAt(r, "workers")
  /\ \/ PlacingGo(r, "save")
     \/ "workers" \in PlacementFaults /\ PlacingEnd(r)
  /\ UNCHANGED <<valid, orderRows, searches, placed, halfPlaced, early>>

\* save(stored_order): the workers free now, the job's id, and no status.
SaveStoredOrder(r) ==
  /\ PlacingAt(r, "save")
  /\ orderRows' = [orderRows EXCEPT ![placings[r].order] =
                     [@ EXCEPT !.list = "free", !.hasJobId = TRUE]]
  /\ PlacingEnd(r)
  /\ UNCHANGED <<valid, searches, placed, halfPlaced, early>>

(***************************************************************************)
(* searchWorker: it loads the order, adds a status and saves it, then      *)
(* loads it again, looks for workers and saves it once more.               *)
(***************************************************************************)
\* getOrderById.
SearchLoads(o, next) ==
  searches' = [searches EXCEPT ![o] = [@ EXCEPT !.at = next, !.list = orderRows[o].list,
                                                !.hasJobId = orderRows[o].hasJobId]]

StartSearch(o) ==
  /\ searches[o].at = "queued"
  /\ "slow" \in PlacementFaults \/ PlacingFor(o) = {}
  /\ early' = IF PlacingFor(o) = {} THEN early ELSE early \cup {o}
  /\ SearchLoads(o, "status")
  /\ UNCHANGED <<valid, orderRows, placings, placed, halfPlaced>>

SearchStatus(o) ==
  /\ searches[o].at = "status"
  /\ orderRows' = [orderRows EXCEPT ![o] = [@ EXCEPT !.reads = "searching",
                     !.list = searches[o].list, !.hasJobId = searches[o].hasJobId]]
  /\ searches' = [searches EXCEPT ![o].at = "lists"]
  /\ UNCHANGED <<valid, placings, placed, halfPlaced, early>>

\* The order as it is now, then the free and the willing workers: getFreeWorkers throws
\* when a worker of the area has no status row.
SearchLists(o) ==
  /\ searches[o].at = "lists"
  /\ \/ \E next \in {"save", "failing"} : SearchLoads(o, next)
     \/ "workers" \in PlacementFaults /\ searches' = [searches EXCEPT ![o].at = "over"]
  /\ UNCHANGED <<valid, orderRows, placings, placed, halfPlaced, early>>

\* Mutant: the willing workers are not assigned to the order.
SearchSavesAsLoaded(o) ==
  /\ searches[o].at = "save"
  /\ orderRows' = [orderRows EXCEPT ![o] = [@ EXCEPT !.list = searches[o].list,
                                              !.hasJobId = searches[o].hasJobId]]
  /\ searches' = [searches EXCEPT ![o].at = "over", ![o].list = "willing"]
  /\ UNCHANGED <<valid, placings, placed, halfPlaced, early>>

\* Willing workers: they are the ones to call, and the callWorker job is queued.
SearchSaves(o) ==
  /\ searches[o].at = "save"
  /\ orderRows' = [orderRows EXCEPT ![o] = [@ EXCEPT !.list = "willing",
                                              !.hasJobId = searches[o].hasJobId]]
  /\ searches' = [searches EXCEPT ![o].at = "over", ![o].list = "willing"]
  /\ UNCHANGED <<valid, placings, placed, halfPlaced, early>>

SearchFails(o) ==
  /\ searches[o].at = "failing"
  /\ orderRows' = [orderRows EXCEPT ![o].reads = "failed"]
  /\ searches' = [searches EXCEPT ![o].at = "over"]
  /\ UNCHANGED <<valid, placings, placed, halfPlaced, early>>

\* The work is done and asks to be paid; it is paid (Settlement has the steps).
Unpaid(o) ==
  /\ searches[o].at = "over" /\ orderRows[o].reads = "searching"
  /\ orderRows' = [orderRows EXCEPT ![o].reads = "payment_pending"]
  /\ UNCHANGED <<valid, searches, placings, placed, halfPlaced, early>>

Paid(o) ==
  /\ orderRows[o].reads = "payment_pending"
  /\ orderRows' = [orderRows EXCEPT ![o].reads = "completed"]
  /\ UNCHANGED <<valid, searches, placings, placed, halfPlaced, early>>

\* The process ends with its requests and its running jobs.  A queued job stays in
\* Redis; Bull puts a running one back, and fails it when that happens again.
Searching(o) == searches[o].at \notin {"none", "queued", "over"}

PlacementCrash ==
  /\ "crash" \in PlacementFaults
  /\ (\E r \in PlaceSlots : ~PlacingAt(r, "idle")) \/ (\E o \in OrderIds : Searching(o))
  /\ halfPlaced' = halfPlaced \cup
       {placings[r].order : r \in {r \in PlaceSlots : placings[r].at \in {"status", "queue"}}}
  /\ placings' = [r \in PlaceSlots |-> NoPlacing]
  /\ searches' = [o \in OrderIds |->
                    IF ~Searching(o) THEN searches[o]
                    ELSE [searches[o] EXCEPT !.at = IF searches[o].stalled THEN "over" ELSE "queued",
                                             !.stalled = TRUE]]
  /\ UNCHANGED <<valid, orderRows, placed, early>>

PlacementInit ==
  /\ valid = << >>
  /\ orderRows = << >>
  /\ searches = << >>
  /\ placings = [r \in PlaceSlots |-> NoPlacing]
  /\ placed = 0
  /\ halfPlaced = {}
  /\ early = {}

PlacementStep(r) ==
  \/ PlaceOrder(r) \/ FindUnpaid(r) \/ FindEstimate(r) \/ FindOrdered(r) \/ FindArea(r)
  \/ InsertOrder(r) \/ MarkPlaced(r) \/ QueueSearch(r) \/ FreeWorkersNow(r)
  \/ SaveStoredOrder(r)

SearchStep(o) ==
  \/ StartSearch(o) \/ SearchStatus(o) \/ SearchLists(o) \/ SearchSaves(o)
  \/ SearchFails(o) \/ Unpaid(o) \/ Paid(o)

PlacementNext ==
  \/ Estimated \/ PlacementCrash
  \/ \E e \in Estimates : EstimateExpires(e)
  \/ \E r \in PlaceSlots : PlacementStep(r)
  \/ \E o \in OrderIds : SearchStep(o)

PlacementSpec == PlacementInit /\ [][PlacementNext]_placementVars

(***************************************************************************)
(* Properties.                                                             *)
(***************************************************************************)
\* Type invariant.
PlacementTypeOK ==
  /\ valid \in Seq(BOOLEAN) /\ Len(valid) <= MaxEstimates
  /\ orderRows \in Seq(PlacedOrder)
  /\ searches \in Seq(Search) /\ Len(searches) = Len(orderRows)
  /\ placings \in [PlaceSlots -> Placing]
  /\ placed \in 0..MaxPlacings
  /\ halfPlaced \subseteq OrderIds /\ early \subseteq OrderIds

\* However placeOrder requests overlap, an estimate is ordered once
\* ("Estimate has already been ordered").
OneOrderPerEstimate ==
  \A o, p \in OrderIds : orderRows[o].estimate = orderRows[p].estimate => o = p

\* An order has a status row by the time its job can run; and an order whose request has
\* ended has both, unless that request died between them.  An order without a status
\* would end every later placeOrder of the customer.
PlacedAndQueued ==
  \A o \in OrderIds :
    /\ searches[o].at # "none" => orderRows[o].reads # "none"
    /\ PlacingFor(o) = {} /\ o \notin halfPlaced => searches[o].at # "none"

\* However the last save of placeOrder overlaps the saves of the search, and wherever
\* the process ends, an order whose search has queued the first call lists workers to
\* ring; and they are the willing ones, unless the search began before the request had
\* ended: MINIMUM_SEARCH_DELAY is there to prevent that.
WorkersListed ==
  \A o \in OrderIds :
    searches[o].at = "over" /\ searches[o].list = "willing" =>
      \/ orderRows[o].list = "willing"
      \/ orderRows[o].list = "free" /\ o \in early
=============================================================================
