--------------------------- MODULE PlacementProofs ---------------------------
(***************************************************************************)
(* Theorems about OrderPlacement, for every number of estimates, of        *)
(* requests and of requests that overlap, and every set of faults; and     *)
(* about the times that Scheduling computes, for every hours of the        *)
(* environment and every moment.                                           *)
(***************************************************************************)
EXTENDS OrderPlacement, Scheduling, RowLemmas, SequenceTheorems, FiniteSetTheorems

(***************************************************************************)
(* The invariant.                                                          *)
(***************************************************************************)
\* What a request has done of its order follows from where it stands.
PlacingFits(q) ==
  /\ q \in Placing
  /\ q.at \in {"ordered", "area", "insert"} => q.estimate \in Estimates
  /\ q.at \in {"idle", "unpaid", "estimate", "ordered", "area", "insert"} => q.order = 0
  /\ q.at \in {"status", "queue", "workers", "save"} => q.order \in OrderIds
  /\ q.at \in {"status", "queue"} => searches[q.order].at = "none"
  /\ q.at \in {"queue", "workers", "save"} => orderRows[q.order].reads # "none"
  /\ q.at \in {"workers", "save"} => searches[q.order].at # "none"

\* No two requests place the same order.
OwnOrder == \A r, k \in PlaceSlots :
  placings[r].order = placings[k].order /\ placings[r].order # 0 => r = k

\* Once begun, a search agrees with its order on what the request saved.
SearchAgrees ==
  \A o \in OrderIds \ early :
    searches[o].at \notin {"none", "queued"} =>
      /\ PlacingFor(o) = {}
      /\ searches[o].hasJobId = orderRows[o].hasJobId
      /\ searches[o].list = orderRows[o].list

OrdersInv == OneOrderPerEstimate /\ PlacedAndQueued /\ SearchAgrees

PlacementInv ==
  /\ PlacementTypeOK
  /\ \A r \in PlaceSlots : PlacingFits(placings[r])
  /\ OwnOrder
  /\ OrdersInv

(***************************************************************************)
(* What the steps have in common.                                          *)
(***************************************************************************)
LEMMA NoPlacingFits == PlacingFits(NoPlacing)
  BY PlacementLimitsAssumption DEF PlacingFits, NoPlacing, Placing

LEMMA TableDomains ==
  ASSUME PlacementTypeOK
  PROVE  /\ OrderIds = 1..Len(orderRows) /\ Len(orderRows) \in Nat
         /\ DOMAIN searches = OrderIds
         /\ \A o \in OrderIds : orderRows[o] \in PlacedOrder /\ searches[o] \in Search
         /\ Estimates = 1..Len(valid) /\ Len(valid) \in Nat /\ Estimates \subseteq 1..MaxEstimates
  BY PlacementLimitsAssumption DEF PlacementTypeOK, OrderIds, Estimates

\* One request goes on or ends, and no order and no search changes.  It ends only
\* before its order is saved or after its job is queued.
LEMMA OnePlacingMoves ==
  ASSUME PlacementInv, NEW r \in PlaceSlots, NEW q, PlacingFits(q),
         placings' = [placings EXCEPT ![r] = q],
         \/ q.order = placings[r].order
         \/ q.order = 0 /\ (placings[r].at \in {"workers", "save"}
                            \/ placings[r].order \in halfPlaced'),
         UNCHANGED <<valid, orderRows, searches, early>>,
         placed' \in 0..MaxPlacings,
         halfPlaced \subseteq halfPlaced', halfPlaced' \subseteq OrderIds
  PROVE  PlacementInv'
<1>1. PlacementTypeOK'
  BY DEF PlacementInv, PlacementTypeOK, PlacingFits, OrderIds
<1>2. \A k \in PlaceSlots : placings'[k] = IF k = r THEN q ELSE placings[k]
  BY DEF PlacementInv, PlacementTypeOK
<1>3. \A k \in PlaceSlots : PlacingFits(placings[k])'
  BY <1>2 DEF PlacementInv, PlacingFits, OrderIds, Estimates
<1>4. OwnOrder'
  BY <1>2 DEF PlacementInv, OwnOrder
<1>5. \A o \in OrderIds : PlacingFor(o)' \subseteq PlacingFor(o)
  BY <1>2 DEF PlacingFor, OrderIds, PlacementInv, PlacementTypeOK
<1>6. PlacedAndQueued'
  <2>1. SUFFICES ASSUME NEW o \in OrderIds, PlacingFor(o)' = {}, o \notin halfPlaced'
                 PROVE  searches[o].at # "none"
    BY DEF PlacementInv, OrdersInv, PlacedAndQueued, OrderIds
  <2>2. CASE placings[r].order = o
    BY <1>2, <2>1, <2>2, TableDomains DEF PlacingFor, PlacementInv, PlacingFits
  <2>3. CASE placings[r].order # o
    BY <1>2, <2>1, <2>3 DEF PlacingFor, PlacementInv, OrdersInv, PlacedAndQueued
  <2>4. QED
    BY <2>2, <2>3
<1>7. OneOrderPerEstimate' /\ SearchAgrees'
  BY <1>5 DEF PlacementInv, OrdersInv, OneOrderPerEstimate, SearchAgrees, OrderIds
<1>8. QED
  BY <1>1, <1>3, <1>4, <1>6, <1>7 DEF PlacementInv, OrdersInv

\* One search goes on: its order changes only in what that search writes.
LEMMA OneSearchMoves ==
  ASSUME PlacementInv, NEW o \in OrderIds, NEW s \in Search, NEW row \in PlacedOrder,
         searches' = [searches EXCEPT ![o] = s],
         orderRows' = [orderRows EXCEPT ![o] = row],
         UNCHANGED <<valid, placings, placed, halfPlaced>>,
         early \subseteq early', early' \subseteq OrderIds,
         row.estimate = orderRows[o].estimate,
         searches[o].at = "none" <=> s.at = "none",
         row.reads # "none",
         o \notin early' /\ s.at \notin {"none", "queued"} =>
             PlacingFor(o) = {} /\ s.hasJobId = row.hasJobId /\ s.list = row.list
  PROVE  PlacementInv'
<1>1. /\ orderRows' \in Seq(PlacedOrder) /\ Len(orderRows') = Len(orderRows)
      /\ searches' \in Seq(Search) /\ Len(searches') = Len(searches)
      /\ OrderIds' = OrderIds
      /\ \A p \in OrderIds : /\ orderRows'[p] = IF p = o THEN row ELSE orderRows[p]
                             /\ searches'[p] = IF p = o THEN s ELSE searches[p]
  BY TableDomains, ExceptSeq DEF PlacementInv, PlacementTypeOK, OrderIds
<1>2. PlacementTypeOK'
  BY <1>1 DEF PlacementInv, PlacementTypeOK
<1>3. \A k \in PlaceSlots : PlacingFits(placings[k])'
  BY <1>1 DEF PlacementInv, PlacingFits, Estimates
<1>4. OwnOrder' /\ \A p \in OrderIds : PlacingFor(p)' = PlacingFor(p)
  BY DEF PlacementInv, OwnOrder, PlacingFor
<1>5. OneOrderPerEstimate' /\ PlacedAndQueued'
  BY <1>1, <1>4 DEF PlacementInv, OrdersInv, OneOrderPerEstimate, PlacedAndQueued
<1>6. SearchAgrees'
  BY <1>1, <1>4 DEF PlacementInv, OrdersInv, SearchAgrees
<1>7. QED
  BY <1>2, <1>3, <1>4, <1>5, <1>6 DEF PlacementInv, OrdersInv

\* Where a request stands in a step that moves it to another await.
LEMMA PlacingNow ==
  ASSUME PlacementInv, NEW r \in PlaceSlots
  PROVE  /\ PlacingFits(placings[r]) /\ placings[r] \in Placing
         /\ \A a : PlacingGo(r, a) => placings' = [placings EXCEPT ![r] = [placings[r] EXCEPT !.at = a]]
  BY DEF PlacementInv, PlacingFits, PlacingGo, PlacementTypeOK

(***************************************************************************)
(* estimate and placeOrder.                                                *)
(***************************************************************************)
LEMMA EstimatesInv ==
  ASSUME PlacementInv, Estimated \/ \E e \in Estimates : EstimateExpires(e)
  PROVE  PlacementInv'
<1>1. valid' \in Seq(BOOLEAN) /\ Len(valid') <= MaxEstimates /\ Estimates \subseteq Estimates'
  <2>1. CASE Estimated
    BY <2>1, TableDomains, AppendProperties, PlacementLimitsAssumption
       DEF Estimated, PlacementInv, PlacementTypeOK, Estimates
  <2>2. ASSUME NEW e \in Estimates, EstimateExpires(e)
        PROVE  valid' \in Seq(BOOLEAN) /\ Len(valid') <= MaxEstimates /\ Estimates \subseteq Estimates'
    BY <2>2, TableDomains, ExceptSeq DEF EstimateExpires, PlacementInv, PlacementTypeOK, Estimates
  <2>3. QED
    BY <2>1, <2>2
<1>2. UNCHANGED <<orderRows, searches, placings, placed, halfPlaced, early>>
  BY DEF Estimated, EstimateExpires
<1>3. PlacementTypeOK'
  BY <1>1, <1>2 DEF PlacementInv, PlacementTypeOK, OrderIds
<1>4. \A k \in PlaceSlots : PlacingFits(placings[k])'
  BY <1>1, <1>2 DEF PlacementInv, PlacingFits, OrderIds
<1>5. OwnOrder' /\ OrdersInv'
  BY <1>2 DEF PlacementInv, OwnOrder, OrdersInv, OneOrderPerEstimate, PlacedAndQueued,
              SearchAgrees, PlacingFor, OrderIds
<1>6. QED
  BY <1>3, <1>4, <1>5 DEF PlacementInv

LEMMA FindsInv ==
  ASSUME PlacementInv, NEW r \in PlaceSlots,
         PlaceOrder(r) \/ FindUnpaid(r) \/ FindOrdered(r) \/ FindArea(r)
  PROVE  PlacementInv'
<1> DEFINE old == placings[r]
           Went(a) == [old EXCEPT !.at = a]
<1>1. /\ PlacingFits(old) /\ old \in Placing
      /\ old.at \in {"idle", "unpaid", "ordered", "area"} /\ old.order = 0
  BY PlacingNow DEF PlacingFits, PlacingAt, PlaceOrder, FindUnpaid, FindOrdered, FindArea
<1>2. \E q : PlacingFits(q) /\ q.order = 0 /\ placings' = [placings EXCEPT ![r] = q]
  <2>1. CASE PlacingEnd(r)
    BY <2>1, NoPlacingFits DEF PlacingEnd, NoPlacing
  <2>2. ASSUME NEW a \in {"unpaid", "estimate", "area", "insert"}, PlacingGo(r, a),
               a \in {"area", "insert"} => old.at \in {"ordered", "area"}
        PROVE  \E q : PlacingFits(q) /\ q.order = 0 /\ placings' = [placings EXCEPT ![r] = q]
    <3>1. Went(a) \in Placing /\ Went(a).at = a /\ Went(a).order = 0 /\ Went(a).estimate = old.estimate
      BY <1>1, <2>2 DEF Placing
    <3>2. PlacingFits(Went(a))
      BY <1>1, <2>2, <3>1 DEF PlacingFits
    <3>3. QED
      BY <2>2, <3>1, <3>2, PlacingNow
  <2>3. QED
    BY <2>1, <2>2, <1>1 DEF PlaceOrder, FindUnpaid, FindOrdered, FindArea, PlacingAt
<1>3. /\ UNCHANGED <<valid, orderRows, searches, halfPlaced, early>>
      /\ placed' \in 0..MaxPlacings
  BY PlacementLimitsAssumption DEF PlaceOrder, FindUnpaid, FindOrdered, FindArea, PlacementInv,
     PlacementTypeOK
<1>4. QED
  BY <1>1, <1>2, <1>3, OnePlacingMoves DEF PlacementInv, PlacementTypeOK

LEMMA FindEstimateInv ==
  ASSUME PlacementInv, NEW r \in PlaceSlots, FindEstimate(r)
  PROVE  PlacementInv'
<1> DEFINE old == placings[r]
           found == {e \in Estimates : valid[e]}
           q == [old EXCEPT !.at = "ordered", !.estimate = Max(found)]
<1>1. PlacingFits(old) /\ old \in Placing /\ old.at = "estimate" /\ old.order = 0
  BY PlacingNow DEF PlacingFits, PlacingAt, FindEstimate
<1>2. placed \in 0..MaxPlacings /\ halfPlaced \subseteq OrderIds
  BY DEF PlacementInv, PlacementTypeOK
<1>3. UNCHANGED <<valid, orderRows, searches, placed, halfPlaced, early>>
  BY DEF FindEstimate
<1>4. CASE found = {}
  <2>1. placings' = [placings EXCEPT ![r] = NoPlacing]
    BY <1>4 DEF FindEstimate, PlacingEnd
  <2>2. NoPlacing.order = 0
    BY DEF NoPlacing
  <2>3. QED
    BY <1>1, <1>2, <1>3, <2>1, <2>2, NoPlacingFits, OnePlacingMoves
<1>5. CASE found # {}
  <2>1. placings' = [placings EXCEPT ![r] = q]
    BY <1>5 DEF FindEstimate, PlacementInv, PlacementTypeOK
  <2>2. Max(found) \in Estimates /\ Max(found) \in 0..MaxEstimates
    <3>1. Estimates = 1..Len(valid) /\ Len(valid) \in Nat /\ Estimates \subseteq 1..MaxEstimates
      BY TableDomains DEF PlacementInv
    <3>2. Max(found) \in found
      BY <1>5, <3>1, MaxInSet
    <3>3. QED
      BY <3>1, <3>2, PlacementLimitsAssumption
  <2> HIDE DEF found
  <2>3. /\ q \in Placing /\ q.at = "ordered" /\ q.estimate = Max(found)
        /\ q.order = 0
    BY <1>1, <2>2 DEF Placing
  <2>4. PlacingFits(q)
    BY <2>2, <2>3 DEF PlacingFits
  <2> HIDE DEF q
  <2>5. QED
    BY <1>1, <1>2, <1>3, <2>1, <2>3, <2>4, OnePlacingMoves
<1>6. QED
  BY <1>4, <1>5

\* An order is saved only for an estimate that has none: estimateId is unique.
LEMMA InsertOrderInv ==
  ASSUME PlacementInv, NEW r \in PlaceSlots, InsertOrder(r)
  PROVE  PlacementInv'
<1> DEFINE old == placings[r]
           n == Len(orderRows) + 1
           row == NewOrder(old.estimate)
           q == [old EXCEPT !.at = "status", !.order = n]
<1>1. PlacingFits(old) /\ old \in Placing /\ old.at = "insert" /\ old.order = 0
      /\ old.estimate \in Estimates
  BY PlacingNow DEF PlacingFits, PlacingAt, InsertOrder
<1>2. placed \in 0..MaxPlacings /\ halfPlaced \subseteq OrderIds
  BY DEF PlacementInv, PlacementTypeOK
<1>3. UNCHANGED <<valid, placed, halfPlaced, early>>
  BY DEF InsertOrder
<1>4. CASE OrderedAlready(old.estimate)
  <2>1. placings' = [placings EXCEPT ![r] = NoPlacing] /\ UNCHANGED <<orderRows, searches>>
    BY <1>4 DEF InsertOrder, PlacingEnd
  <2>2. NoPlacing.order = 0
    BY DEF NoPlacing
  <2>3. QED
    BY <1>1, <1>2, <1>3, <2>1, <2>2, NoPlacingFits, OnePlacingMoves
<1>5. CASE ~OrderedAlready(old.estimate)
  <2>1. /\ orderRows' = Append(orderRows, row) /\ searches' = Append(searches, NoSearch)
        /\ placings' = [placings EXCEPT ![r] = q]
    BY <1>5, <1>1 DEF InsertOrder, PlacementInv, PlacementTypeOK
  <2>2. row \in PlacedOrder /\ row.estimate = old.estimate /\ row.reads = "none"
        /\ NoSearch \in Search /\ NoSearch.at = "none"
    BY <1>1, TableDomains DEF PlacementInv, NewOrder, PlacedOrder, NoSearch, Search, OrderReads,
       WorkerListings
  <2>3. OrderIds = 1..Len(orderRows) /\ Len(orderRows) \in Nat /\ Len(searches) = Len(orderRows)
        /\ orderRows \in Seq(PlacedOrder) /\ searches \in Seq(Search)
    BY TableDomains DEF PlacementInv, PlacementTypeOK
  <2>4. /\ orderRows' \in Seq(PlacedOrder) /\ searches' \in Seq(Search)
        /\ Len(orderRows') = n /\ Len(searches') = n
        /\ OrderIds' = OrderIds \cup {n} /\ n \notin OrderIds /\ n \in Nat /\ n # 0
        /\ orderRows'[n] = row /\ searches'[n] = NoSearch
        /\ \A o \in OrderIds : orderRows'[o] = orderRows[o] /\ searches'[o] = searches[o]
    <3>1. /\ orderRows' \in Seq(PlacedOrder) /\ Len(orderRows') = n /\ orderRows'[n] = row
          /\ \A o \in OrderIds : orderRows'[o] = orderRows[o]
      BY <2>1, <2>2, <2>3, AppendProperties
    <3>2. /\ searches' \in Seq(Search) /\ Len(searches') = n /\ searches'[n] = NoSearch
          /\ \A o \in OrderIds : searches'[o] = searches[o]
      BY <2>1, <2>2, <2>3, AppendProperties
    <3>3. OrderIds' = 1..n
      BY <3>1 DEF OrderIds
    <3>4. QED
      BY <2>3, <3>1, <3>2, <3>3
  <2> HIDE DEF n
  <2>5. /\ q \in Placing /\ q.at = "status" /\ q.order = n
        /\ \A k \in PlaceSlots : placings'[k] = IF k = r THEN q ELSE placings[k]
        /\ placings' \in [PlaceSlots -> Placing]
    BY <1>1, <2>1, <2>4 DEF Placing, PlacementInv, PlacementTypeOK
  <2> HIDE DEF q, row
  <2>6. PlacementTypeOK'
    BY <1>2, <1>3, <2>4, <2>5 DEF PlacementInv, PlacementTypeOK
  <2>7. Estimates' = Estimates
    BY <1>3 DEF Estimates
  <2>8. ASSUME NEW k \in PlaceSlots PROVE PlacingFits(placings[k])'
    <3>1. CASE k = r
      BY <2>2, <2>4, <2>5, <3>1 DEF PlacingFits
    <3>2. CASE k # r
      BY <2>4, <2>5, <2>7, <3>2 DEF PlacingFits, PlacementInv
    <3>3. QED
      BY <3>1, <3>2
  <2>9. ASSUME NEW k \in PlaceSlots, k # r PROVE placings[k].order # n
    BY <2>3, <2>4, <2>9 DEF PlacementInv, PlacingFits, Placing
  <2>10. OwnOrder'
    BY <2>5, <2>9 DEF OwnOrder, PlacementInv
  <2>11. OneOrderPerEstimate'
    BY <1>5, <2>2, <2>4 DEF OneOrderPerEstimate, PlacementInv, OrdersInv, OrderedAlready
  <2>12. r \in {k \in PlaceSlots : placings'[k].order = n}
    BY <2>5
  <2>13. \A o \in OrderIds : PlacingFor(o)' = PlacingFor(o)
    <3>1. \A o \in OrderIds : o # 0 /\ o # n
      BY <2>3, <2>4
    <3>2. QED
      BY <1>1, <2>5, <3>1 DEF PlacingFor
  <2>14. ASSUME NEW o \in OrderIds'
         PROVE  /\ searches'[o].at # "none" => orderRows'[o].reads # "none"
                /\ PlacingFor(o)' = {} /\ o \notin halfPlaced' => searches'[o].at # "none"
    <3>1. CASE o = n
      BY <2>2, <2>4, <2>12, <3>1 DEF PlacingFor
    <3>2. CASE o \in OrderIds
      BY <1>3, <2>4, <2>13, <3>2 DEF PlacementInv, OrdersInv, PlacedAndQueued
    <3>3. QED
      BY <2>4, <3>1, <3>2
  <2>15. PlacedAndQueued'
    BY <2>14 DEF PlacedAndQueued
  <2>16. SearchAgrees'
    BY <1>3, <2>2, <2>4, <2>13 DEF SearchAgrees, PlacementInv, OrdersInv
  <2>17. QED
    BY <2>6, <2>8, <2>10, <2>11, <2>15, <2>16 DEF PlacementInv, OrdersInv
<1>6. QED
  BY <1>4, <1>5

\* A request and its own order go on together: no other request has that order.
LEMMA OwnOrderMoves ==
  ASSUME PlacementInv, NEW r \in PlaceSlots, NEW o \in OrderIds, placings[r].order = o,
         NEW q \in Placing, NEW s \in Search, NEW row \in PlacedOrder,
         placings' = [placings EXCEPT ![r] = q],
         searches' = [searches EXCEPT ![o] = s],
         orderRows' = [orderRows EXCEPT ![o] = row],
         UNCHANGED <<valid, placed, halfPlaced, early>>,
         row.estimate = orderRows[o].estimate,
         \/ q.at = "idle" /\ q.order = 0 /\ s.at # "none"
         \/ q.at = "queue" /\ q.order = o /\ s.at = "none" /\ row.reads # "none"
         \/ q.at \in {"workers", "save"} /\ q.order = o /\ s.at # "none",
         searches[o].at # "none" => s.at # "none",
         s.at # "none" => row.reads # "none",
         o \in early \/ s.at \in {"none", "queued"}
  PROVE  PlacementInv'
<1>1. /\ orderRows' \in Seq(PlacedOrder) /\ Len(orderRows') = Len(orderRows)
      /\ searches' \in Seq(Search) /\ Len(searches') = Len(searches)
      /\ OrderIds' = OrderIds
      /\ \A p \in OrderIds : /\ orderRows'[p] = IF p = o THEN row ELSE orderRows[p]
                             /\ searches'[p] = IF p = o THEN s ELSE searches[p]
  BY TableDomains, ExceptSeq DEF PlacementInv, PlacementTypeOK, OrderIds
<1>2. /\ \A k \in PlaceSlots : placings'[k] = IF k = r THEN q ELSE placings[k]
      /\ placings' \in [PlaceSlots -> Placing]
  BY DEF PlacementInv, PlacementTypeOK
<1>3. PlacementTypeOK'
  BY <1>1, <1>2 DEF PlacementInv, PlacementTypeOK
<1>4. o # 0 /\ Estimates' = Estimates
  BY TableDomains DEF PlacementInv, Estimates
<1>5. ASSUME NEW k \in PlaceSlots PROVE PlacingFits(placings[k])'
  <2>1. CASE k = r
    BY <1>1, <1>2, <1>4, <2>1 DEF PlacingFits
  <2>2. CASE k # r
    <3>1. placings'[k] = placings[k] /\ placings[k].order # o /\ PlacingFits(placings[k])
      BY <1>2, <1>4, <2>2 DEF PlacementInv, OwnOrder
    <3>2. QED
      BY <1>1, <1>4, <3>1 DEF PlacingFits
  <2>3. QED
    BY <2>1, <2>2
<1>6. OwnOrder'
  BY <1>2, <1>4 DEF PlacementInv, OwnOrder
<1>7. /\ \A p \in OrderIds : p # o => PlacingFor(p)' = PlacingFor(p)
      /\ q.order = o => r \in PlacingFor(o)'
  <2>1. \A p \in OrderIds : p # 0
    BY TableDomains DEF PlacementInv
  <2>2. QED
    BY <1>2, <1>4, <2>1 DEF PlacingFor
<1>8. OneOrderPerEstimate'
  BY <1>1 DEF PlacementInv, OrdersInv, OneOrderPerEstimate
<1>9. PlacedAndQueued'
  BY <1>1, <1>7 DEF PlacementInv, OrdersInv, PlacedAndQueued
<1>10. SearchAgrees'
  BY <1>1, <1>7 DEF PlacementInv, OrdersInv, SearchAgrees
<1>11. QED
  BY <1>3, <1>5, <1>6, <1>8, <1>9, <1>10 DEF PlacementInv, OrdersInv

LEMMA MarkPlacedInv ==
  ASSUME PlacementInv, NEW r \in PlaceSlots, MarkPlaced(r)
  PROVE  PlacementInv'
<1> DEFINE old == placings[r]
           o == old.order
           row == [orderRows[o] EXCEPT !.reads = "placed"]
           q == [old EXCEPT !.at = "queue"]
<1>1. PlacingFits(old) /\ old \in Placing /\ old.at = "status" /\ o \in OrderIds /\ searches[o].at = "none"
  BY PlacingNow DEF PlacingFits, PlacingAt, MarkPlaced
<1>2. orderRows[o] \in PlacedOrder /\ searches[o] \in Search /\ OrderIds = 1..Len(orderRows)
  BY <1>1, TableDomains DEF PlacementInv
<1>3. /\ orderRows' = [orderRows EXCEPT ![o] = row] /\ placings' = [placings EXCEPT ![r] = q]
      /\ searches' = [searches EXCEPT ![o] = searches[o]]
  BY <1>1, <1>2, PlacingNow, TableDomains DEF MarkPlaced, PlacementInv, PlacementTypeOK
<1>4. /\ row \in PlacedOrder /\ row.estimate = orderRows[o].estimate /\ row.reads = "placed"
      /\ q \in Placing /\ q.at = "queue" /\ q.order = o
  BY <1>1, <1>2 DEF PlacedOrder, OrderReads, Placing
<1>5. UNCHANGED <<valid, searches, placed, halfPlaced, early>>
  BY DEF MarkPlaced
<1> HIDE DEF q, row
<1>6. QED
  BY <1>1, <1>2, <1>3, <1>4, <1>5, OwnOrderMoves

LEMMA QueueSearchInv ==
  ASSUME PlacementInv, NEW r \in PlaceSlots, QueueSearch(r)
  PROVE  PlacementInv'
<1> DEFINE old == placings[r]
           o == old.order
           s == [searches[o] EXCEPT !.at = "queued"]
           q == [old EXCEPT !.at = "workers"]
<1>1. PlacingFits(old) /\ old \in Placing /\ old.at = "queue" /\ o \in OrderIds
      /\ orderRows[o].reads # "none"
  BY PlacingNow DEF PlacingFits, PlacingAt, QueueSearch
<1>2. orderRows[o] \in PlacedOrder /\ searches[o] \in Search /\ OrderIds = 1..Len(orderRows)
      /\ placed \in 0..MaxPlacings /\ halfPlaced \subseteq OrderIds
  BY <1>1, TableDomains DEF PlacementInv, PlacementTypeOK
<1>3. UNCHANGED <<valid, orderRows, placed, early>>
  BY DEF QueueSearch
<1>4. CASE PlacingGo(r, "workers") /\ searches' = [searches EXCEPT ![o].at = "queued"]
           /\ UNCHANGED halfPlaced
  <2>1. /\ searches' = [searches EXCEPT ![o] = s] /\ placings' = [placings EXCEPT ![r] = q]
        /\ orderRows' = [orderRows EXCEPT ![o] = orderRows[o]]
    BY <1>1, <1>2, <1>3, <1>4, PlacingNow, TableDomains DEF PlacementInv, PlacementTypeOK
  <2>2. s \in Search /\ s.at = "queued" /\ q \in Placing /\ q.at = "workers" /\ q.order = o
    BY <1>1, <1>2 DEF Search, Placing
  <2>3. UNCHANGED <<valid, placed, halfPlaced, early>>
    BY <1>3, <1>4
  <2> HIDE DEF q, s
  <2>4. QED
    BY <1>1, <1>2, <2>1, <2>2, <2>3, OwnOrderMoves
<1>5. CASE PlacingEnd(r) /\ halfPlaced' = halfPlaced \cup {o} /\ UNCHANGED searches
  <2>1. placings' = [placings EXCEPT ![r] = NoPlacing] /\ NoPlacing.order = 0
    BY <1>5 DEF PlacingEnd, NoPlacing
  <2>2. QED
    BY <1>1, <1>2, <1>3, <1>5, <2>1, NoPlacingFits, OnePlacingMoves
<1>6. QED
  BY <1>4, <1>5 DEF QueueSearch

LEMMA FreeWorkersNowInv ==
  ASSUME PlacementInv, NEW r \in PlaceSlots, FreeWorkersNow(r)
  PROVE  PlacementInv'
<1> DEFINE old == placings[r]
           q == [old EXCEPT !.at = "save"]
<1>1. PlacingFits(old) /\ old \in Placing /\ old.at = "workers"
  BY PlacingNow DEF PlacingFits, PlacingAt, FreeWorkersNow
<1>2. placed \in 0..MaxPlacings /\ halfPlaced \subseteq OrderIds
  BY DEF PlacementInv, PlacementTypeOK
<1>3. UNCHANGED <<valid, orderRows, searches, placed, halfPlaced, early>>
  BY DEF FreeWorkersNow
<1>4. CASE PlacingGo(r, "save")
  <2>1. placings' = [placings EXCEPT ![r] = q]
    BY <1>4, PlacingNow
  <2>2. q \in Placing /\ q.at = "save" /\ q.order = old.order
    BY <1>1 DEF Placing
  <2>3. PlacingFits(q)
    BY <1>1, <2>2 DEF PlacingFits
  <2> HIDE DEF q
  <2>4. QED
    BY <1>2, <1>3, <2>1, <2>2, <2>3, OnePlacingMoves
<1>5. CASE PlacingEnd(r)
  <2>1. placings' = [placings EXCEPT ![r] = NoPlacing] /\ NoPlacing.order = 0
    BY <1>5 DEF PlacingEnd, NoPlacing
  <2>2. QED
    BY <1>1, <1>2, <1>3, <2>1, NoPlacingFits, OnePlacingMoves
<1>6. QED
  BY <1>4, <1>5 DEF FreeWorkersNow

\* The last save writes over what a search has saved only when that search began early.
LEMMA SaveStoredOrderInv ==
  ASSUME PlacementInv, NEW r \in PlaceSlots, SaveStoredOrder(r)
  PROVE  PlacementInv'
<1> DEFINE old == placings[r]
           o == old.order
           row == [orderRows[o] EXCEPT !.list = "free", !.hasJobId = TRUE]
<1>1. PlacingFits(old) /\ old \in Placing /\ old.at = "save" /\ o \in OrderIds
      /\ orderRows[o].reads # "none" /\ searches[o].at # "none"
  BY PlacingNow DEF PlacingFits, PlacingAt, SaveStoredOrder
<1>2. orderRows[o] \in PlacedOrder /\ searches[o] \in Search /\ OrderIds = 1..Len(orderRows)
  BY <1>1, TableDomains DEF PlacementInv
<1>3. /\ orderRows' = [orderRows EXCEPT ![o] = row] /\ placings' = [placings EXCEPT ![r] = NoPlacing]
      /\ searches' = [searches EXCEPT ![o] = searches[o]]
  BY <1>1, <1>2, TableDomains DEF SaveStoredOrder, PlacingEnd, PlacementInv, PlacementTypeOK
<1>4. /\ row \in PlacedOrder /\ row.estimate = orderRows[o].estimate /\ row.reads # "none"
      /\ NoPlacing \in Placing /\ NoPlacing.order = 0 /\ NoPlacing.at = "idle"
  <2>1. NoPlacing \in Placing /\ NoPlacing.order = 0 /\ NoPlacing.at = "idle"
    BY NoPlacingFits DEF PlacingFits, NoPlacing
  <2>2. row \in PlacedOrder /\ row.estimate = orderRows[o].estimate /\ row.reads # "none"
    BY <1>1, <1>2 DEF PlacedOrder, WorkerListings
  <2>3. QED
    BY <2>1, <2>2
<1>5. o \in early \/ searches[o].at \in {"none", "queued"}
  BY <1>1 DEF PlacementInv, OrdersInv, SearchAgrees, PlacingFor
<1>6. UNCHANGED <<valid, placed, halfPlaced, early>>
  BY DEF SaveStoredOrder
<1> HIDE DEF row
<1>7. QED
  BY <1>1, <1>2, <1>3, <1>4, <1>5, <1>6, OwnOrderMoves

(***************************************************************************)
(* The search, and what comes after it.                                    *)
(***************************************************************************)
LEMMA SearchRow ==
  ASSUME PlacementInv, NEW o \in OrderIds
  PROVE  /\ orderRows[o] \in PlacedOrder /\ searches[o] \in Search
         /\ orderRows \in Seq(PlacedOrder) /\ searches \in Seq(Search)
         /\ OrderIds = 1..Len(orderRows) /\ DOMAIN searches = OrderIds
         /\ early \subseteq OrderIds
         /\ searches[o].at # "none" => orderRows[o].reads # "none"
         /\ o \notin early /\ searches[o].at \notin {"none", "queued"} =>
              /\ PlacingFor(o) = {}
              /\ searches[o].hasJobId = orderRows[o].hasJobId
              /\ searches[o].list = orderRows[o].list
  BY TableDomains DEF PlacementInv, PlacementTypeOK, OrdersInv, PlacedAndQueued, SearchAgrees

LEMMA StartSearchInv ==
  ASSUME PlacementInv, NEW o \in OrderIds, StartSearch(o)
  PROVE  PlacementInv'
<1> DEFINE s == [searches[o] EXCEPT !.at = "status", !.list = orderRows[o].list,
                                    !.hasJobId = orderRows[o].hasJobId]
<1>1. /\ s \in Search /\ s.at = "status" /\ s.list = orderRows[o].list
      /\ s.hasJobId = orderRows[o].hasJobId
  BY SearchRow DEF Search, PlacedOrder
<1>2. /\ searches' = [searches EXCEPT ![o] = s] /\ searches[o].at = "queued"
      /\ UNCHANGED <<valid, placings, placed, halfPlaced>>
      /\ early' = IF PlacingFor(o) = {} THEN early ELSE early \cup {o}
      /\ orderRows' = [orderRows EXCEPT ![o] = orderRows[o]]
  BY SearchRow DEF StartSearch, SearchLoads
<1> HIDE DEF s
<1>3. early \subseteq early' /\ early' \subseteq OrderIds /\ (o \notin early' => PlacingFor(o) = {})
  BY <1>2, SearchRow
<1>4. QED
  BY <1>1, <1>2, <1>3, SearchRow, OneSearchMoves

LEMMA SearchStatusInv ==
  ASSUME PlacementInv, NEW o \in OrderIds, SearchStatus(o)
  PROVE  PlacementInv'
<1> DEFINE s == [searches[o] EXCEPT !.at = "lists"]
           row == [orderRows[o] EXCEPT !.reads = "searching", !.list = searches[o].list,
                                       !.hasJobId = searches[o].hasJobId]
<1>1. /\ s \in Search /\ s.at = "lists" /\ s.list = searches[o].list
      /\ s.hasJobId = searches[o].hasJobId
  BY SearchRow DEF Search
<1>2. /\ row \in PlacedOrder /\ row.estimate = orderRows[o].estimate /\ row.reads = "searching"
      /\ row.list = searches[o].list /\ row.hasJobId = searches[o].hasJobId
  BY SearchRow DEF PlacedOrder, Search, OrderReads
<1>3. /\ searches' = [searches EXCEPT ![o] = s] /\ searches[o].at = "status"
      /\ orderRows' = [orderRows EXCEPT ![o] = row]
      /\ UNCHANGED <<valid, placings, placed, halfPlaced, early>>
  BY SearchRow DEF SearchStatus
<1> HIDE DEF s, row
<1>4. QED
  BY <1>1, <1>2, <1>3, SearchRow, OneSearchMoves

LEMMA SearchListsInv ==
  ASSUME PlacementInv, NEW o \in OrderIds, SearchLists(o)
  PROVE  PlacementInv'
<1> DEFINE Loaded(next) == [searches[o] EXCEPT !.at = next, !.list = orderRows[o].list,
                                               !.hasJobId = orderRows[o].hasJobId]
           gone == [searches[o] EXCEPT !.at = "over"]
<1>1. /\ orderRows' = [orderRows EXCEPT ![o] = orderRows[o]] /\ searches[o].at = "lists"
      /\ UNCHANGED <<valid, placings, placed, halfPlaced, early>>
  BY SearchRow DEF SearchLists
<1>2. \E s \in Search : /\ searches' = [searches EXCEPT ![o] = s] /\ s.at # "none"
                        /\ \/ s.list = orderRows[o].list /\ s.hasJobId = orderRows[o].hasJobId
                           \/ s.list = searches[o].list /\ s.hasJobId = searches[o].hasJobId
  <2>1. ASSUME NEW next \in {"save", "failing"}, searches' = [searches EXCEPT ![o] = Loaded(next)]
        PROVE  \E s \in Search : /\ searches' = [searches EXCEPT ![o] = s] /\ s.at # "none"
                                 /\ s.list = orderRows[o].list /\ s.hasJobId = orderRows[o].hasJobId
    <3>1. /\ Loaded(next) \in Search /\ Loaded(next).at # "none"
          /\ Loaded(next).list = orderRows[o].list /\ Loaded(next).hasJobId = orderRows[o].hasJobId
      BY SearchRow DEF Search, PlacedOrder
    <3> HIDE DEF Loaded
    <3>2. QED
      BY <2>1, <3>1
  <2>2. CASE searches' = [searches EXCEPT ![o].at = "over"]
    <3>1. searches' = [searches EXCEPT ![o] = gone]
      BY <2>2, SearchRow
    <3>2. /\ gone \in Search /\ gone.at # "none"
          /\ gone.list = searches[o].list /\ gone.hasJobId = searches[o].hasJobId
      BY SearchRow DEF Search
    <3> HIDE DEF gone
    <3>3. QED
      BY <3>1, <3>2
  <2>3. QED
    BY <2>1, <2>2 DEF SearchLists, SearchLoads
<1>3. PICK s \in Search : /\ searches' = [searches EXCEPT ![o] = s] /\ s.at # "none"
                          /\ \/ s.list = orderRows[o].list /\ s.hasJobId = orderRows[o].hasJobId
                             \/ s.list = searches[o].list /\ s.hasJobId = searches[o].hasJobId
  BY <1>2
<1>4. QED
  BY <1>1, <1>3, SearchRow, OneSearchMoves

LEMMA SearchSavesInv ==
  ASSUME PlacementInv, NEW o \in OrderIds, SearchSaves(o)
  PROVE  PlacementInv'
<1> DEFINE s == [searches[o] EXCEPT !.at = "over", !.list = "willing"]
           row == [orderRows[o] EXCEPT !.list = "willing", !.hasJobId = searches[o].hasJobId]
<1>1. /\ s \in Search /\ s.at = "over" /\ s.list = "willing" /\ s.hasJobId = searches[o].hasJobId
  BY SearchRow DEF Search, WorkerListings
<1>2. /\ row \in PlacedOrder /\ row.estimate = orderRows[o].estimate /\ row.reads = orderRows[o].reads
      /\ row.list = "willing" /\ row.hasJobId = searches[o].hasJobId
  BY SearchRow DEF PlacedOrder, Search, WorkerListings
<1>3. /\ searches' = [searches EXCEPT ![o] = s] /\ searches[o].at = "save"
      /\ orderRows' = [orderRows EXCEPT ![o] = row]
      /\ UNCHANGED <<valid, placings, placed, halfPlaced, early>>
  BY SearchRow DEF SearchSaves
<1> HIDE DEF s, row
<1>4. QED
  BY <1>1, <1>2, <1>3, SearchRow, OneSearchMoves

LEMMA ReadsInv ==
  ASSUME PlacementInv, NEW o \in OrderIds, SearchFails(o) \/ Unpaid(o) \/ Paid(o)
  PROVE  PlacementInv'
<1>1. PICK new \in OrderReads \ {"none"} : orderRows' = [orderRows EXCEPT ![o].reads = new]
  BY DEF SearchFails, Unpaid, Paid, OrderReads
<1> DEFINE row == [orderRows[o] EXCEPT !.reads = new]
           over == [searches[o] EXCEPT !.at = "over"]
<1>2. /\ row \in PlacedOrder /\ row.estimate = orderRows[o].estimate /\ row.reads # "none"
      /\ row.list = orderRows[o].list /\ row.hasJobId = orderRows[o].hasJobId
  BY SearchRow DEF PlacedOrder
<1>3. orderRows' = [orderRows EXCEPT ![o] = row] /\ UNCHANGED <<valid, placings, placed, halfPlaced, early>>
  BY <1>1, SearchRow DEF SearchFails, Unpaid, Paid
<1>4. /\ over \in Search /\ over.at = "over" /\ over.list = searches[o].list
      /\ over.hasJobId = searches[o].hasJobId
  BY SearchRow DEF Search
<1> HIDE DEF row
<1>5. CASE SearchFails(o)
  <2>1. searches' = [searches EXCEPT ![o] = over] /\ searches[o].at = "failing"
    BY <1>5, SearchRow DEF SearchFails
  <2> HIDE DEF over
  <2>2. QED
    BY <1>2, <1>3, <1>4, <2>1, SearchRow, OneSearchMoves
<1>6. CASE Unpaid(o) \/ Paid(o)
  <2>1. searches' = [searches EXCEPT ![o] = searches[o]]
    BY <1>6, SearchRow DEF Unpaid, Paid
  <2>2. QED
    BY <1>2, <1>3, <2>1, SearchRow, OneSearchMoves
<1>7. QED
  BY <1>5, <1>6

\* A crash leaves an order half placed when its request was between the save and the job.
LEMMA PlacementCrashInv ==
  ASSUME PlacementInv, PlacementCrash
  PROVE  PlacementInv'
<1> DEFINE dying == {placings[r].order : r \in {r \in PlaceSlots : placings[r].at \in {"status", "queue"}}}
           Crashed(o) == IF ~Searching(o) THEN searches[o]
                         ELSE [searches[o] EXCEPT
                                 !.at = IF searches[o].stalled THEN "over" ELSE "queued",
                                 !.stalled = TRUE]
<1>1. /\ OrderIds = 1..Len(orderRows) /\ Len(orderRows) \in Nat /\ Len(searches) = Len(orderRows)
      /\ \A o \in OrderIds : searches[o] \in Search
  BY SearchRow, TableDomains DEF PlacementInv, PlacementTypeOK
<1>2. /\ UNCHANGED <<valid, orderRows, placed, early>>
      /\ searches' = [o \in OrderIds |-> Crashed(o)]
      /\ halfPlaced' = halfPlaced \cup dying
      /\ placings' = [r \in PlaceSlots |-> NoPlacing]
  BY DEF PlacementCrash
<1>3. ASSUME NEW o \in OrderIds
      PROVE  /\ Crashed(o) \in Search /\ (Crashed(o).at = "none" <=> searches[o].at = "none")
             /\ Crashed(o).at \notin {"none", "queued"} => searches[o].at \notin {"none", "queued"}
             /\ Crashed(o).list = searches[o].list /\ Crashed(o).hasJobId = searches[o].hasJobId
  BY <1>1 DEF Search, Searching
<1>4. OrderIds' = OrderIds /\ Estimates' = Estimates /\ dying \subseteq OrderIds
  BY <1>2 DEF OrderIds, Estimates, PlacementInv, PlacingFits
<1> HIDE DEF dying, Crashed
<1>5. searches' \in Seq(Search) /\ Len(searches') = Len(orderRows)
  BY <1>1, <1>2, <1>3
<1>6. /\ NoPlacing \in Placing /\ NoPlacing.at = "idle" /\ NoPlacing.order = 0
      /\ \A r \in PlaceSlots : placings'[r] = NoPlacing
  <2>1. NoPlacing \in Placing /\ NoPlacing.at = "idle" /\ NoPlacing.order = 0
    BY NoPlacingFits DEF PlacingFits, NoPlacing
  <2>2. QED
    BY <1>2, <2>1
<1>7. PlacementTypeOK'
  BY <1>2, <1>4, <1>5, <1>6 DEF PlacementInv, PlacementTypeOK
<1>8. (\A r \in PlaceSlots : PlacingFits(placings[r])') /\ OwnOrder'
  BY <1>6 DEF PlacingFits, OwnOrder
<1>9. \A o \in OrderIds : PlacingFor(o)' = {}
  BY <1>1, <1>6 DEF PlacingFor
<1>10. OneOrderPerEstimate'
  BY <1>2 DEF PlacementInv, OrdersInv, OneOrderPerEstimate, OrderIds
<1>11. ASSUME NEW o \in OrderIds
       PROVE  /\ searches'[o].at # "none" => orderRows'[o].reads # "none"
              /\ o \notin halfPlaced' => searches'[o].at # "none"
  <2>1. searches'[o].at = "none" <=> searches[o].at = "none"
    BY <1>2, <1>3
  <2>2. ASSUME o \notin halfPlaced', searches[o].at = "none"
        PROVE  FALSE
    <3>1. PICK r \in PlaceSlots : placings[r].order = o
      BY <1>2, <2>2 DEF PlacementInv, OrdersInv, PlacedAndQueued, PlacingFor
    <3>2. placings[r].at \in {"status", "queue"}
      BY <1>1, <2>2, <3>1 DEF PlacementInv, PlacingFits, Placing
    <3>3. QED
      BY <1>2, <2>2, <3>1, <3>2 DEF dying
  <2>3. QED
    BY <1>2, <2>1, <2>2 DEF PlacementInv, OrdersInv, PlacedAndQueued
<1>12. PlacedAndQueued'
  BY <1>4, <1>11 DEF PlacedAndQueued
<1>13. SearchAgrees'
  <2>1. ASSUME NEW o \in OrderIds, o \notin early, searches'[o].at \notin {"none", "queued"}
        PROVE  searches'[o].hasJobId = orderRows[o].hasJobId /\ searches'[o].list = orderRows[o].list
    <3>1. searches[o].at \notin {"none", "queued"}
      BY <1>2, <1>3, <2>1
    <3>2. QED
      BY <1>2, <1>3, <2>1, <3>1, SearchRow
  <2>2. QED
    BY <1>2, <1>4, <1>9, <2>1 DEF SearchAgrees
<1>14. QED
  BY <1>7, <1>8, <1>10, <1>12, <1>13 DEF PlacementInv, OrdersInv

LEMMA PlacementInitInv == PlacementInit => PlacementInv
<1> SUFFICES ASSUME PlacementInit PROVE PlacementInv
  OBVIOUS
<1>1. NoPlacing \in Placing /\ PlacingFits(NoPlacing) /\ NoPlacing.order = 0
  BY NoPlacingFits DEF PlacingFits, NoPlacing
<1>2. OrderIds = {}
  BY DEF PlacementInit, OrderIds
<1>3. PlacementTypeOK
  BY <1>1, <1>2, PlacementLimitsAssumption DEF PlacementInit, PlacementTypeOK
<1>4. QED
  BY <1>1, <1>2, <1>3 DEF PlacementInit, PlacementInv, OwnOrder, OrdersInv, OneOrderPerEstimate,
                          PlacedAndQueued, SearchAgrees

LEMMA PlacementNextInv ==
  ASSUME PlacementInv, [PlacementNext]_placementVars
  PROVE  PlacementInv'
<1>1. CASE UNCHANGED placementVars
  BY <1>1 DEF placementVars, PlacementInv, PlacementTypeOK, PlacingFits, OwnOrder, OrdersInv,
              OneOrderPerEstimate, PlacedAndQueued, SearchAgrees, PlacingFor, OrderIds, Estimates
<1>2. CASE Estimated \/ \E e \in Estimates : EstimateExpires(e)
  BY <1>2, EstimatesInv
<1>3. CASE PlacementCrash
  BY <1>3, PlacementCrashInv
<1>4. ASSUME NEW r \in PlaceSlots, PlacementStep(r) PROVE PlacementInv'
  BY <1>4, FindsInv, FindEstimateInv, InsertOrderInv, MarkPlacedInv, QueueSearchInv,
     FreeWorkersNowInv, SaveStoredOrderInv DEF PlacementStep
<1>5. ASSUME NEW o \in OrderIds, SearchStep(o) PROVE PlacementInv'
  BY <1>5, StartSearchInv, SearchStatusInv, SearchListsInv, SearchSavesInv, ReadsInv DEF SearchStep
<1>6. QED
  BY <1>1, <1>2, <1>3, <1>4, <1>5 DEF PlacementNext

LEMMA PlacementInvAlways == PlacementSpec => []PlacementInv
<1>1. PlacementInit => PlacementInv
  BY PlacementInitInv
<1>2. PlacementInv /\ [PlacementNext]_placementVars => PlacementInv'
  BY PlacementNextInv
<1>3. QED
  BY <1>1, <1>2, PTL DEF PlacementSpec

(***************************************************************************)
(* The lists of workers.  Only the search's last save lists the willing    *)
(* ones, and after it nothing but the request's last save comes.           *)
(***************************************************************************)
ListsFit(s, row) ==
  /\ s.at # "over" => s.list # "willing" /\ row.list # "willing"
  /\ s.at = "over" /\ s.list = "willing" => row.list # "none"

ListsInOrder == \A o \in OrderIds : ListsFit(searches[o], orderRows[o])

LEMMA ListsMove ==
  ASSUME PlacementInv, ListsInOrder, NEW o \in OrderIds, NEW s, NEW row,
         searches' = [searches EXCEPT ![o] = s],
         orderRows' = [orderRows EXCEPT ![o] = row],
         ListsFit(searches[o], orderRows[o]) => ListsFit(s, row)
  PROVE  ListsInOrder'
<1>1. /\ OrderIds' = OrderIds
      /\ \A p \in OrderIds : /\ orderRows'[p] = IF p = o THEN row ELSE orderRows[p]
                             /\ searches'[p] = IF p = o THEN s ELSE searches[p]
  BY SearchRow DEF OrderIds
<1>2. QED
  BY <1>1 DEF ListsInOrder

LEMMA RequestLists ==
  ASSUME PlacementInv, ListsInOrder, NEW r \in PlaceSlots, PlacementStep(r)
  PROVE  ListsInOrder'
<1> DEFINE o == placings[r].order
<1>1. CASE MarkPlaced(r) \/ QueueSearch(r) \/ SaveStoredOrder(r)
  <2>1. o \in OrderIds /\ searches[o] \in Search /\ orderRows[o] \in PlacedOrder
    BY <1>1, PlacingNow, SearchRow DEF PlacingFits, PlacingAt, MarkPlaced, QueueSearch, SaveStoredOrder
  <2>2. CASE MarkPlaced(r)
    <3> DEFINE row == [orderRows[o] EXCEPT !.reads = "placed"]
    <3>1. orderRows' = [orderRows EXCEPT ![o] = row] /\ searches' = [searches EXCEPT ![o] = searches[o]]
      BY <2>1, <2>2, SearchRow DEF MarkPlaced
    <3>2. row.list = orderRows[o].list
      BY <2>1 DEF PlacedOrder
    <3> HIDE DEF row
    <3>3. QED
      BY <2>1, <3>1, <3>2, ListsMove DEF ListsFit
  <2>3. CASE QueueSearch(r)
    <3> DEFINE s == [searches[o] EXCEPT !.at = "queued"]
    <3>1. /\ orderRows' = [orderRows EXCEPT ![o] = orderRows[o]]
          /\ \/ searches' = [searches EXCEPT ![o] = s]
             \/ searches' = [searches EXCEPT ![o] = searches[o]]
      BY <2>1, <2>3, SearchRow DEF QueueSearch
    <3>2. searches[o].at = "none"
      BY <2>3, PlacingNow DEF PlacingFits, PlacingAt, QueueSearch
    <3>3. s.at = "queued" /\ s.list = searches[o].list
      BY <2>1 DEF Search
    <3> HIDE DEF s
    <3>4. ListsFit(searches[o], orderRows[o]) => ListsFit(s, orderRows[o])
      BY <3>2, <3>3 DEF ListsFit
    <3>5. QED
      BY <2>1, <3>1, <3>4, ListsMove
  <2>4. CASE SaveStoredOrder(r)
    <3> DEFINE row == [orderRows[o] EXCEPT !.list = "free", !.hasJobId = TRUE]
    <3>1. orderRows' = [orderRows EXCEPT ![o] = row] /\ searches' = [searches EXCEPT ![o] = searches[o]]
      BY <2>1, <2>4, SearchRow DEF SaveStoredOrder
    <3>2. row.list = "free"
      BY <2>1 DEF PlacedOrder
    <3> HIDE DEF row
    <3>3. QED
      BY <2>1, <3>1, <3>2, ListsMove DEF ListsFit
  <2>5. QED
    BY <1>1, <2>2, <2>3, <2>4
<1>2. CASE InsertOrder(r)
  <2>1. CASE UNCHANGED <<orderRows, searches>>
    BY <2>1 DEF ListsInOrder, OrderIds
  <2>2. CASE /\ orderRows' = Append(orderRows, NewOrder(placings[r].estimate))
             /\ searches' = Append(searches, NoSearch)
    <3>1. /\ orderRows \in Seq(PlacedOrder) /\ searches \in Seq(Search)
          /\ Len(searches) = Len(orderRows) /\ OrderIds = 1..Len(orderRows)
      BY SearchRow, TableDomains DEF PlacementInv, PlacementTypeOK
    <3>2. ListsFit(NoSearch, NewOrder(placings[r].estimate))
      BY DEF ListsFit, NoSearch, NewOrder
    <3>3. /\ OrderIds' = 1..(Len(orderRows) + 1)
          /\ \A p \in OrderIds : orderRows'[p] = orderRows[p] /\ searches'[p] = searches[p]
          /\ orderRows'[Len(orderRows) + 1] = NewOrder(placings[r].estimate)
          /\ searches'[Len(orderRows) + 1] = NoSearch
      BY <2>2, <3>1 DEF OrderIds
    <3>4. \A p \in OrderIds' : p \in OrderIds \/ p = Len(orderRows) + 1
      BY <3>1, <3>3
    <3>5. QED
      BY <3>2, <3>3, <3>4 DEF ListsInOrder
  <2>3. QED
    BY <1>2, <2>1, <2>2 DEF InsertOrder
<1>3. CASE UNCHANGED <<orderRows, searches>>
  BY <1>3 DEF ListsInOrder, OrderIds
<1>4. QED
  BY <1>1, <1>2, <1>3 DEF PlacementStep, PlaceOrder, FindUnpaid, FindEstimate, FindOrdered, FindArea,
    FreeWorkersNow

LEMMA SearchStepLists ==
  ASSUME PlacementInv, ListsInOrder, NEW o \in OrderIds, SearchStep(o)
  PROVE  ListsInOrder'
<1> DEFINE Loaded(next) == [searches[o] EXCEPT !.at = next, !.list = orderRows[o].list,
                                               !.hasJobId = orderRows[o].hasJobId]
           Went(a) == [searches[o] EXCEPT !.at = a]
<1>1. searches[o] \in Search /\ orderRows[o] \in PlacedOrder /\ ListsFit(searches[o], orderRows[o])
  BY SearchRow DEF ListsInOrder
<1>2. /\ \A a : Went(a).at = a /\ Went(a).list = searches[o].list
      /\ \A a : Loaded(a).at = a /\ Loaded(a).list = orderRows[o].list
  BY <1>1 DEF Search
<1>3. /\ searches' = [searches EXCEPT ![o] = searches'[o]]
      /\ orderRows' = [orderRows EXCEPT ![o] = orderRows'[o]]
  BY SearchRow DEF SearchStep, StartSearch, SearchLoads, SearchStatus, SearchLists, SearchSaves,
    SearchFails, Unpaid, Paid
<1>4. ListsFit(searches'[o], orderRows'[o])
  <2>1. CASE StartSearch(o)
    <3>1. searches'[o] = Loaded("status") /\ orderRows'[o] = orderRows[o] /\ searches[o].at = "queued"
      BY <2>1, SearchRow DEF StartSearch, SearchLoads
    <3> HIDE DEF Loaded
    <3>2. QED
      BY <1>1, <1>2, <3>1 DEF ListsFit
  <2>2. CASE SearchStatus(o)
    <3>1. /\ searches'[o] = Went("lists") /\ orderRows'[o].list = searches[o].list
          /\ searches[o].at = "status"
      BY <1>1, <2>2, SearchRow DEF SearchStatus, PlacedOrder
    <3> HIDE DEF Went
    <3>2. QED
      BY <1>1, <1>2, <3>1 DEF ListsFit
  <2>3. CASE SearchLists(o)
    <3>1. /\ orderRows'[o] = orderRows[o] /\ searches[o].at = "lists"
          /\ \/ \E next \in {"save", "failing"} : searches'[o] = Loaded(next)
             \/ searches'[o] = Went("over")
      BY <2>3, SearchRow DEF SearchLists, SearchLoads
    <3> HIDE DEF Loaded, Went
    <3>2. QED
      BY <1>1, <1>2, <3>1 DEF ListsFit
  <2>4. CASE SearchSaves(o)
    <3>1. searches'[o].at = "over" /\ orderRows'[o].list = "willing"
      BY <1>1, <2>4, SearchRow DEF SearchSaves, PlacedOrder, Search
    <3>2. QED
      BY <3>1 DEF ListsFit
  <2>5. CASE SearchFails(o) \/ Unpaid(o) \/ Paid(o)
    <3>1. orderRows'[o].list = orderRows[o].list
      BY <1>1, <2>5, SearchRow DEF SearchFails, Unpaid, Paid, PlacedOrder
    <3>2. \/ searches'[o] = searches[o]
          \/ searches'[o] = Went("over") /\ searches[o].at = "failing"
      BY <2>5, SearchRow DEF SearchFails, Unpaid, Paid
    <3> HIDE DEF Went
    <3>3. QED
      BY <1>1, <1>2, <3>1, <3>2 DEF ListsFit
  <2>6. QED
    BY <2>1, <2>2, <2>3, <2>4, <2>5 DEF SearchStep
<1>5. QED
  BY <1>3, <1>4, ListsMove

LEMMA ListsNext ==
  ASSUME PlacementInv, ListsInOrder, [PlacementNext]_placementVars
  PROVE  ListsInOrder'
<1>1. CASE PlacementCrash
  <2>1. UNCHANGED orderRows /\ OrderIds' = OrderIds
    BY <1>1 DEF PlacementCrash, OrderIds
  <2>2. ASSUME NEW o \in OrderIds PROVE ListsFit(searches'[o], orderRows'[o])
    <3>1. searches[o] \in Search /\ ListsFit(searches[o], orderRows[o])
      BY SearchRow DEF ListsInOrder
    <3>2. \/ searches'[o] = searches[o]
          \/ /\ searches'[o].at \in {"over", "queued"} /\ searches[o].at # "over"
             /\ searches'[o].list = searches[o].list
      BY <1>1, <3>1 DEF PlacementCrash, Searching, Search
    <3>3. QED
      BY <2>1, <3>1, <3>2 DEF ListsFit
  <2>3. QED
    BY <2>1, <2>2 DEF ListsInOrder
<1>2. CASE Estimated \/ (\E e \in Estimates : EstimateExpires(e)) \/ UNCHANGED placementVars
  BY <1>2 DEF Estimated, EstimateExpires, placementVars, ListsInOrder, OrderIds
<1>3. QED
  BY <1>1, <1>2, RequestLists, SearchStepLists DEF PlacementNext

(***************************************************************************)
(* Theorems.                                                               *)
(***************************************************************************)
\* Every reachable state of placeOrder beside the searches is well-typed.
THEOREM PlacementTypeCorrect == PlacementSpec => []PlacementTypeOK
<1>1. PlacementInv => PlacementTypeOK
  BY DEF PlacementInv
<1>2. QED
  BY <1>1, PlacementInvAlways, PTL

\* However many placeOrder requests overlap, and whatever crashes between their awaits,
\* no estimate is ordered twice.
THEOREM EstimateOrderedOnce == PlacementSpec => []OneOrderPerEstimate
<1>1. PlacementInv => OneOrderPerEstimate
  BY DEF PlacementInv, OrdersInv
<1>2. QED
  BY <1>1, PlacementInvAlways, PTL

\* No job of an order runs before the order has a status row, and an order whose request
\* has ended has its job, unless the request died between its save and its job.
THEOREM StatusBeforeJob == PlacementSpec => []PlacedAndQueued
<1>1. PlacementInv => PlacedAndQueued
  BY DEF PlacementInv, OrdersInv
<1>2. QED
  BY <1>1, PlacementInvAlways, PTL

\* However placeOrder's last save overlaps those of the search, for any number of orders
\* and process ends, an order whose first call is queued lists workers to ring, and lists
\* all the free ones only if the search began before the request had ended.
THEOREM WorkersAlwaysListed == PlacementSpec => []WorkersListed
<1>1. PlacementInit => ListsInOrder
  BY DEF PlacementInit, ListsInOrder, OrderIds
<1>2. PlacementInv /\ ListsInOrder /\ [PlacementNext]_placementVars => ListsInOrder'
  BY ListsNext
<1>3. PlacementInv /\ ListsInOrder => WorkersListed
  <2> SUFFICES ASSUME PlacementInv, ListsInOrder, NEW o \in OrderIds, searches[o].at = "over",
                      searches[o].list = "willing"
               PROVE  orderRows[o].list = "willing" \/ (orderRows[o].list = "free" /\ o \in early)
    BY DEF WorkersListed
  <2>1. orderRows[o].list \in {"free", "willing"}
    BY SearchRow DEF ListsInOrder, ListsFit, PlacedOrder, WorkerListings
  <2>2. o \notin early => orderRows[o].list = "willing"
    BY SearchRow
  <2>3. QED
    BY <2>1, <2>2
<1>4. QED
  BY <1>1, <1>2, <1>3, PlacementInvAlways, PTL DEF PlacementSpec

(***************************************************************************)
(* Scheduling.                                                             *)
(***************************************************************************)
\* A time is a day, an hour, a minute and a second.
DayNumber(t)   == t \div 86400
HourOfDay(t)   == (t \div 3600) % 24
MinuteOfHour(t) == (t \div 60) % 60
SecondOfMinute(t) == t % 60

LEMMA TimeParts ==
  ASSUME NEW t \in Nat
  PROVE  /\ DayNumber(t) \in Nat /\ HourOfDay(t) \in 0..23 /\ MinuteOfHour(t) \in 0..59
         /\ t = 86400 * DayNumber(t) + 3600 * HourOfDay(t) + 60 * MinuteOfHour(t) + SecondOfMinute(t)
         /\ SecondOfMinute(t) \in 0..59
         /\ HHMM(t) = 100 * HourOfDay(t) + MinuteOfHour(t)
         /\ Midnight(t) = 86400 * DayNumber(t)
<1>1. DayNumber(t) \in Nat /\ HourOfDay(t) \in 0..23 /\ MinuteOfHour(t) \in 0..59 /\ SecondOfMinute(t) \in 0..59
  BY DEF DayNumber, HourOfDay, MinuteOfHour, SecondOfMinute
<1>2. t = 86400 * DayNumber(t) + 3600 * HourOfDay(t) + 60 * MinuteOfHour(t) + SecondOfMinute(t)
  <2> DEFINE k == t \div 86400
             h == (t \div 3600) % 24
             m == (t \div 60) % 60
             s == t % 60
  <2>1. t = 86400 * k + 3600 * h + 60 * m + s
    OBVIOUS
  <2> QED BY ONLY <2>1 DEF DayNumber, HourOfDay, MinuteOfHour, SecondOfMinute
<1>3. Hour = 3600 /\ Day = 86400 /\ Minute = 60
  BY DEF Day, Hour, Minute
<1>4. HHMM(t) = 100 * HourOfDay(t) + MinuteOfHour(t)
  BY <1>3 DEF HHMM, HourOfDay, MinuteOfHour
<1>5. Midnight(t) = DayNumber(t) * 86400
  BY <1>3 DEF Midnight, DayOf, DayNumber
<1>6. DayNumber(t) * 86400 = 86400 * DayNumber(t)
  BY <1>1
<1> QED BY <1>1, <1>2, <1>4, <1>5, <1>6

TimeAt(k, h, m) == 86400 * k + 3600 * h + 60 * m

LEMMA TimeOf ==
  ASSUME NEW k \in Nat, NEW h \in 0..23, NEW m \in 0..59
  PROVE  TimeAt(k, h, m) \in Nat /\ HHMM(TimeAt(k, h, m)) = 100 * h + m
<1> DEFINE t == 86400 * k + 3600 * h + 60 * m
<1>1. t \div 3600 = 24 * k + h
  OBVIOUS
<1>2. t \div 60 = 60 * (24 * k + h) + m
  OBVIOUS
<1>3. (24 * k + h) % 24 = h
  OBVIOUS
<1>4. (60 * (24 * k + h) + m) % 60 = m
  OBVIOUS
<1>5. Hour = 3600 /\ Minute = 60
  BY DEF Hour, Minute
<1>6. HHMM(t) = 100 * ((t \div 3600) % 24) + ((t \div 60) % 60)
  BY <1>5 DEF HHMM
<1>7. t \in Nat /\ HHMM(t) = 100 * h + m
  BY <1>1, <1>2, <1>3, <1>4, <1>6
<1> HIDE DEF t
<1>8. TimeAt(k, h, m) = t
  BY DEF TimeAt, t
<1> QED BY <1>7, <1>8

\* A search that is not allowed now starts at the first allowed minute: dh:dm of today
\* or, in the evening, of tomorrow.
LEMMA SearchDelayRight ==
  ASSUME NEW now \in Nat
  PROVE  LET start == now + SearchDelay(now) IN
         IF AllowedToSearch(now) THEN start = now + MinimumSearchDelay
         ELSE /\ AllowedToSearch(start)
              /\ \A m \in (now \div Minute)..(start \div Minute - 1) : ~AllowedToSearch(m * Minute)
<1>1. CASE AllowedToSearch(now)
  BY <1>1 DEF AllowedToSearch, SearchDelay
<1>2. CASE ~AllowedToSearch(now)
  <2> DEFINE k == DayNumber(now)
             h == HourOfDay(now)
             m == MinuteOfHour(now)
             s == SecondOfMinute(now)
  <2>1. /\ k \in Nat /\ h \in 0..23 /\ m \in 0..59 /\ s \in 0..59
        /\ now = 86400 * k + 3600 * h + 60 * m + s
        /\ HHMM(now) = 100 * h + m /\ Midnight(now) = 86400 * k
    BY TimeParts
  <2> HIDE DEF k, h, m, s
  <2>2. PICK dh \in 0..23, dm \in 0..59 : DayStartTime = 100 * dh + dm /\ DayStartTime \div 100 = dh /\ DayStartTime % 100 = dm
    BY HoursAssumption DEF IsHHMM
  <2>3. DayEndTime \in Nat /\ DayStartTime \in Nat /\ DayStartTime <= DayEndTime
    BY HoursAssumption DEF IsHHMM
  <2>4. h \in 0..23 /\ m \in 0..59 /\ dh \in 0..23 /\ dm \in 0..59
    BY <2>1, <2>2
  <2> DEFINE late == HHMM(now) > DayEndTime
             day == IF late THEN k + 1 ELSE k
             start == 86400 * day + 3600 * dh + 60 * dm
  <2>5. late \/ HHMM(now) < DayStartTime
    BY <1>2, <2>1, <2>3 DEF AllowedToSearch
  <2>6. day \in Nat
    BY <2>1
  <2>7. start \in Nat /\ HHMM(start) = DayStartTime
    <3> HIDE DEF day
    <3>1. TimeAt(day, dh, dm) \in Nat /\ HHMM(TimeAt(day, dh, dm)) = 100 * dh + dm
      BY <2>4, <2>6, TimeOf
    <3>2. start = TimeAt(day, dh, dm)
      BY DEF TimeAt
    <3> HIDE DEF start
    <3> QED BY <2>2, <3>1, <3>2
  <2>8. now < start
    <3>1. CASE late
      BY <3>1, <2>1, <2>2
    <3>2. CASE ~late
      <4>1. 100 * h + m < 100 * dh + dm
        BY <3>2, <2>1, <2>2, <2>5
      <4>2. 60 * h + m < 60 * dh + dm
        BY ONLY <2>4, <4>1
      <4> QED BY <3>2, <4>2, <2>1, <2>2
    <3> QED BY <3>1, <3>2
  <2>9. now + SearchDelay(now) = start
    <3>1. SearchDelay(now) = start - now
      BY <1>2, <2>1, <2>2, <2>3, <2>5 DEF AllowedToSearch, SearchDelay, AtHHMM, Day, Hour, Minute
    <3> QED BY <3>1, <2>7
  <2>10. AllowedToSearch(start)
    BY <2>3, <2>7 DEF AllowedToSearch
  <2>11. (late /\ day = k + 1) \/ (~late /\ day = k)
    OBVIOUS
  <2> HIDE DEF late, day
  <2>12. ASSUME NEW n \in (now \div 60)..(start \div 60 - 1) PROVE ~AllowedToSearch(n * 60)
    <3>1. n \in Nat /\ n * 60 \in Nat
      BY <2>7
    <3> DEFINE l == DayNumber(n * 60)
               i == HourOfDay(n * 60)
               j == MinuteOfHour(n * 60)
               z == SecondOfMinute(n * 60)
    <3>2. /\ l \in Nat /\ i \in 0..23 /\ j \in 0..59
          /\ n * 60 = 86400 * l + 3600 * i + 60 * j + z
          /\ z \in 0..59 /\ HHMM(n * 60) = 100 * i + j
      BY <3>1, TimeParts
    <3> HIDE DEF l, i, j, z
    <3>3. i \in 0..23 /\ j \in 0..59
      BY <3>2
    <3>4. n = 1440 * l + 60 * i + j
      BY <3>1, <3>2
    <3>5. now \div 60 = 1440 * k + 60 * h + m
      BY <2>1
    <3>6. start \div 60 = 1440 * day + 60 * dh + dm
      BY <2>2, <2>6
    <3>7. 1440 * k + 60 * h + m <= 1440 * l + 60 * i + j /\ 1440 * l + 60 * i + j < 1440 * day + 60 * dh + dm
      BY <3>1, <3>4, <3>5, <3>6, <2>7
    <3>8. CASE late /\ l = k
      <4>1. 60 * h + m <= 60 * i + j
        BY <2>1, <3>2, <3>7, <3>8
      <4>2. 100 * h + m <= 100 * i + j
        BY ONLY <2>4, <3>3, <4>1
      <4>3. HHMM(n * 60) > DayEndTime
        BY <4>2, <3>2, <3>8, <2>1, <2>3 DEF late
      <4> QED BY <4>3, <3>2, <2>3 DEF AllowedToSearch
    <3>9. CASE l = day
      <4>1. 60 * i + j < 60 * dh + dm
        BY <3>2, <3>7, <3>9, <2>2, <2>6
      <4>2. 100 * i + j < 100 * dh + dm
        BY ONLY <2>4, <3>3, <4>1
      <4>3. HHMM(n * 60) < DayStartTime
        BY <4>2, <3>2, <2>2
      <4> QED BY <4>3, <3>2, <2>3 DEF AllowedToSearch
    <3>10. (late /\ l = k) \/ l = day
      <4>1. k <= l
        BY <2>1, <3>2, <3>7
      <4>2. l <= day
        BY <3>2, <3>7, <2>6, <2>2
      <4> QED BY <4>1, <4>2, <2>1, <2>11, <3>2
    <3> QED BY <3>8, <3>9, <3>10
  <2> HIDE DEF start
  <2> QED BY <1>2, <2>9, <2>10, <2>12 DEF Minute
<1> QED BY <1>1, <1>2

LEMMA QuestionsAsked == SchedulingSpec => []SchedulingTypeOK
<1>1. SchedulingInit => SchedulingTypeOK
  BY DEF SchedulingInit, SchedulingTypeOK
<1>2. SchedulingTypeOK /\ [SchedulingNext]_schedulingVars => SchedulingTypeOK'
  BY DEF SchedulingTypeOK, SchedulingNext, Ask, schedulingVars
<1> QED BY <1>1, <1>2, PTL DEF SchedulingSpec

\* Whatever the hours of the environment are, and at whatever second a search is asked
\* for, it starts after the minimum delay when searches are allowed, and otherwise at the
\* first minute they are (getSearchDelay).
THEOREM SearchTimeRight == SchedulingSpec => []SearchStartsWhenAllowed
<1>1. ASSUME SchedulingTypeOK PROVE SearchStartsWhenAllowed
  <2>1. ASSUME asked.about = "search" PROVE asked \in SearchQuestion
    BY <1>1, <2>1 DEF SchedulingTypeOK, NoQuestion, OrderQuestion
  <2>2. ASSUME asked.about = "search" PROVE asked.now \in Nat
    BY <2>1, <2>2, QuestionsAssumption DEF SearchQuestion
  <2>3. PICK now : now = asked.now
    OBVIOUS
  <2> QED BY <2>2, <2>3, SearchDelayRight DEF SearchStartsWhenAllowed
<1> QED BY <1>1, QuestionsAsked, PTL

\* The same time of day, so many days later.
LEMMA DayLater ==
  ASSUME NEW t \in Nat, NEW k \in Nat
  PROVE  /\ k * Day \in Nat /\ t + k * Day \in Nat /\ DayOf(t) \in Nat
         /\ DayOf(t + k * Day) = DayOf(t) + k
         /\ Midnight(t + k * Day) = Midnight(t) + k * Day
<1>1. Day = 86400
  BY DEF Day, Hour, Minute
<1>2. DayOf(t + k * Day) = DayOf(t) + k /\ DayOf(t) \in Nat
  BY <1>1 DEF DayOf
<1>3. k * Day \in Nat /\ t + k * Day \in Nat
  BY <1>1
<1>4. Midnight(t + k * Day) = Midnight(t) + k * Day
  BY <1>1, <1>2 DEF Midnight
<1>5. QED
  BY <1>2, <1>3, <1>4

\* A set of numbers closed under the next one holds every number.
LEMMA Counting ==
  ASSUME NEW T, T \subseteq Nat, 0 \in T, \A n \in T : n + 1 \in T
  PROVE  T = Nat
<1> DEFINE Less == OpToRel(<, Nat)
<1>1. IsWellFoundedOn(Less, Nat)
  BY NatLessThanWellFounded
<1>2. \A x, y \in Nat : y < x => <<y, x>> \in Less
  BY DEF OpToRel
<1> HIDE DEF Less
<1>3. SUFFICES ASSUME Nat \ T # {} PROVE FALSE
  OBVIOUS
<1>4. PICK x \in Nat \ T : \A y \in Nat \ T : ~(<<y, x>> \in Less)
  BY <1>1, <1>3, WFMin
<1>5. x \in Nat /\ x \notin T /\ x # 0
  OBVIOUS
<1>6. PICK y \in Nat : x = y + 1
  BY <1>5
<1>7. y \in T
  <2>1. y < x
    BY <1>6
  <2>2. <<y, x>> \in Less
    BY <1>2, <1>5, <2>1
  <2>3. QED
    BY <1>4, <2>2
<1>8. QED
  BY <1>5, <1>6, <1>7

\* The recursive function of WorkDates: what it is after m turns.
IsTurns(f, m, start, count, weekend) ==
  f = [n \in 0..m |-> IF n = 0 THEN << >>
                      ELSE OneDayOn(f[n - 1], start + n * Day, count, weekend)]

LEMMA TurnsExist ==
  ASSUME NEW start \in Nat, NEW count \in Nat, NEW weekend
  PROVE  \A m \in Nat : \E f : IsTurns(f, m, start, count, weekend)
<1> DEFINE T == {m \in Nat : \E f : IsTurns(f, m, start, count, weekend)}
<1>1. 0 \in T
  <2>1. PICK f : f = [n \in 0..0 |-> << >>]
    OBVIOUS
  <2>2. f = [n \in 0..0 |-> IF n = 0 THEN << >>
                            ELSE OneDayOn(f[n - 1], start + n * Day, count, weekend)]
    BY <2>1
  <2>3. QED
    BY <2>2 DEF IsTurns
<1>2. ASSUME NEW m \in T PROVE m + 1 \in T
  <2>1. PICK f : IsTurns(f, m, start, count, weekend)
    OBVIOUS
  <2>2. PICK last : last = OneDayOn(f[m], start + (m + 1) * Day, count, weekend)
    OBVIOUS
  <2>3. PICK g : g = [n \in 0..(m + 1) |-> IF n = m + 1 THEN last ELSE f[n]]
    OBVIOUS
  <2>4. ASSUME NEW n \in 0..(m + 1)
        PROVE  g[n] = IF n = 0 THEN << >>
                      ELSE OneDayOn(g[n - 1], start + n * Day, count, weekend)
    <3>1. CASE n = m + 1
      <4>1. g[n] = last /\ g[m] = f[m] /\ n # 0 /\ n - 1 = m
        BY <2>3, <3>1
      <4>2. QED
        BY <2>2, <3>1, <4>1
    <3>2. CASE n # m + 1
      <4>1. n \in 0..m /\ g[n] = f[n] /\ (n # 0 => g[n - 1] = f[n - 1])
        BY <2>3, <2>4, <3>2
      <4>2. QED
        BY <2>1, <4>1 DEF IsTurns
    <3>3. QED
      BY <3>1, <3>2
  <2>5. IsTurns(g, m + 1, start, count, weekend)
    BY <2>3, <2>4 DEF IsTurns
  <2>6. QED
    BY <2>5
<1> HIDE DEF T
<1>3. T = Nat
  <2>1. T \subseteq Nat
    BY DEF T
  <2>2. QED
    BY <1>1, <1>2, <2>1, Counting
<1>4. QED
  BY <1>3 DEF T

LEMMA WorkDatesTurns ==
  ASSUME NEW start \in Nat, NEW count \in Nat, NEW weekend
  PROVE  \E f : /\ IsTurns(f, 2 * count, start, count, weekend)
                /\ WorkDates(start, count, weekend) = f[2 * count]
<1> DEFINE f == CHOOSE f : IsTurns(f, 2 * count, start, count, weekend)
<1>1. IsTurns(f, 2 * count, start, count, weekend)
  BY TurnsExist
<1>2. WorkDates(start, count, weekend) = f[2 * count]
  BY DEF WorkDates, IsTurns
<1>3. QED
  BY <1>1, <1>2

\* The days the loop looks at, and which of them are worked on.
DayAfter(start, k) == start + k * Day

LEMMA DaysInOrder ==
  ASSUME NEW start \in Nat, NEW k \in Nat, NEW l \in Nat
  PROVE  DayAfter(start, k) \in Nat /\ (DayAfter(start, k) < DayAfter(start, l) <=> k < l)
<1>1. Day = 86400
  BY DEF Day, Hour, Minute
<1>2. QED
  BY <1>1 DEF DayAfter

WorkDay(t, weekend) == DayOf(t) % 7 # weekend

\* No two days in a row are the weekend.
LEMMA NoTwoWeekends ==
  ASSUME NEW start \in Nat, NEW n \in Nat, NEW weekend
  PROVE  WorkDay(DayAfter(start, n), weekend) \/ WorkDay(DayAfter(start, n + 1), weekend)
<1>1. PICK d \in Nat : d = DayOf(start)
  BY DayLater
<1>2. DayOf(DayAfter(start, n)) = d + n /\ DayOf(DayAfter(start, n + 1)) = d + n + 1
  <2>1. \A k \in Nat : DayOf(DayAfter(start, k)) = d + k
    BY <1>1, DayLater DEF DayAfter
  <2>2. n + 1 \in Nat
    OBVIOUS
  <2>3. DayOf(DayAfter(start, n + 1)) = d + (n + 1)
    BY <2>1, <2>2
  <2>4. QED
    BY <2>1, <2>3, <1>1
<1>3. (d + n) % 7 # (d + n + 1) % 7
  OBVIOUS
<1>4. QED
  BY <1>2, <1>3 DEF WorkDay

\* What the loop keeps: the work days so far in their order, none left out before
\* there are count of them, and of the days at least every other one.
LoopInv(dates, n, start, count, weekend) ==
  /\ dates \in Seq(Nat) /\ Len(dates) <= count
  /\ \A i \in DOMAIN dates : WorkDay(dates[i], weekend) /\ \E k \in 1..n : dates[i] = DayAfter(start, k)
  /\ \A i, j \in DOMAIN dates : i < j => dates[i] < dates[j]
  /\ \A k \in 1..n : WorkDay(DayAfter(start, k), weekend) =>
       \/ \E i \in DOMAIN dates : dates[i] = DayAfter(start, k)
       \/ \A i \in DOMAIN dates : Len(dates) = count /\ dates[i] < DayAfter(start, k)
  /\ \/ Len(dates) = count
     \/ n <= 2 * Len(dates)
     \/ n = 2 * Len(dates) + 1 /\ ~WorkDay(DayAfter(start, n), weekend)

LEMMA LoopStep ==
  ASSUME NEW start \in Nat, NEW count \in Nat, NEW weekend, NEW n \in Nat, NEW dates,
         LoopInv(dates, n, start, count, weekend)
  PROVE  LoopInv(OneDayOn(dates, DayAfter(start, n + 1), count, weekend), n + 1, start, count, weekend)
<1>1. PICK t \in Nat : t = DayAfter(start, n + 1)
  BY DaysInOrder
<1>2. \A i \in DOMAIN dates : dates[i] < t
  <2> TAKE i \in DOMAIN dates
  <2>1. PICK k \in 1..n : dates[i] = DayAfter(start, k)
    BY DEF LoopInv
  <2>2. QED
    BY <1>1, <2>1, DaysInOrder
<1>3. dates \in Seq(Nat) /\ Len(dates) \in Nat /\ DOMAIN dates = 1..Len(dates)
  BY DEF LoopInv
<1>4. 1..(n + 1) = 1..n \cup {n + 1}
  OBVIOUS
<1>5. CASE Len(dates) = count
  <2>1. OneDayOn(dates, t, count, weekend) = dates
    BY <1>5 DEF OneDayOn
  <2>2. LoopInv(dates, n + 1, start, count, weekend)
    BY <1>1, <1>2, <1>4, <1>5 DEF LoopInv
  <2>3. QED
    BY <1>1, <2>1, <2>2
<1>6. CASE Len(dates) # count /\ ~WorkDay(t, weekend)
  <2>1. OneDayOn(dates, t, count, weekend) = dates
    BY <1>6 DEF OneDayOn, WorkDay
  <2>2. n <= 2 * Len(dates)
    BY <1>1, <1>6, NoTwoWeekends DEF LoopInv
  <2>3. n + 1 <= 2 * Len(dates) \/ n + 1 = 2 * Len(dates) + 1
    BY <1>3, <2>2
  <2>4. LoopInv(dates, n + 1, start, count, weekend)
    BY <1>1, <1>4, <1>6, <2>3 DEF LoopInv
  <2>5. QED
    BY <1>1, <2>1, <2>4
<1>7. CASE Len(dates) # count /\ WorkDay(t, weekend)
  <2>1. OneDayOn(dates, t, count, weekend) = Append(dates, t)
    BY <1>7 DEF OneDayOn, WorkDay
  <2>2. PICK more : more = Append(dates, t)
    OBVIOUS
  <2>3. /\ more \in Seq(Nat) /\ Len(more) = Len(dates) + 1 /\ more[Len(dates) + 1] = t
        /\ DOMAIN more = 1..(Len(dates) + 1)
        /\ \A i \in DOMAIN dates : i \in DOMAIN more /\ more[i] = dates[i]
        /\ \A i \in DOMAIN more : i \in DOMAIN dates \/ i = Len(dates) + 1
    BY <1>1, <1>3, <2>2
  <2> DEFINE m == Len(dates)
  <2>m. m \in Nat /\ m < count /\ Len(more) = m + 1 /\ (n <= 2 * m \/ n = 2 * m + 1)
    <3>1. m \in Nat /\ m <= count /\ m # count /\ Len(more) = m + 1
      BY <1>3, <1>7, <2>3 DEF LoopInv
    <3>2. n <= 2 * m \/ n = 2 * m + 1
      BY <1>7 DEF LoopInv
    <3> HIDE DEF m
    <3>3. QED
      BY <3>1, <3>2
  <2>4. Len(more) <= count /\ n + 1 <= 2 * Len(more)
    <3> HIDE DEF m
    <3>1. QED
      BY <2>m
  <2>5. \A i \in DOMAIN more : WorkDay(more[i], weekend) /\ \E k \in 1..(n + 1) : more[i] = DayAfter(start, k)
    BY <1>1, <1>4, <1>7, <2>3 DEF LoopInv
  <2>6. \A i, j \in DOMAIN more : i < j => more[i] < more[j]
    <3> TAKE i, j \in DOMAIN more
    <3> HAVE i < j
    <3>1. i \in DOMAIN dates /\ (j \in DOMAIN dates \/ j = Len(dates) + 1)
      BY <1>3, <2>3
    <3>2. CASE j \in DOMAIN dates
      BY <2>3, <3>1, <3>2 DEF LoopInv
    <3>3. CASE j = Len(dates) + 1
      BY <1>2, <2>3, <3>1, <3>3
    <3>4. QED
      BY <3>1, <3>2, <3>3
  <2>7. \A k \in 1..(n + 1) : WorkDay(DayAfter(start, k), weekend) =>
          \E i \in DOMAIN more : more[i] = DayAfter(start, k)
    <3>1. ASSUME NEW k \in 1..n, WorkDay(DayAfter(start, k), weekend)
          PROVE  \E i \in DOMAIN more : more[i] = DayAfter(start, k)
      <4>1. CASE DOMAIN dates # {}
        BY <1>7, <2>3, <3>1, <4>1 DEF LoopInv
      <4>2. CASE DOMAIN dates = {}
        <5>1. Len(dates) = 0
          BY <1>3, <4>2
        <5>2. n = 1 /\ ~WorkDay(DayAfter(start, n), weekend)
          BY <1>7, <5>1 DEF LoopInv
        <5>3. QED
          BY <3>1, <5>2
      <4>3. QED
        BY <4>1, <4>2
    <3>2. QED
      BY <1>1, <1>4, <2>3, <3>1
  <2>9. LoopInv(more, n + 1, start, count, weekend)
    BY <2>3, <2>4, <2>5, <2>6, <2>7 DEF LoopInv
  <2>10. QED
    BY <1>1, <2>1, <2>2, <2>9
<1>8. QED
  BY <1>5, <1>6, <1>7

\* The loop ends with count dates.
LEMMA WorkDatesRight ==
  ASSUME NEW start \in Nat, NEW count \in Nat, NEW weekend
  PROVE  LET dates == WorkDates(start, count, weekend) IN
         LoopInv(dates, 2 * count, start, count, weekend) /\ Len(dates) = count
<1>1. PICK f : /\ IsTurns(f, 2 * count, start, count, weekend)
               /\ WorkDates(start, count, weekend) = f[2 * count]
  BY WorkDatesTurns
<1> DEFINE T == {n \in Nat : n <= 2 * count => LoopInv(f[n], n, start, count, weekend)}
<1>2. 0 \in T
  <2>1. f[0] = << >>
    BY <1>1 DEF IsTurns
  <2>2. LoopInv(<< >>, 0, start, count, weekend)
    BY DEF LoopInv
  <2>3. QED
    BY <2>1, <2>2
<1>3. ASSUME NEW n \in T PROVE n + 1 \in T
  <2>1. SUFFICES ASSUME n + 1 <= 2 * count PROVE LoopInv(f[n + 1], n + 1, start, count, weekend)
    OBVIOUS
  <2>2. LoopInv(f[n], n, start, count, weekend)
    BY <2>1
  <2>3. f[n + 1] = OneDayOn(f[n], DayAfter(start, n + 1), count, weekend)
    BY <1>1, <2>1 DEF IsTurns, DayAfter
  <2>4. QED
    BY <2>2, <2>3, LoopStep
<1>4. T = Nat
  <2>1. T \subseteq Nat
    OBVIOUS
  <2> HIDE DEF T
  <2>2. QED
    BY <1>2, <1>3, <2>1, Counting
<1>5. LoopInv(f[2 * count], 2 * count, start, count, weekend)
  <2>1. 2 * count \in T
    BY <1>4
  <2>2. QED
    BY <2>1
<1>6. Len(f[2 * count]) = count
  <2>1. PICK m : m = Len(f[2 * count])
    OBVIOUS
  <2>2. m \in Nat /\ m <= count /\ (m = count \/ 2 * count <= 2 * m + 1)
    BY <1>5, <2>1 DEF LoopInv
  <2>3. QED
    BY <2>1, <2>2
<1>7. QED
  BY <1>1, <1>5, <1>6

\* The dates: one per task, each so many days after the start, in their order, each on
\* a work day, and every work day until the last one among them.
DatesRight(dates, start, count, weekend) ==
  /\ dates \in Seq(Nat) /\ Len(dates) = count /\ DOMAIN dates = 1..count
  /\ \A i \in 1..count : /\ \E k \in Nat : k # 0 /\ dates[i] = DayAfter(start, k)
                         /\ DayOf(dates[i]) \in Nat /\ DayOf(dates[i]) > DayOf(start)
                         /\ WorkDay(dates[i], weekend)
  /\ \A i, j \in 1..count : i < j => DayOf(dates[i]) < DayOf(dates[j])
  /\ \A d \in Nat : DayOf(start) < d /\ d % 7 # weekend
                      /\ (\E j \in 1..count : d <= DayOf(dates[j]))
                    => \E i \in 1..count : d = DayOf(dates[i])

LEMMA DatesOfOrder ==
  ASSUME NEW start \in Nat, NEW count \in Nat, NEW weekend, NEW dates,
         dates = WorkDates(start, count, weekend)
  PROVE  DatesRight(dates, start, count, weekend)
<1>1. LoopInv(dates, 2 * count, start, count, weekend) /\ Len(dates) = count
  BY WorkDatesRight
<1>2. dates \in Seq(Nat) /\ DOMAIN dates = 1..count
  BY <1>1 DEF LoopInv
<1>3. PICK s \in Nat : s = DayOf(start)
  BY DayLater
<1>4. \A k \in Nat : DayOf(DayAfter(start, k)) = s + k
  BY <1>3, DayLater DEF DayAfter
<1>5. \A i \in 1..count : \E k \in Nat : k # 0 /\ k <= 2 * count /\ dates[i] = DayAfter(start, k)
  <2> TAKE i \in 1..count
  <2>1. PICK k \in 1..(2 * count) : dates[i] = DayAfter(start, k)
    BY <1>1, <1>2 DEF LoopInv
  <2>2. k \in Nat /\ k # 0 /\ k <= 2 * count
    BY <2>1
  <2>3. QED
    BY <2>1, <2>2
<1>6. ASSUME NEW i \in 1..count
      PROVE  /\ \E k \in Nat : k # 0 /\ dates[i] = DayAfter(start, k)
             /\ DayOf(dates[i]) \in Nat /\ DayOf(dates[i]) > DayOf(start)
             /\ WorkDay(dates[i], weekend)
  <2>1. PICK k \in Nat : k # 0 /\ dates[i] = DayAfter(start, k)
    BY <1>5
  <2>2. DayOf(dates[i]) = s + k
    BY <1>4, <2>1
  <2>3. WorkDay(dates[i], weekend)
    BY <1>1, <1>2 DEF LoopInv
  <2>4. QED
    BY <1>3, <2>1, <2>2, <2>3
<1>7. ASSUME NEW i \in 1..count, NEW j \in 1..count, i < j
      PROVE  DayOf(dates[i]) < DayOf(dates[j])
  <2>1. PICK k \in Nat : dates[i] = DayAfter(start, k)
    BY <1>5
  <2>2. PICK l \in Nat : dates[j] = DayAfter(start, l)
    BY <1>5
  <2>3. dates[i] < dates[j]
    BY <1>1, <1>2, <1>7 DEF LoopInv
  <2>4. k < l
    BY <2>1, <2>2, <2>3, DaysInOrder
  <2>5. DayOf(dates[i]) = s + k /\ DayOf(dates[j]) = s + l
    BY <1>4, <2>1, <2>2
  <2>6. QED
    BY <2>4, <2>5
<1>8. ASSUME NEW d \in Nat, DayOf(start) < d, d % 7 # weekend,
             NEW j \in 1..count, d <= DayOf(dates[j])
      PROVE  \E i \in 1..count : d = DayOf(dates[i])
  <2>1. PICK l \in Nat : l <= 2 * count /\ dates[j] = DayAfter(start, l)
    BY <1>5
  <2>2. PICK k \in Nat : k # 0 /\ d = s + k
    <3>1. d - s \in Nat /\ d - s # 0 /\ d = s + (d - s)
      BY <1>3, <1>8
    <3>2. QED
      BY <3>1
  <2>3. DayOf(dates[j]) = s + l
    BY <1>4, <2>1
  <2>4. k <= l /\ k \in 1..(2 * count)
    BY <1>8, <2>1, <2>2, <2>3
  <2>5. DayOf(DayAfter(start, k)) = d
    BY <1>4, <2>2
  <2>6. WorkDay(DayAfter(start, k), weekend)
    BY <1>8, <2>5 DEF WorkDay
  <2>7. ~(dates[j] < DayAfter(start, k))
    BY <2>1, <2>4, DaysInOrder
  <2>8. PICK i \in 1..count : dates[i] = DayAfter(start, k)
    BY <1>1, <1>2, <2>4, <2>6, <2>7 DEF LoopInv
  <2>9. QED
    BY <2>5, <2>8
<1>9. QED
  BY <1>1, <1>2, <1>6, <1>7, <1>8 DEF DatesRight

\* What TasksOnWorkDays wants of an order that is let through.
TasksRightFor(start, minutes, count, weekend) ==
  LET tasks == TaskDateList(start, minutes, count, weekend)
      days  == {DayOf(tasks[i].start) : i \in DOMAIN tasks}
  IN /\ Len(tasks) = count
     /\ Cardinality(days) = count
     /\ \A d \in days : d % 7 # weekend
     /\ \A d, e \in days : {f \in d..e : f % 7 # weekend} \subseteq days
     /\ \A i \in DOMAIN tasks :
          /\ tasks[i].start >= AtHHMM(Midnight(tasks[i].start), DayStartTime)
          /\ tasks[i].end <= AtHHMM(Midnight(tasks[i].start), WorkEndTime)

\* An order that is let through has its tasks where TasksOnWorkDays wants them.
LEMMA TasksOfOrder ==
  ASSUME NEW start \in Nat, NEW minutes \in Nat, NEW count \in Nat, NEW weekend,
         ValidOrder(start, minutes)
  PROVE  TasksRightFor(start, minutes, count, weekend)
<1> DEFINE dates == WorkDates(start, count, weekend)
           tasks == TaskDateList(start, minutes, count, weekend)
           days  == {DayOf(tasks[i].start) : i \in DOMAIN tasks}
<1>0. dates = WorkDates(start, count, weekend)
  OBVIOUS
<1> HIDE DEF dates
<1>d. DatesRight(dates, start, count, weekend)
  BY <1>0, DatesOfOrder
<1>1. /\ dates \in Seq(Nat) /\ Len(dates) = count /\ DOMAIN dates = 1..count
      /\ \A i \in 1..count : /\ \E k \in Nat : k # 0 /\ dates[i] = DayAfter(start, k)
                             /\ DayOf(dates[i]) \in Nat /\ DayOf(dates[i]) > DayOf(start)
                             /\ WorkDay(dates[i], weekend)
      /\ \A i, j \in 1..count : i < j => DayOf(dates[i]) < DayOf(dates[j])
      /\ \A d \in Nat : DayOf(start) < d /\ d % 7 # weekend
                          /\ (\E j \in 1..count : d <= DayOf(dates[j]))
                        => \E i \in 1..count : d = DayOf(dates[i])
  BY <1>d DEF DatesRight
<1>2. tasks = [i \in 1..count |-> [start |-> dates[i], end |-> dates[i] + minutes * Minute]]
  BY <1>0, <1>1 DEF TaskDateList
<1> HIDE DEF tasks
<1>3. Len(tasks) = count /\ DOMAIN tasks = 1..count
  <2>1. DOMAIN tasks = 1..count /\ tasks \in [1..count -> [start : Nat, end : Int]]
    <3>1. \A i \in 1..count : dates[i] \in Nat /\ dates[i] + minutes * Minute \in Int
      BY <1>1 DEF Minute
    <3>2. QED
      BY <1>2, <3>1
  <2>2. tasks \in Seq([start : Nat, end : Int])
    <3> DEFINE S == [start : Nat, end : Int]
    <3>1. tasks \in [1..count -> S] /\ count \in Nat
      BY <2>1
    <3> HIDE DEF S
    <3>2. tasks \in UNION {[1..n -> S] : n \in Nat}
      BY <3>1
    <3>3. tasks \in Seq(S)
      BY <3>2, SeqDef, Zenon
    <3>4. QED
      BY <3>3 DEF S
  <2>3. QED
    BY <2>1, <2>2, LenProperties
<1>4. \A i \in 1..count : tasks[i].start = dates[i] /\ tasks[i].end = dates[i] + minutes * Minute
  BY <1>2
<1>5. days = {DayOf(dates[i]) : i \in 1..count}
  BY <1>3, <1>4
<1>6. DayOf(start) \in Nat
  BY DayLater
<1>7. /\ \A d \in days : d % 7 # weekend
      /\ \A d, e \in days : {f \in d..e : f % 7 # weekend} \subseteq days
  <2> HIDE DEF days
  <2>1. \A d \in days : d % 7 # weekend
    BY <1>1, <1>5 DEF WorkDay
  <2>2. ASSUME NEW d \in days, NEW e \in days, NEW f \in d..e, f % 7 # weekend
        PROVE  f \in days
    <3>1. PICK i \in 1..count : d = DayOf(dates[i])
      BY <1>5
    <3>2. PICK j \in 1..count : e = DayOf(dates[j])
      BY <1>5
    <3>3. d \in Nat /\ e \in Nat /\ DayOf(start) < d
      BY <1>1, <3>1, <3>2
    <3>4. f \in Nat /\ DayOf(start) < f /\ f <= DayOf(dates[j])
      BY <1>6, <3>2, <3>3
    <3>5. PICK k \in 1..count : f = DayOf(dates[k])
      BY <1>1, <2>2, <3>4
    <3>6. QED
      BY <1>5, <3>5
  <2>3. QED
    BY <2>1, <2>2
<1>8. Cardinality(days) = count
  <2> DEFINE f == [i \in 1..count |-> DayOf(dates[i])]
  <2> HIDE DEF days
  <2>1. f \in [1..count -> days]
    BY <1>5
  <2>2. \A i, j \in 1..count : f[i] = f[j] => i = j
    <3> TAKE i, j \in 1..count
    <3> HAVE f[i] = f[j]
    <3>1. f[i] = DayOf(dates[i]) /\ f[j] = DayOf(dates[j]) /\ f[i] \in Nat
      BY <1>1
    <3>2. ~(f[i] < f[j]) /\ ~(f[j] < f[i])
      BY <3>1
    <3>3. ~(i < j) /\ ~(j < i)
      BY <1>1, <3>1, <3>2
    <3>4. QED
      BY <3>3
  <2>3. \A d \in days : \E i \in 1..count : f[i] = d
    BY <1>5
  <2> HIDE DEF f
  <2>4. f \in Bijection(1..count, days)
    BY <2>1, <2>2, <2>3 DEF Bijection, Injection, Surjection, IsInjective
  <2>5. ExistsBijection(1..count, days)
    BY <2>4 DEF ExistsBijection
  <2>6. QED
    BY <2>5, FS_CountingElements
<1>9. ASSUME NEW i \in 1..count
      PROVE  /\ tasks[i].start >= AtHHMM(Midnight(tasks[i].start), DayStartTime)
             /\ tasks[i].end <= AtHHMM(Midnight(tasks[i].start), WorkEndTime)
  <2>1. PICK k \in Nat : dates[i] = DayAfter(start, k)
    BY <1>1
  <2>2. /\ dates[i] = start + k * Day /\ Midnight(dates[i]) = Midnight(start) + k * Day
        /\ k * Day \in Nat /\ Midnight(start) \in Nat /\ minutes * Minute \in Nat
    <3>1. dates[i] = start + k * Day /\ Midnight(dates[i]) = Midnight(start) + k * Day /\ k * Day \in Nat
      BY <2>1, DayLater DEF DayAfter
    <3>2. Midnight(start) \in Nat /\ minutes * Minute \in Nat
      BY <1>6 DEF Midnight, Day, Hour, Minute
    <3>3. QED
      BY <3>1, <3>2
  <2>3. PICK shift \in Nat : shift = k * Day
    BY <2>2
  <2>4. PICK work \in Nat : work = minutes * Minute
    BY <2>2
  <2>5. PICK from \in Nat : from = AtHHMM(0, DayStartTime)
    BY HoursAssumption DEF AtHHMM, IsHHMM, Hour, Minute
  <2>6. PICK until \in Nat : until = AtHHMM(0, WorkEndTime)
    BY HoursAssumption DEF AtHHMM, IsHHMM, Hour, Minute
  <2>7. \A m \in Nat : AtHHMM(m, DayStartTime) = m + from /\ AtHHMM(m, WorkEndTime) = m + until
    BY <2>5, <2>6, HoursAssumption DEF AtHHMM, IsHHMM, Hour, Minute
  <2>8. PICK m \in Nat : m = Midnight(start)
    BY <2>2
  <2>9. start >= m + from /\ start + work <= m + until
    BY <2>4, <2>7, <2>8 DEF ValidOrder
  <2>10. dates[i] = start + shift /\ Midnight(dates[i]) = m + shift /\ m + shift \in Nat
    BY <2>2, <2>3, <2>8
  <2>11. dates[i] >= AtHHMM(m + shift, DayStartTime) /\ dates[i] + work <= AtHHMM(m + shift, WorkEndTime)
    BY <2>7, <2>9, <2>10
  <2>12. QED
    BY <1>4, <2>4, <2>10, <2>11
<1> HIDE DEF days
<1>10. QED
  BY <1>3, <1>7, <1>8, <1>9 DEF TasksRightFor, tasks, days

\* An order that is let through has its tasks on work days in a row, within the hours of
\* each (getWorkDates, validateOrder): whatever the hours, the start, the number of tasks
\* and the day that is off.
THEOREM TasksRight == SchedulingSpec => []TasksOnWorkDays
<1>1. SchedulingInit => TasksOnWorkDays
  BY DEF SchedulingInit, NoQuestion, TasksOnWorkDays
<1>2. ASSUME TasksOnWorkDays, [SchedulingNext]_schedulingVars PROVE TasksOnWorkDays'
  <2>1. CASE UNCHANGED schedulingVars
    BY <1>2, <2>1 DEF schedulingVars, TasksOnWorkDays
  <2>2. CASE asked' \in OrderQuestion
    <3>1. PICK q \in OrderQuestion : q = asked'
      BY <2>2
    <3>2. q.start \in Nat /\ q.minutes \in Nat /\ q.count \in Nat
      BY <3>1, QuestionsAssumption DEF OrderQuestion
    <3>3. CASE ValidOrder(q.start, q.minutes)
      <4>1. TasksRightFor(q.start, q.minutes, q.count, q.weekend)
        BY <3>2, <3>3, TasksOfOrder
      <4>2. TasksRightFor(asked'.start, asked'.minutes, asked'.count, asked'.weekend)
        BY <3>1, <4>1, Zenon
      <4>3. QED
        BY <4>2, Zenon DEF TasksOnWorkDays, TasksRightFor
    <3>4. CASE ~ValidOrder(q.start, q.minutes)
      BY <3>1, <3>4 DEF TasksOnWorkDays
    <3>5. QED
      BY <3>3, <3>4
  <2>3. CASE asked' \in SearchQuestion
    <3>1. asked'.about # "order"
      BY <2>3 DEF SearchQuestion
    <3>2. QED
      BY <3>1 DEF TasksOnWorkDays
  <2>4. QED
    BY <1>2, <2>1, <2>2, <2>3 DEF SchedulingNext, Ask
<1>3. QED
  BY <1>1, <1>2, PTL DEF SchedulingSpec
=============================================================================
