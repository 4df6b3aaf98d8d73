--------------------------- MODULE BackOfficeProofs ---------------------------
(***************************************************************************)
(* Theorems about the back office's components: CustomerAddresses,         *)
(* WorkerAdmin, LocationTree, LocationResolution, Ewallet and Accounts,    *)
(* for every number of rows, requests at once, connections and amounts.    *)
(***************************************************************************)
EXTENDS MCBackOffice, FiniteSetTheorems, SequenceTheorems, TLAPS

\* At most one default: stated without counting in the invariants.
AtMostOne(S) == \A a, b \in S : a = b

\* What "at most one element" means for the cardinality.
LEMMA FewerThanTwo ==
  ASSUME NEW S, IsFiniteSet(S), AtMostOne(S) PROVE Cardinality(S) <= 1
<1>1. CASE S = {}
  BY <1>1, FS_EmptySet
<1>2. CASE S # {}
  <2>1. PICK a : S = {a}
    BY <1>2 DEF AtMostOne
  <2> QED BY <2>1, FS_Singleton
<1> QED BY <1>1, <1>2

(***************************************************************************)
(* CustomerAddresses: the default among a customer's addresses.            *)
(***************************************************************************)
AddressFits(q) ==
  /\ q.at \in {"load", "clear", "save"} => q.updated \in Addresses
  /\ q.at \in {"load_doomed", "delete"} => q.deleted \in Addresses

\* Between the clearing of the old default and the save of the new one.
Between(q) == q.at = "save_new" \/ (q.at = "save" /\ q.input = "true")

\* What a request that runs alone knows of the default.
Knows(q) ==
  /\ Between(q) => Defaults = {}
  /\ q.at \in {"clear", "save"} => q.updated \in LiveAddresses
  /\ q.at = "clear" => q.input = "true"
  /\ q.at = "save" => (q.loaded <=> (q.input = "true" \/ q.updated \in isDefault))

DefaultKept == ~defaultGivenUp /\ LiveAddresses # {} => Defaults # {}

AddressAlone ==
  /\ \A r, k \in AddressSlots : ~AddressAt(r, "idle") /\ ~AddressAt(k, "idle") => r = k
  /\ AtMostOne(Defaults)
  /\ \A r \in AddressSlots : Knows(addressRequests[r])
  /\ (\A r \in AddressSlots : ~Between(addressRequests[r])) => DefaultKept

AddressInv == AddressTypeOK /\ (~addressOverlap => AddressAlone)

LEMMA AddressTypes ==
  AddressTypeOK <=>
    /\ addressRows \in [Addresses -> AddressRow]
    /\ isDefault \subseteq Addresses
    /\ addressUpdates \in 0..MaxAddressUpdates
    /\ addressOverlap \in BOOLEAN /\ defaultGivenUp \in BOOLEAN
    /\ addressRequests \in [AddressSlots -> AddressRequest]
    /\ \A r \in AddressSlots : AddressFits(addressRequests[r])
  BY DEF AddressTypeOK, AddressFits, AddressAt

LEMMA AddressIdle ==
  NoAddressRequest \in AddressRequest /\ NoAddressRequest.at = "idle" /\ AddressFits(NoAddressRequest)
  BY DEF NoAddressRequest, AddressRequest, AddressFits, DefaultInputs

LEMMA AddressInitially == AddressInit => AddressInv
<1> SUFFICES ASSUME AddressInit PROVE AddressInv
  OBVIOUS
<1>1. addressRequests \in [AddressSlots -> AddressRequest]
      /\ \A r \in AddressSlots : addressRequests[r] = NoAddressRequest
  BY AddressIdle DEF AddressInit
<1>2. addressUpdates \in 0..MaxAddressUpdates
  BY AddressLimitsAssumption DEF AddressInit
<1>3. addressRows \in [Addresses -> AddressRow] /\ isDefault = {}
  BY DEF AddressInit, AddressRow
<1>4. addressOverlap = FALSE /\ defaultGivenUp = FALSE
  BY DEF AddressInit
<1>5. AddressTypeOK
  BY <1>1, <1>2, <1>3, <1>4, AddressIdle, AddressTypes
<1>6. Defaults = {} /\ LiveAddresses = {}
  BY <1>3 DEF AddressInit, Defaults, LiveAddresses
<1>7. AddressAlone
  BY <1>1, <1>6, AddressIdle DEF AddressAlone, AddressAt, AtMostOne, Knows, Between, DefaultKept
<1> QED BY <1>5, <1>7 DEF AddressInv

\* The parts of a request that begin anew know nothing.
LEMMA PartsFollow ==
  ASSUME NEW q \in AddressRequest
  PROVE  /\ ThenDelete(q) \in AddressRequest /\ AddressFits(ThenDelete(q))
         /\ ThenDelete(q).at \in {"load_doomed", "idle"}
         /\ ThenUpdate(q) \in AddressRequest /\ AddressFits(ThenUpdate(q))
         /\ ThenUpdate(q).at \in {"load", "load_doomed", "idle"}
         /\ FirstPart(q) \in AddressRequest /\ AddressFits(FirstPart(q))
         /\ FirstPart(q).at \in {"count", "load", "load_doomed", "idle"}
<1>1. ThenDelete(q) \in AddressRequest /\ AddressFits(ThenDelete(q))
         /\ ThenDelete(q).at \in {"load_doomed", "idle"}
  BY AddressIdle DEF ThenDelete, AddressRequest, AddressFits
<1>2. ThenUpdate(q) \in AddressRequest /\ AddressFits(ThenUpdate(q))
         /\ ThenUpdate(q).at \in {"load", "load_doomed", "idle"}
  BY <1>1 DEF ThenUpdate, AddressRequest, AddressFits
<1>3. FirstPart(q) \in AddressRequest /\ AddressFits(FirstPart(q))
         /\ FirstPart(q).at \in {"count", "load", "load_doomed", "idle"}
  BY <1>2 DEF FirstPart, AddressRequest, AddressFits
<1> QED BY <1>1, <1>2, <1>3

\* A step of a request that runs alone: what it must establish.
LEMMA AddressGoes ==
  ASSUME AddressInv, NEW r \in AddressSlots, ~AddressAt(r, "idle"),
         NEW n \in AddressRequest, AddressFits(n), AddressGo(r, n),
         addressRows' \in [Addresses -> AddressRow], isDefault' \subseteq Addresses,
         defaultGivenUp' \in BOOLEAN, UNCHANGED <<addressUpdates, addressOverlap>>,
         ~addressOverlap =>
           /\ AtMostOne(Defaults')
           /\ Between(n) => Defaults' = {}
           /\ n.at \in {"clear", "save"} => n.updated \in LiveAddresses'
           /\ n.at = "clear" => n.input = "true"
           /\ n.at = "save" => (n.loaded <=> (n.input = "true" \/ n.updated \in isDefault'))
           /\ ~Between(n) => DefaultKept'
  PROVE  AddressInv'
<1>1. \A k \in AddressSlots : addressRequests'[k] = IF k = r THEN n ELSE addressRequests[k]
  BY AddressTypes DEF AddressInv, AddressGo
<1>2. addressRequests' \in [AddressSlots -> AddressRequest]
  BY AddressTypes DEF AddressInv, AddressGo
<1>3. AddressTypeOK'
  BY <1>1, <1>2, AddressTypes DEF AddressInv, AddressTypeOK, AddressFits, AddressAt
<1>4. ASSUME ~addressOverlap' PROVE AddressAlone'
  <2>1. \A k \in AddressSlots : k # r => addressRequests'[k].at = "idle"
    BY <1>1, <1>4 DEF AddressInv, AddressAlone, AddressAt
  <2>2. \A k \in AddressSlots : Knows(addressRequests[k])'
    BY <1>1, <1>4, <2>1 DEF Knows, Between
  <2>3. (\A k \in AddressSlots : ~Between(addressRequests[k])') => DefaultKept'
    BY <1>1, <1>4 DEF Between
  <2> QED BY <2>1, <2>2, <2>3, <1>4 DEF AddressAlone, AddressAt, Between
<1> QED BY <1>3, <1>4 DEF AddressInv

LEMMA UpdateCustomerInv ==
  ASSUME AddressInv, NEW r \in AddressSlots, UpdateCustomer(r) PROVE AddressInv'
<1>1. PICK n \in AddressRequest :
        /\ AddressFits(n) /\ AddressGo(r, n) /\ n.at \in {"count", "load", "load_doomed", "idle"}
  <2>1. PICK creates \in BOOLEAN, input \in DefaultInputs,
             updated \in Addresses \cup {NoAddress}, deleted \in Addresses \cup {NoAddress} :
          AddressGo(r, FirstPart([NoAddressRequest EXCEPT !.creates = creates,
                                    !.updated = updated, !.input = input, !.deleted = deleted]))
    BY DEF UpdateCustomer
  <2> DEFINE q == [NoAddressRequest EXCEPT !.creates = creates,
                     !.updated = updated, !.input = input, !.deleted = deleted]
  <2>2. q \in AddressRequest
    BY DEF NoAddressRequest, AddressRequest
  <2> QED BY <2>1, <2>2, PartsFollow
<1>2. \A k \in AddressSlots : addressRequests'[k] = IF k = r THEN n ELSE addressRequests[k]
  BY <1>1, AddressTypes DEF AddressInv, AddressGo
<1>3. addressRequests' \in [AddressSlots -> AddressRequest]
  BY <1>1, AddressTypes DEF AddressInv, AddressGo
<1>4. addressUpdates' \in 0..MaxAddressUpdates /\ addressOverlap' \in BOOLEAN
  BY AddressLimitsAssumption, AddressTypes DEF AddressInv, UpdateCustomer
<1>5. UNCHANGED <<addressRows, isDefault, defaultGivenUp>>
  BY DEF UpdateCustomer
<1>6. AddressTypeOK'
  BY <1>1, <1>2, <1>3, <1>4, <1>5, AddressTypes DEF AddressInv, AddressTypeOK, AddressFits,
     AddressAt
<1>7. ASSUME ~addressOverlap' PROVE AddressAlone'
  <2>1. ~addressOverlap /\ \A k \in AddressSlots : addressRequests[k].at = "idle"
    BY <1>7, AddressTypes DEF AddressInv, UpdateCustomer, AddressAt
  <2>2. \A k \in AddressSlots : Knows(addressRequests[k])'
    BY <1>1, <1>2, <2>1 DEF Knows, Between
  <2>3. DefaultKept' /\ AtMostOne(Defaults)'
    BY <2>1, <1>5 DEF AddressInv, AddressAlone, DefaultKept, Between, LiveAddresses, Defaults,
       AtMostOne
  <2> QED BY <2>1, <2>2, <2>3, <1>2 DEF AddressAlone, AddressAt
<1> QED BY <1>6, <1>7 DEF AddressInv

\* What is known while no step changes a row, or when the defaults are cleared.
LEMMA AddressRowsKept ==
  ASSUME UNCHANGED <<addressRows, isDefault>>
  PROVE  Defaults' = Defaults /\ LiveAddresses' = LiveAddresses
  BY DEF Defaults, LiveAddresses

LEMMA AddressCleared ==
  ASSUME UNCHANGED addressRows, isDefault' = {}
  PROVE  Defaults' = {} /\ LiveAddresses' = LiveAddresses
  BY DEF Defaults, LiveAddresses

LEMMA AddressStepInv ==
  ASSUME AddressInv, NEW r \in AddressSlots, NEW q, q = addressRequests[r],
         \/ CountAddresses(r) \/ ClearForNew(r) \/ (\E a \in Addresses : SaveNewAddress(r, a))
         \/ NewAddressRefused(r) \/ LoadAddress(r) \/ ClearForUpdate(r) \/ SaveAddress(r)
         \/ LoadDoomed(r) \/ DeleteAddress(r)
  PROVE  AddressInv'
<1>1. /\ q \in AddressRequest /\ AddressFits(q)
      /\ addressRows \in [Addresses -> AddressRow] /\ isDefault \subseteq Addresses
      /\ defaultGivenUp \in BOOLEAN
  BY AddressTypes DEF AddressInv
<1>2. ~addressOverlap =>
        /\ AtMostOne(Defaults) /\ Knows(q)
        /\ q.at # "idle" /\ ~Between(q) => DefaultKept
  BY DEF AddressInv, AddressAlone, AddressAt, Between
<1>3. /\ NoAddressRequest \in AddressRequest /\ NoAddressRequest.at = "idle"
      /\ AddressFits(NoAddressRequest) /\ ~Between(NoAddressRequest)
  BY AddressIdle DEF Between
<1>4. ASSUME NEW a \in {"count", "clear_new", "save_new", "load", "clear", "save", "load_doomed", "delete"}
      PROVE  LET n == [q EXCEPT !.at = a] IN
             /\ n \in AddressRequest /\ n.at = a /\ n.updated = q.updated /\ n.input = q.input
             /\ n.deleted = q.deleted /\ n.loaded = q.loaded
  BY <1>1 DEF AddressRequest
<1>5. CASE CountAddresses(r)
  <2> DEFINE a == IF LiveAddresses = {} THEN "save_new" ELSE "clear_new"
             n == [q EXCEPT !.at = a]
  <2>1. n \in AddressRequest /\ n.at = a
    BY <1>4
  <2>2. AddressGo(r, n) /\ q.at = "count" /\ UNCHANGED <<addressRows, isDefault, addressUpdates, addressOverlap, defaultGivenUp>>
    BY <1>5 DEF CountAddresses, AddressAt, addressHistory
  <2> HIDE DEF n
  <2>3. AddressFits(n) /\ (Between(n) <=> LiveAddresses = {})
    BY <2>1 DEF AddressFits, Between
  <2>4. LiveAddresses = {} => Defaults = {}
    BY DEF Defaults
  <2>5. ~addressOverlap => DefaultKept'
    BY <2>2, <1>2, AddressRowsKept DEF DefaultKept, Between
  <2> QED BY <2>1, <2>2, <2>3, <2>4, <2>5, <1>1, <1>2, AddressRowsKept, AddressGoes DEF AddressAt
<1>6. CASE ClearForNew(r)
  <2> DEFINE n == [q EXCEPT !.at = "save_new"]
  <2>1. n \in AddressRequest /\ n.at = "save_new"
    BY <1>4
  <2>2. AddressGo(r, n) /\ q.at = "clear_new" /\ UNCHANGED <<addressRows, addressUpdates, addressOverlap, defaultGivenUp>>
        /\ isDefault' = {}
    BY <1>6 DEF ClearForNew, AddressAt, addressHistory
  <2> HIDE DEF n
  <2>3. AddressFits(n) /\ Between(n) /\ AtMostOne({})
    BY <2>1 DEF AddressFits, Between, AtMostOne
  <2> QED BY <2>1, <2>2, <2>3, <1>1, AddressCleared, AddressGoes DEF AddressAt
<1>7. ASSUME NEW a \in Addresses, SaveNewAddress(r, a) PROVE AddressInv'
  <2> DEFINE n == ThenUpdate(q)
  <2>1. n \in AddressRequest /\ n.at \in {"load", "load_doomed", "idle"} /\ AddressFits(n)
    BY <1>1, PartsFollow
  <2>2. /\ AddressGo(r, n) /\ q.at = "save_new" /\ UNCHANGED <<addressUpdates, addressOverlap, defaultGivenUp>>
        /\ isDefault' = isDefault \cup {a} /\ addressRows' = [addressRows EXCEPT ![a] = "live"]
    BY <1>7 DEF SaveNewAddress, AddressAt, addressHistory
  <2> HIDE DEF n
  <2>3. Defaults' = Defaults \cup {a}
    BY <2>2, <1>1 DEF Defaults, LiveAddresses
  <2>4. ~addressOverlap => Defaults' = {a}
    BY <2>2, <2>3, <1>2 DEF Knows, Between
  <2>5. ~Between(n) /\ AtMostOne({a}) /\ {a} # {}
    BY <2>1 DEF Between, AtMostOne
  <2>6. addressRows' \in [Addresses -> AddressRow] /\ isDefault' \subseteq Addresses
    BY <2>2, <1>1 DEF AddressRow
  <2>7. ~addressOverlap => DefaultKept'
    BY <2>4, <2>5 DEF DefaultKept
  <2> QED BY <2>1, <2>2, <2>4, <2>5, <2>6, <2>7, <1>1, AddressGoes DEF AddressAt
<1>8. CASE NewAddressRefused(r)
  <2>1. /\ AddressGo(r, NoAddressRequest) /\ q.at = "save_new" /\ defaultGivenUp' = TRUE
        /\ UNCHANGED <<addressRows, isDefault, addressUpdates, addressOverlap>>
    BY <1>8 DEF NewAddressRefused, AddressAt, AddressEnd
  <2> QED BY <2>1, <1>1, <1>2, <1>3, AddressRowsKept, AddressGoes DEF AddressAt, DefaultKept
<1>9. CASE LoadAddress(r)
  <2>0. /\ q.at = "load" /\ q.updated \in Addresses
        /\ UNCHANGED <<addressRows, isDefault, addressUpdates, addressOverlap, defaultGivenUp>>
    BY <1>9, <1>1 DEF LoadAddress, AddressAt, addressHistory, AddressFits
  <2>d. ~addressOverlap => DefaultKept'
    BY <2>0, <1>2, AddressRowsKept DEF DefaultKept, Between
  <2>1. CASE q.updated \notin LiveAddresses
    <3>1. AddressGo(r, NoAddressRequest)
      BY <2>1, <1>9 DEF LoadAddress, AddressEnd
    <3> QED BY <3>1, <2>0, <2>d, <1>1, <1>2, <1>3, AddressRowsKept, AddressGoes DEF AddressAt
  <2>2. CASE q.updated \in LiveAddresses
    <3> DEFINE b == q.updated \in isDefault
               n == [q EXCEPT !.at = IF q.input = "true" THEN "clear" ELSE "save", !.loaded = b]
    <3>0. b \in BOOLEAN
      OBVIOUS
    <3>2. AddressGo(r, n)
      BY <2>2, <1>9 DEF LoadAddress
    <3>4. b <=> q.updated \in isDefault
      OBVIOUS
    <3> HIDE DEF b
    <3>1. /\ n \in AddressRequest /\ n.at = IF q.input = "true" THEN "clear" ELSE "save"
          /\ n.updated = q.updated /\ n.input = q.input /\ n.loaded = b
      BY <1>1, <3>0 DEF AddressRequest
    <3> HIDE DEF n
    <3>3. AddressFits(n) /\ ~Between(n)
      BY <3>1, <2>0 DEF AddressFits, Between
    <3> QED BY <3>1, <3>2, <3>3, <3>4, <2>0, <2>2, <2>d, <1>1, <1>2, AddressRowsKept,
               AddressGoes DEF AddressAt
  <2> QED BY <2>1, <2>2
<1>10. CASE ClearForUpdate(r)
  <2> DEFINE n == [q EXCEPT !.at = "save", !.loaded = TRUE]
  <2>1. /\ n \in AddressRequest /\ n.at = "save" /\ n.updated = q.updated /\ n.input = q.input /\ n.loaded = TRUE
    BY <1>1 DEF AddressRequest
  <2>2. AddressGo(r, n) /\ q.at = "clear" /\ UNCHANGED <<addressRows, addressUpdates, addressOverlap, defaultGivenUp>>
        /\ isDefault' = {}
    BY <1>10 DEF ClearForUpdate, AddressAt, addressHistory
  <2> HIDE DEF n
  <2>3. AddressFits(n) /\ AtMostOne({}) /\ (~addressOverlap => Between(n) /\ q.input = "true" /\ q.updated \in LiveAddresses)
    BY <2>1, <2>2, <1>1, <1>2 DEF AddressFits, Between, AtMostOne, Knows
  <2> QED BY <2>1, <2>2, <2>3, <1>1, AddressCleared, AddressGoes DEF AddressAt
<1>11. CASE SaveAddress(r)
  <2> DEFINE n == ThenDelete(q)
  <2>1. n \in AddressRequest /\ n.at \in {"load_doomed", "idle"} /\ AddressFits(n)
    BY <1>1, PartsFollow
  <2>2. /\ AddressGo(r, n) /\ q.at = "save" /\ UNCHANGED <<addressUpdates, addressOverlap>>
        /\ addressRows' = [addressRows EXCEPT ![q.updated] = "live"] /\ q.updated \in Addresses
        /\ isDefault' = IF q.loaded /\ q.input # "false" THEN isDefault \cup {q.updated}
                        ELSE isDefault \ {q.updated}
        /\ defaultGivenUp' = (defaultGivenUp \/ (q.input = "false" /\ q.updated \in isDefault))
    BY <1>11, <1>1 DEF SaveAddress, AddressAt, AddressFits
  <2> HIDE DEF n
  <2>3. /\ addressRows' \in [Addresses -> AddressRow] /\ isDefault' \subseteq Addresses
        /\ defaultGivenUp' \in BOOLEAN
    BY <2>2, <1>1 DEF AddressRow
  <2>4. ~Between(n)
    BY <2>1 DEF Between
  <2>5. ASSUME ~addressOverlap PROVE AtMostOne(Defaults') /\ DefaultKept'
    <3>1. /\ q.updated \in LiveAddresses /\ LiveAddresses' = LiveAddresses
          /\ q.loaded <=> (q.input = "true" \/ q.updated \in isDefault)
          /\ Between(q) => Defaults = {}
          /\ AtMostOne(Defaults)
      BY <2>5, <2>2, <1>1, <1>2 DEF Knows, LiveAddresses
    <3>2. CASE q.input = "true"
      <4>1. Defaults' = {q.updated}
        BY <3>1, <3>2, <2>2 DEF Defaults, Between
      <4> QED BY <4>1 DEF AtMostOne, DefaultKept
    <3>3. CASE q.input # "true"
      <4>1. ~Between(q) /\ DefaultKept
        BY <3>3, <2>2, <2>5, <1>2 DEF Between
      <4>2. Defaults' \subseteq Defaults /\ (~defaultGivenUp' => ~defaultGivenUp /\ Defaults' = Defaults)
        BY <3>1, <3>3, <2>2 DEF Defaults
      <4> QED BY <4>1, <4>2, <3>1 DEF AtMostOne, DefaultKept
    <3> QED BY <3>2, <3>3
  <2> QED BY <2>1, <2>2, <2>3, <2>4, <2>5, AddressGoes DEF AddressAt
<1>12. CASE LoadDoomed(r)
  <2>0. /\ q.at = "load_doomed" /\ q.deleted \in Addresses
        /\ UNCHANGED <<addressRows, isDefault, addressUpdates, addressOverlap, defaultGivenUp>>
    BY <1>12, <1>1 DEF LoadDoomed, AddressAt, addressHistory, AddressFits
  <2>d. ~addressOverlap => DefaultKept'
    BY <2>0, <1>2, AddressRowsKept DEF DefaultKept, Between
  <2>1. PICK n \in AddressRequest : AddressGo(r, n) /\ n.at \in {"idle", "delete"} /\ AddressFits(n)
    <3> DEFINE n == [q EXCEPT !.at = "delete"]
    <3>1. n \in AddressRequest /\ n.at = "delete" /\ AddressFits(n)
      BY <1>4, <2>0 DEF AddressFits
    <3> QED BY <3>1, <1>3, <1>12 DEF LoadDoomed, AddressEnd
  <2> QED BY <2>0, <2>1, <2>d, <1>1, <1>2, AddressRowsKept, AddressGoes DEF AddressAt, Between
<1>13. CASE DeleteAddress(r)
  <2>1. /\ AddressGo(r, NoAddressRequest) /\ q.at = "delete" /\ q.deleted \in Addresses
        /\ UNCHANGED <<isDefault, addressUpdates, addressOverlap>>
        /\ addressRows' = [addressRows EXCEPT ![q.deleted] = "deleted"]
        /\ defaultGivenUp' = (defaultGivenUp \/ q.deleted \in isDefault)
    BY <1>13, <1>1 DEF DeleteAddress, AddressAt, AddressEnd, AddressFits
  <2>2. /\ addressRows' \in [Addresses -> AddressRow] /\ isDefault' \subseteq Addresses
        /\ defaultGivenUp' \in BOOLEAN
    BY <2>1, <1>1 DEF AddressRow
  <2>3. LiveAddresses' = LiveAddresses \ {q.deleted}
    BY <2>1, <1>1 DEF LiveAddresses
  <2>4. ~addressOverlap => AtMostOne(Defaults') /\ DefaultKept'
    BY <2>1, <2>3, <1>2 DEF AtMostOne, Defaults, DefaultKept, Between
  <2> QED BY <2>1, <2>2, <2>4, <1>3, AddressGoes DEF AddressAt
<1> QED BY <1>5, <1>6, <1>7, <1>8, <1>9, <1>10, <1>11, <1>12, <1>13

LEMMA AddressCrashInv ==
  ASSUME AddressInv, AddressCrash PROVE AddressInv'
<1>1. /\ \A r \in AddressSlots : addressRequests'[r] = NoAddressRequest
      /\ addressRequests' \in [AddressSlots -> AddressRequest]
      /\ UNCHANGED <<addressRows, isDefault, addressUpdates, addressOverlap>> /\ defaultGivenUp' = TRUE
  BY AddressIdle DEF AddressCrash
<1>2. AddressTypeOK'
  BY <1>1, AddressIdle, AddressTypes DEF AddressInv, AddressTypeOK, AddressFits, AddressAt
<1>3. ~addressOverlap' => AddressAlone'
  BY <1>1, AddressIdle, AddressRowsKept
  DEF AddressInv, AddressAlone, AddressAt, AtMostOne, Knows, Between, DefaultKept
<1> QED BY <1>2, <1>3 DEF AddressInv

LEMMA AddressAlways == AddressSpec => []AddressInv
<1>1. ASSUME AddressInv, AddressNext PROVE AddressInv'
  <2>1. ASSUME NEW r \in AddressSlots, AddressStep(r) PROVE AddressInv'
    BY <1>1, <2>1, UpdateCustomerInv, AddressStepInv DEF AddressStep
  <2> QED BY <1>1, <2>1, AddressCrashInv DEF AddressNext
<1>2. ASSUME AddressInv, UNCHANGED addressVars PROVE AddressInv'
  BY <1>2 DEF AddressInv, addressVars, addressHistory, AddressTypeOK, AddressAlone, AddressAt,
     AtMostOne,
              Knows, Between, DefaultKept, LiveAddresses, Defaults
<1> QED BY AddressInitially, <1>1, <1>2, PTL DEF AddressSpec

\* Address rows and the requests about them keep their types (customers.service.ts, updateCustomer).
THEOREM AddressTypeCorrect == AddressSpec => []AddressTypeOK
<1>1. AddressInv => AddressTypeOK
  BY DEF AddressInv
<1> QED BY <1>1, AddressAlways, PTL

\* As long as a customer's requests do not overlap, at most one address is the default, and
\* one is unless a request gave it up (updateCustomer).
THEOREM DefaultAddressKept == AddressSpec => []OneDefaultAddress
<1>1. ASSUME AddressInv PROVE OneDefaultAddress
  <2>1. IsFiniteSet(Defaults)
    BY AddressesAssumption, FS_Subset DEF Defaults, LiveAddresses
  <2> QED BY <1>1, <2>1, FewerThanTwo
          DEF AddressInv, AddressAlone, OneDefaultAddress, DefaultKept, Between, AddressAt
<1> QED BY <1>1, AddressAlways, PTL

(***************************************************************************)
(* WorkerAdmin: creation, and the default payment method.                  *)
(***************************************************************************)
FirstSteps == {"identity", "methods", "save_worker"}

\* Until her row is saved, her creation is the only request; afterwards she has a status,
\* or her creation is at it, or died before.
CreationInv ==
  /\ worker = "none" =>
       /\ \A r, k \in WorkerSlots : ~WorkerAt(r, "idle") /\ ~WorkerAt(k, "idle") => r = k
       /\ \A r \in WorkerSlots : workerRequests[r].at \in FirstSteps \cup {"idle"}
       /\ LinkedMethods = {}
  /\ worker # "none" =>
       /\ \A r \in WorkerSlots : workerRequests[r].at \notin FirstSteps
       /\ hasStatus \/ creationDied \/ \E r \in WorkerSlots : WorkerAt(r, "status")

NoTrue(news)  == \A i \in DOMAIN news : news[i] # "true"
OneTrue(news) == \A i, j \in DOMAIN news : news[i] = "true" /\ news[j] = "true" => i = j

\* What a request that runs alone does to the defaults among the methods it holds.
MethodsKnown(q, defaults) ==
  /\ \A i \in DOMAIN q.news : q.news[i] # "omitted"
  /\ AtMostOne(q.held \cap defaults)
  /\ q.at \in FirstSteps => OneTrue(q.news) /\ (q.held \cap defaults # {} => NoTrue(q.news))
  /\ q.at = "clear" /\ Head(q.news) = "true" => q.held \cap defaults \subseteq q.toClear

MethodsInv ==
  /\ \A r \in WorkerSlots : WorkerAt(r, "clear") => workerRequests[r].news # << >>
  /\ \A m \in Methods : methodRows[m] = "absent" => m \notin defaultMethods
  /\ ~workerOverlap /\ ~looseDefaults =>
       /\ \A r, k \in WorkerSlots : ~WorkerAt(r, "idle") /\ ~WorkerAt(k, "idle") => r = k
       /\ AtMostOne(LinkedMethods \cap defaultMethods)
       /\ \A r \in WorkerSlots : ~WorkerAt(r, "idle") => MethodsKnown(workerRequests[r], defaultMethods)

WorkerInv == WorkerTypeOK /\ CreationInv /\ MethodsInv

LEMMA NewMethodsAreSequences ==
  ASSUME NEW s PROVE s \in NewMethods <=> s \in Seq(IsDefaultInputs) /\ Len(s) <= MaxNewMethods
<1>1. ASSUME s \in NewMethods PROVE s \in Seq(IsDefaultInputs) /\ Len(s) <= MaxNewMethods
  <2>1. PICK n \in 0..MaxNewMethods : s \in [1..n -> IsDefaultInputs]
    BY <1>1 DEF NewMethods
  <2>2. n \in Nat /\ n <= MaxNewMethods
    BY WorkerLimitsAssumption
  <2>3. s \in Seq(IsDefaultInputs)
    BY <2>1, <2>2, SeqDef
  <2>4. Len(s) = n
    BY <2>1, <2>2, <2>3, LenProperties
  <2> QED BY <2>2, <2>3, <2>4
<1>2. ASSUME s \in Seq(IsDefaultInputs), Len(s) <= MaxNewMethods PROVE s \in NewMethods
  <2>1. Len(s) \in 0..MaxNewMethods /\ s \in [1..Len(s) -> IsDefaultInputs]
    BY <1>2, LenProperties, WorkerLimitsAssumption
  <2> QED BY <2>1 DEF NewMethods
<1> QED BY <1>1, <1>2

LEMMA TailOfMethods ==
  ASSUME NEW s \in NewMethods, s # << >>
  PROVE  /\ Tail(s) \in NewMethods /\ Head(s) \in IsDefaultInputs
         /\ (\A i \in DOMAIN s : s[i] # "omitted") => Head(s) # "omitted" /\ \A i \in DOMAIN Tail(s) : Tail(s)[i] # "omitted"
         /\ OneTrue(s) => OneTrue(Tail(s)) /\ (Head(s) = "true" => NoTrue(Tail(s)))
         /\ NoTrue(s) => Head(s) # "true" /\ NoTrue(Tail(s))
<1>1. s \in Seq(IsDefaultInputs) /\ Len(s) <= MaxNewMethods
  BY NewMethodsAreSequences
<1>2. /\ Head(s) \in IsDefaultInputs /\ Head(s) = s[1]
      /\ Tail(s) \in Seq(IsDefaultInputs) /\ Len(Tail(s)) = Len(s) - 1
      /\ \A i \in 1..Len(Tail(s)) : Tail(s)[i] = s[i + 1]
  BY <1>1, HeadTailProperties
<1>3. Len(s) \in Nat \ {0} /\ DOMAIN s = 1..Len(s) /\ DOMAIN Tail(s) = 1..Len(Tail(s))
  <2>1. Len(s) \in Nat /\ Len(s) # 0
    BY <1>1, EmptySeq, LenProperties
  <2>2. DOMAIN s = 1..Len(s)
    BY <1>1, LenProperties
  <2>3. DOMAIN Tail(s) = 1..Len(Tail(s))
    BY <1>2, LenProperties
  <2> QED BY <2>1, <2>2, <2>3
<1>4. Tail(s) \in NewMethods
  <2>1. Len(Tail(s)) <= MaxNewMethods
    BY <1>1, <1>2, <1>3, WorkerLimitsAssumption
  <2> QED BY <2>1, <1>2, NewMethodsAreSequences
<1>5. 1 \in DOMAIN s /\ \A i \in DOMAIN Tail(s) : i + 1 \in DOMAIN s /\ i + 1 # 1 /\ Tail(s)[i] = s[i + 1]
  BY <1>2, <1>3
<1>6. \A i, j \in DOMAIN Tail(s) : i + 1 = j + 1 => i = j
  BY <1>3, <1>2
<1> QED BY <1>2, <1>4, <1>5, <1>6 DEF OneTrue, NoTrue

LEMMA TruesCounted ==
  ASSUME NEW s \in NewMethods, ~(Trues(s) > 1) PROVE OneTrue(s)
<1> DEFINE T == {i \in DOMAIN s : s[i] = "true"}
<1>1. s \in Seq(IsDefaultInputs)
  BY NewMethodsAreSequences
<1>2. IsFiniteSet(T)
  <2>1. DOMAIN s = 1..Len(s) /\ Len(s) \in Nat
    BY <1>1, LenProperties
  <2>2. IsFiniteSet(1..Len(s))
    BY <2>1, FS_Interval
  <2>3. T \in SUBSET (1..Len(s))
    BY <2>1
  <2> QED BY <2>2, <2>3, FS_Subset
<1>3. ASSUME NEW i \in T, NEW j \in T, i # j PROVE FALSE
  <2>1. IsFiniteSet({i, j}) /\ Cardinality({i, j}) = 2
    <3>1. {i, j} = {i} \cup {j} /\ j \notin {i}
      BY <1>3
    <3>2. IsFiniteSet({i}) /\ Cardinality({i}) = 1
      BY FS_Singleton
    <3>3. IsFiniteSet({i} \cup {j}) /\ Cardinality({i} \cup {j}) = Cardinality({i}) + 1
      BY <3>1, <3>2, FS_AddElement, Zenon
    <3> QED BY <3>1, <3>2, <3>3
  <2>2. Cardinality({i, j}) <= Cardinality(T)
    BY <1>2, <1>3, FS_Subset
  <2>3. Cardinality(T) \in Nat
    BY <1>2, FS_CardinalityType
  <2> QED BY <2>1, <2>2, <2>3 DEF Trues
<1> QED BY <1>3 DEF OneTrue

LEMMA WorkerIdle ==
  NoWorkerRequest \in WorkerRequest /\ NoWorkerRequest.at = "idle" /\ NoWorkerRequest.held = {}
  /\ NoWorkerRequest.news = << >> /\ << >> \in NewMethods
<1>1. << >> \in NewMethods
  <2>1. << >> \in Seq(IsDefaultInputs) /\ Len(<< >>) = 0
    OBVIOUS
  <2>2. Len(<< >>) <= MaxNewMethods
    BY <2>1, WorkerLimitsAssumption
  <2> QED BY <2>1, <2>2, NewMethodsAreSequences
<1>2. NoWorkerRequest \in WorkerRequest
  BY <1>1 DEF NoWorkerRequest, WorkerRequest
<1> QED BY <1>1, <1>2 DEF NoWorkerRequest

LEMMA WorkerInitially == WorkerInit => WorkerInv
<1> SUFFICES ASSUME WorkerInit PROVE WorkerInv
  OBVIOUS
<1>1. \A r \in WorkerSlots : workerRequests[r] = NoWorkerRequest
  BY DEF WorkerInit
<1>2. workerRequests \in [WorkerSlots -> WorkerRequest]
  BY WorkerIdle DEF WorkerInit
<1>3. methodRows \in [Methods -> MethodRow] /\ defaultMethods = {} /\ worker = "none" /\ LinkedMethods = {}
  BY DEF WorkerInit, MethodRow, LinkedMethods
<1>4. hasStatus = FALSE /\ workerOverlap = FALSE /\ looseDefaults = FALSE /\ creationDied = FALSE
  BY DEF WorkerInit
<1>5. workerUpdates \in 0..MaxWorkerUpdates
  BY WorkerLimitsAssumption DEF WorkerInit
<1>6. WorkerTypeOK
  BY <1>2, <1>3, <1>4, <1>5 DEF WorkerTypeOK, WorkerRow
<1>7. CreationInv
  BY <1>1, <1>3, WorkerIdle DEF CreationInv, WorkerAt
<1>8. MethodsInv
  BY <1>1, <1>3, WorkerIdle DEF MethodsInv, WorkerAt, AtMostOne
<1> QED BY <1>6, <1>7, <1>8 DEF WorkerInv

\* What a step of a running request must establish.
LEMMA WorkerGoes ==
  ASSUME WorkerInv, NEW r \in WorkerSlots, NEW q, q = workerRequests[r], q.at # "idle",
         NEW n \in WorkerRequest, WorkerGo(r, n), UNCHANGED workerHistory,
         methodRows' \in [Methods -> MethodRow], defaultMethods' \subseteq Methods,
         worker' \in WorkerRow, hasStatus' \in BOOLEAN, hasStatus => hasStatus',
         n.at = "clear" => n.news # << >>,
         \A m \in Methods : methodRows'[m] = "absent" => m \notin defaultMethods',
         worker' = "none" => worker = "none" /\ n.at \in FirstSteps \cup {"idle"} /\ LinkedMethods' = {},
         worker' # "none" => n.at \notin FirstSteps
                             /\ (hasStatus' \/ n.at = "status" \/ (worker # "none" /\ q.at # "status")),
         ~workerOverlap /\ ~looseDefaults =>
           AtMostOne(LinkedMethods' \cap defaultMethods')
           /\ (n.at # "idle" => MethodsKnown(n, defaultMethods'))
  PROVE  WorkerInv'
<1>1. \A k \in WorkerSlots : workerRequests'[k] = IF k = r THEN n ELSE workerRequests[k]
  BY DEF WorkerInv, WorkerTypeOK, WorkerGo
<1>2. UNCHANGED <<workerUpdates, workerOverlap, looseDefaults, creationDied>>
  BY DEF workerHistory
<1>3. WorkerTypeOK'
  BY <1>2 DEF WorkerInv, WorkerTypeOK, WorkerGo
<1>4. CreationInv'
  <2>1. CASE worker' = "none"
    BY <2>1, <1>1 DEF WorkerInv, CreationInv, WorkerAt
  <2>2. CASE worker' # "none"
    <3>1. \A k \in WorkerSlots : k # r => workerRequests[k].at \notin FirstSteps
      BY DEF WorkerInv, CreationInv, WorkerAt, FirstSteps
    <3>2. hasStatus' \/ creationDied' \/ \E k \in WorkerSlots : workerRequests'[k].at = "status"
      BY <2>2, <1>1, <1>2 DEF WorkerInv, CreationInv, WorkerAt
    <3> QED BY <2>2, <3>1, <3>2, <1>1 DEF CreationInv, WorkerAt
  <2> QED BY <2>1, <2>2
<1>6. \A k \in WorkerSlots : workerRequests'[k].at = "clear" => workerRequests'[k].news # << >>
  BY <1>1 DEF WorkerInv, MethodsInv, WorkerAt
<1>5. MethodsInv'
  <2> SUFFICES ASSUME ~workerOverlap, ~looseDefaults
               PROVE  /\ \A j, k \in WorkerSlots : workerRequests'[j].at # "idle" /\ workerRequests'[k].at # "idle" => j = k
                      /\ \A k \in WorkerSlots : workerRequests'[k].at # "idle" =>
                                                 MethodsKnown(workerRequests'[k], defaultMethods')
    BY <1>2, <1>6 DEF MethodsInv, WorkerAt
  <2>1. \A k \in WorkerSlots : k # r => workerRequests[k].at = "idle"
    BY DEF WorkerInv, MethodsInv, WorkerAt
  <2> QED BY <2>1, <1>1
<1> QED BY <1>3, <1>4, <1>5 DEF WorkerInv

\* A request that begins.
LEMMA WorkerBeginsInv ==
  ASSUME WorkerInv, NEW r \in WorkerSlots, NEW n \in WorkerRequest, WorkerBegins(r, n),
         n.at \notin {"idle", "clear"}, UNCHANGED <<workerRows, creationDied>>,
         workerUpdates' \in 0..MaxWorkerUpdates,
         looseDefaults' \in BOOLEAN, looseDefaults => looseDefaults',
         worker = "none" => n.at \in FirstSteps /\ \A k \in WorkerSlots : WorkerAt(k, "idle"),
         worker # "none" => n.at \notin FirstSteps,
         ~workerOverlap /\ ~looseDefaults' => MethodsKnown(n, defaultMethods)
  PROVE  WorkerInv'
<1>1. \A k \in WorkerSlots : workerRequests'[k] = IF k = r THEN n ELSE workerRequests[k]
  BY DEF WorkerInv, WorkerTypeOK, WorkerBegins, WorkerGo
<1>2. /\ UNCHANGED <<methodRows, defaultMethods, worker, hasStatus>>
      /\ workerOverlap' = (workerOverlap \/ \E k \in WorkerSlots : ~WorkerAt(k, "idle"))
      /\ workerOverlap' \in BOOLEAN /\ LinkedMethods' = LinkedMethods
      /\ workerRequests[r].at = "idle"
  BY DEF workerRows, WorkerBegins, LinkedMethods, WorkerAt, WorkerInv, WorkerTypeOK
<1>3. WorkerTypeOK'
  BY <1>2 DEF WorkerInv, WorkerTypeOK, WorkerBegins, WorkerGo
<1>4. CreationInv'
  BY <1>1, <1>2 DEF WorkerInv, CreationInv, WorkerAt
<1>6. \A k \in WorkerSlots : workerRequests'[k].at = "clear" => workerRequests'[k].news # << >>
  BY <1>1 DEF WorkerInv, MethodsInv, WorkerAt
<1>5. MethodsInv'
  <2> SUFFICES ASSUME ~workerOverlap', ~looseDefaults'
               PROVE  /\ \A j, k \in WorkerSlots : workerRequests'[j].at # "idle" /\ workerRequests'[k].at # "idle" => j = k
                      /\ AtMostOne(LinkedMethods \cap defaultMethods)
                      /\ \A k \in WorkerSlots : workerRequests'[k].at # "idle" =>
                                                 MethodsKnown(workerRequests'[k], defaultMethods)
    BY <1>2, <1>6 DEF MethodsInv, WorkerAt, WorkerInv
  <2>1. ~workerOverlap /\ ~looseDefaults /\ \A k \in WorkerSlots : workerRequests[k].at = "idle"
    BY <1>2 DEF WorkerAt, WorkerInv, WorkerTypeOK
  <2> QED BY <2>1, <1>1 DEF WorkerInv, MethodsInv
<1> QED BY <1>3, <1>4, <1>5 DEF WorkerInv

LEMMA WorkerBeginInv ==
  ASSUME WorkerInv, NEW r \in WorkerSlots, CreateWorker(r) \/ UpdateWorker(r) \/ DeleteWorker(r)
  PROVE  WorkerInv'
<1>0. /\ looseDefaults \in BOOLEAN /\ workerUpdates \in 0..MaxWorkerUpdates
      /\ LinkedMethods \subseteq Methods
  BY DEF WorkerInv, WorkerTypeOK, LinkedMethods
<1>1. CASE CreateWorker(r)
  <2>1. PICK news \in NewMethods :
          /\ \A i \in DOMAIN news : news[i] # "omitted"
          /\ WorkerBegins(r, [NoWorkerRequest EXCEPT !.at = "identity", !.news = news])
          /\ looseDefaults' = (looseDefaults \/ Trues(news) > 1)
    BY <1>1 DEF CreateWorker
  <2> DEFINE n == [NoWorkerRequest EXCEPT !.at = "identity", !.news = news]
  <2>2. n \in WorkerRequest /\ n.at = "identity" /\ n.news = news /\ n.held = {}
    BY DEF NoWorkerRequest, WorkerRequest
  <2>3. WorkerBegins(r, n)
    BY <2>1
  <2> HIDE DEF n
  <2>4. ~looseDefaults' => MethodsKnown(n, defaultMethods)
    BY <2>1, <2>2, TruesCounted DEF MethodsKnown, AtMostOne
  <2>5. /\ UNCHANGED <<workerRows, workerUpdates, creationDied>> /\ worker = "none"
        /\ \A k \in WorkerSlots : WorkerAt(k, "idle")
    BY <1>1 DEF CreateWorker
  <2>6. looseDefaults' \in BOOLEAN /\ (looseDefaults => looseDefaults')
    BY <2>1, <1>0
  <2> QED BY <2>2, <2>3, <2>4, <2>5, <2>6, <1>0, WorkerBeginsInv DEF FirstSteps
<1>2. CASE UpdateWorker(r)
  <2>1. PICK news \in NewMethods :
          /\ WorkerBegins(r, [NoWorkerRequest EXCEPT !.at = "new", !.held = LinkedMethods, !.news = news])
          /\ looseDefaults' = (looseDefaults \/ \E i \in DOMAIN news : news[i] = "omitted")
    BY <1>2 DEF UpdateWorker
  <2>c. PICK held \in SUBSET Methods : held = LinkedMethods
    BY <1>0
  <2> DEFINE n == [NoWorkerRequest EXCEPT !.at = "new", !.held = held, !.news = news]
  <2>2. n \in WorkerRequest /\ n.at = "new" /\ n.news = news /\ n.held = held
    BY DEF NoWorkerRequest, WorkerRequest
  <2>3. WorkerBegins(r, n)
    BY <2>1, <2>c
  <2> HIDE DEF n
  <2>4. ~workerOverlap /\ ~looseDefaults' => MethodsKnown(n, defaultMethods)
    BY <2>1, <2>2, <2>c DEF MethodsKnown, AtMostOne, WorkerInv, MethodsInv, FirstSteps
  <2>5. /\ UNCHANGED <<workerRows, creationDied>> /\ worker = "live"
        /\ workerUpdates' \in 0..MaxWorkerUpdates
    <3>1. UNCHANGED <<workerRows, creationDied>> /\ worker = "live"
      BY <1>2 DEF UpdateWorker
    <3>2. workerUpdates < MaxWorkerUpdates /\ workerUpdates' = workerUpdates + 1
      BY <1>2 DEF UpdateWorker
    <3> QED BY <3>1, <3>2, <1>0, WorkerLimitsAssumption
  <2>6. looseDefaults' \in BOOLEAN /\ (looseDefaults => looseDefaults')
    BY <2>1, <1>0
  <2> QED BY <2>2, <2>3, <2>4, <2>5, <2>6, WorkerBeginsInv DEF FirstSteps
<1>3. CASE DeleteWorker(r)
  <2> DEFINE n == [NoWorkerRequest EXCEPT !.at = "save_deleted"]
  <2>2. n \in WorkerRequest /\ n.at = "save_deleted" /\ n.news = << >> /\ n.held = {}
    BY WorkerIdle DEF NoWorkerRequest, WorkerRequest
  <2>3. WorkerBegins(r, n)
    BY <1>3 DEF DeleteWorker
  <2> HIDE DEF n
  <2>4. MethodsKnown(n, defaultMethods)
    BY <2>2 DEF MethodsKnown, AtMostOne, FirstSteps
  <2>5. UNCHANGED <<workerRows, workerUpdates, looseDefaults, creationDied>> /\ worker = "live"
    BY <1>3 DEF DeleteWorker
  <2> QED BY <2>2, <2>3, <2>4, <2>5, <1>0, WorkerBeginsInv DEF FirstSteps
<1> QED BY <1>1, <1>2, <1>3

\* save(worker) links exactly the methods the request holds.
LEMMA LinkedExactly ==
  ASSUME WorkerInv, NEW held \in SUBSET Methods, LinkExactly(held)
  PROVE  /\ methodRows' \in [Methods -> MethodRow] /\ LinkedMethods' = held
         /\ \A m \in Methods : methodRows'[m] = "absent" => methodRows[m] = "absent"
<1>1. methodRows \in [Methods -> MethodRow]
  BY DEF WorkerInv, WorkerTypeOK
<1>2. \A m \in Methods : methodRows'[m] = IF m \in held THEN "linked"
                                   ELSE IF methodRows[m] = "linked" THEN "unlinked"
                                   ELSE methodRows[m]
  BY DEF LinkExactly
<1>3. methodRows' \in [Methods -> MethodRow]
  BY <1>1 DEF LinkExactly, MethodRow
<1> QED BY <1>2, <1>3 DEF LinkedMethods

\* A new payment method is nobody's yet.
LEMMA MethodInserted ==
  ASSUME WorkerInv, NEW m \in Methods, NEW input \in IsDefaultInputs, InsertMethod(m, input)
  PROVE  /\ methodRows' \in [Methods -> MethodRow] /\ defaultMethods' \subseteq Methods
         /\ LinkedMethods' = LinkedMethods /\ m \notin LinkedMethods /\ m \notin defaultMethods
         /\ \A k \in Methods : methodRows'[k] = "absent" => k \notin defaultMethods'
         /\ defaultMethods' = IF input = "false" THEN defaultMethods ELSE defaultMethods \cup {m}
<1>1. /\ methodRows \in [Methods -> MethodRow] /\ defaultMethods \subseteq Methods
      /\ \A k \in Methods : methodRows[k] = "absent" => k \notin defaultMethods
  BY DEF WorkerInv, WorkerTypeOK, MethodsInv
<1>2. /\ methodRows[m] = "absent" /\ methodRows' = [methodRows EXCEPT ![m] = "unlinked"]
      /\ defaultMethods' = IF input = "false" THEN defaultMethods ELSE defaultMethods \cup {m}
  BY DEF InsertMethod
<1>3. methodRows' \in [Methods -> MethodRow]
  BY <1>1, <1>2 DEF MethodRow
<1> QED BY <1>1, <1>2, <1>3 DEF LinkedMethods

LEMMA WorkerStepInv ==
  ASSUME WorkerInv, NEW r \in WorkerSlots, NEW q, q = workerRequests[r],
         \/ SaveIdentityDoc(r) \/ FindAreas(r) \/ AreaNotFound(r) \/ SaveWorker(r) \/ SaveTraineeStatus(r)
         \/ NextMethod(r) \/ SaveUpdate(r) \/ SaveDeleted(r)
         \/ \E m \in Methods : SaveFirstMethod(r, m) \/ ClearDefault(r, m) \/ SaveMethod(r, m)
  PROVE  WorkerInv'
<1>1. /\ q \in WorkerRequest /\ q.held \subseteq Methods /\ q.news \in NewMethods
      /\ methodRows \in [Methods -> MethodRow] /\ defaultMethods \subseteq Methods
      /\ worker \in WorkerRow /\ hasStatus \in BOOLEAN
      /\ \A m \in Methods : methodRows[m] = "absent" => m \notin defaultMethods
  BY DEF WorkerInv, WorkerTypeOK, MethodsInv, WorkerRequest
<1>2. ~workerOverlap /\ ~looseDefaults =>
        /\ AtMostOne(LinkedMethods \cap defaultMethods)
        /\ q.at # "idle" => MethodsKnown(q, defaultMethods)
  BY DEF WorkerInv, MethodsInv, WorkerAt
<1>3. /\ worker = "none" => q.at \in FirstSteps \cup {"idle"} /\ LinkedMethods = {}
      /\ worker # "none" => q.at \notin FirstSteps
  BY DEF WorkerInv, CreationInv
<1>4. CASE SaveIdentityDoc(r)
  <2> DEFINE n == [q EXCEPT !.at = "methods"]
  <2>1. n \in WorkerRequest /\ n.at = "methods" /\ n.held = q.held /\ n.news = q.news
    BY <1>1 DEF WorkerRequest
  <2>2. WorkerGo(r, n) /\ q.at = "identity" /\ UNCHANGED <<workerRows, workerHistory>>
    BY <1>4 DEF SaveIdentityDoc, WorkerAt
  <2> HIDE DEF n
  <2>3. MethodsKnown(q, defaultMethods) => MethodsKnown(n, defaultMethods)
    BY <2>1, <2>2 DEF MethodsKnown, FirstSteps
  <2>4. LinkedMethods' = LinkedMethods
    BY <2>2 DEF workerRows, LinkedMethods
  <2> QED BY <2>1, <2>2, <2>3, <2>4, <1>1, <1>2, <1>3, WorkerGoes DEF FirstSteps, workerRows
<1>5. CASE FindAreas(r)
  <2> DEFINE n == [q EXCEPT !.at = "save_worker"]
  <2>1. n \in WorkerRequest /\ n.at = "save_worker" /\ n.held = q.held /\ n.news = q.news
    BY <1>1 DEF WorkerRequest
  <2>2. WorkerGo(r, n) /\ q.at = "methods" /\ UNCHANGED <<workerRows, workerHistory>>
    BY <1>5 DEF FindAreas, WorkerAt
  <2> HIDE DEF n
  <2>3. MethodsKnown(q, defaultMethods) => MethodsKnown(n, defaultMethods)
    BY <2>1, <2>2 DEF MethodsKnown, FirstSteps
  <2>4. LinkedMethods' = LinkedMethods
    BY <2>2 DEF workerRows, LinkedMethods
  <2> QED BY <2>1, <2>2, <2>3, <2>4, <1>1, <1>2, <1>3, WorkerGoes DEF FirstSteps, workerRows
<1>6. CASE AreaNotFound(r)
  <2>1. WorkerGo(r, NoWorkerRequest) /\ q.at = "save_worker" /\ UNCHANGED <<workerRows, workerHistory>>
    BY <1>6 DEF AreaNotFound, WorkerAt
  <2>2. LinkedMethods' = LinkedMethods
    BY <2>1 DEF workerRows, LinkedMethods
  <2> QED BY <2>1, <2>2, <1>1, <1>2, <1>3, WorkerIdle, WorkerGoes DEF FirstSteps, workerRows
<1>7. CASE SaveWorker(r)
  <2> DEFINE n == [q EXCEPT !.at = "status"]
  <2>1. n \in WorkerRequest /\ n.at = "status" /\ n.held = q.held /\ n.news = q.news
    BY <1>1 DEF WorkerRequest
  <2>2. /\ WorkerGo(r, n) /\ q.at = "save_worker" /\ UNCHANGED <<defaultMethods, hasStatus, workerHistory>>
        /\ worker' = "live" /\ LinkExactly(q.held)
    BY <1>7 DEF SaveWorker, WorkerAt
  <2> HIDE DEF n
  <2>3. MethodsKnown(q, defaultMethods) => MethodsKnown(n, defaultMethods) /\ AtMostOne(q.held \cap defaultMethods)
    BY <2>1, <2>2 DEF MethodsKnown, FirstSteps
  <2>4. "live" \in WorkerRow /\ "live" # "none"
    BY DEF WorkerRow
  <2> QED BY <2>1, <2>2, <2>3, <2>4, <1>1, <1>2, <1>3, LinkedExactly, WorkerGoes DEF FirstSteps
<1>8. CASE SaveTraineeStatus(r)
  <2>1. /\ WorkerGo(r, NoWorkerRequest) /\ q.at = "status" /\ hasStatus' = TRUE
        /\ UNCHANGED <<methodRows, defaultMethods, worker, workerHistory>>
    BY <1>8 DEF SaveTraineeStatus, WorkerAt
  <2>2. LinkedMethods' = LinkedMethods
    BY <2>1 DEF LinkedMethods
  <2> QED BY <2>1, <2>2, <1>1, <1>2, <1>3, WorkerIdle, WorkerGoes DEF FirstSteps
<1>9. CASE SaveUpdate(r)
  <2>1. /\ WorkerGo(r, NoWorkerRequest) /\ q.at = "save_update" /\ worker' = "live" /\ LinkExactly(q.held)
        /\ UNCHANGED <<defaultMethods, hasStatus, workerHistory>>
    BY <1>9 DEF SaveUpdate, WorkerAt
  <2>2. MethodsKnown(q, defaultMethods) => AtMostOne(q.held \cap defaultMethods)
    BY DEF MethodsKnown
  <2>4. "live" \in WorkerRow /\ "live" # "none"
    BY DEF WorkerRow
  <2> QED BY <2>1, <2>2, <2>4, <1>1, <1>2, <1>3, LinkedExactly, WorkerIdle, WorkerGoes
             DEF FirstSteps
<1>10. CASE SaveDeleted(r)
  <2>1. /\ WorkerGo(r, NoWorkerRequest) /\ q.at = "save_deleted" /\ worker' = "deleted"
        /\ UNCHANGED <<methodRows, defaultMethods, hasStatus, workerHistory>>
    BY <1>10 DEF SaveDeleted, WorkerAt
  <2>2. LinkedMethods' = LinkedMethods
    BY <2>1 DEF LinkedMethods
  <2>4. "deleted" \in WorkerRow /\ "deleted" # "none"
    BY DEF WorkerRow
  <2> QED BY <2>1, <2>2, <2>4, <1>1, <1>2, <1>3, WorkerIdle, WorkerGoes DEF FirstSteps
<1>11. CASE NextMethod(r)
  <2>1. /\ q.at = "new" /\ UNCHANGED <<workerRows, workerHistory>>
        /\ WorkerGo(r, IF q.news = << >> THEN [q EXCEPT !.at = "save_update"]
                       ELSE [q EXCEPT !.at = "clear",
                               !.toClear = IF Head(q.news) = "true" THEN q.held ELSE {}])
    BY <1>11 DEF NextMethod, WorkerAt
  <2>2. LinkedMethods' = LinkedMethods
    BY <2>1 DEF workerRows, LinkedMethods
  <2>3. CASE q.news = << >>
    <3> DEFINE n == [q EXCEPT !.at = "save_update"]
    <3>1. n \in WorkerRequest /\ n.at = "save_update" /\ n.held = q.held /\ n.news = q.news
      BY <1>1 DEF WorkerRequest
    <3>2. WorkerGo(r, n)
      BY <2>1, <2>3
    <3> HIDE DEF n
    <3>3. MethodsKnown(q, defaultMethods) => MethodsKnown(n, defaultMethods)
      BY <3>1 DEF MethodsKnown, FirstSteps
    <3> QED BY <2>1, <2>2, <3>1, <3>2, <3>3, <1>1, <1>2, <1>3, WorkerGoes DEF FirstSteps, workerRows
  <2>4. CASE q.news # << >>
    <3> DEFINE clear == IF Head(q.news) = "true" THEN q.held ELSE {}
    <3> DEFINE n == [q EXCEPT !.at = "clear", !.toClear = clear]
    <3>1. n \in WorkerRequest /\ n.at = "clear" /\ n.held = q.held /\ n.news = q.news /\ n.toClear = clear
      BY <1>1 DEF WorkerRequest
    <3>2. WorkerGo(r, n)
      BY <2>1, <2>4
    <3> HIDE DEF n
    <3>3. MethodsKnown(q, defaultMethods) => MethodsKnown(n, defaultMethods)
      BY <2>4, <3>1 DEF MethodsKnown, FirstSteps
    <3> HIDE DEF clear
    <3> QED BY <2>1, <2>2, <2>4, <3>1, <3>2, <3>3, <1>1, <1>2, <1>3, WorkerGoes DEF FirstSteps,
               workerRows
  <2> QED BY <2>3, <2>4
<1>12. ASSUME NEW m \in Methods, SaveFirstMethod(r, m) PROVE WorkerInv'
  <2> DEFINE h == Head(q.news)
             t == Tail(q.news)
             n == [q EXCEPT !.held = q.held \cup {m}, !.news = t]
  <2>1. /\ q.at = "methods" /\ q.news # << >> /\ InsertMethod(m, h) /\ UNCHANGED <<worker, hasStatus, workerHistory>>
        /\ workerRequests' = [workerRequests EXCEPT ![r] = [q EXCEPT !.held = q.held \cup {m}, !.news = t]]
    BY <1>12 DEF SaveFirstMethod, WorkerAt, WorkerGo
  <2>2. /\ t \in NewMethods /\ h \in IsDefaultInputs
        /\ (\A i \in DOMAIN q.news : q.news[i] # "omitted") => h # "omitted" /\ \A i \in DOMAIN t : t[i] # "omitted"
        /\ OneTrue(q.news) => OneTrue(t) /\ (h = "true" => NoTrue(t))
        /\ NoTrue(q.news) => h # "true" /\ NoTrue(t)
    BY <2>1, <1>1, TailOfMethods
  <2> HIDE DEF h, t
  <2>4. n \in WorkerRequest /\ n.at = "methods" /\ n.held = q.held \cup {m} /\ n.news = t
    BY <2>1, <2>2, <1>1 DEF WorkerRequest
  <2>5. WorkerGo(r, n)
    BY <2>1 DEF WorkerGo
  <2> HIDE DEF n
  <2>6. /\ methodRows' \in [Methods -> MethodRow] /\ defaultMethods' \subseteq Methods
        /\ LinkedMethods' = LinkedMethods /\ m \notin LinkedMethods /\ m \notin defaultMethods
        /\ \A k \in Methods : methodRows'[k] = "absent" => k \notin defaultMethods'
        /\ defaultMethods' = IF h = "false" THEN defaultMethods ELSE defaultMethods \cup {m}
    BY <2>1, <2>2, MethodInserted
  <2>7. MethodsKnown(q, defaultMethods) => MethodsKnown(n, defaultMethods')
    <3> SUFFICES ASSUME MethodsKnown(q, defaultMethods) PROVE MethodsKnown(n, defaultMethods')
      OBVIOUS
    <3>1. /\ OneTrue(t) /\ (h = "true" => NoTrue(t)) /\ h # "omitted" /\ \A i \in DOMAIN t : t[i] # "omitted"
          /\ AtMostOne(q.held \cap defaultMethods)
          /\ q.held \cap defaultMethods # {} => h # "true" /\ NoTrue(t)
      BY <2>1, <2>2 DEF MethodsKnown, FirstSteps
    <3>2. CASE h = "true"
      <4>1. n.held \cap defaultMethods' = {m}
        BY <3>1, <3>2, <2>4, <2>6
      <4> QED BY <4>1, <3>1, <3>2, <2>4 DEF MethodsKnown, AtMostOne
    <3>3. CASE h = "false"
      <4>1. n.held \cap defaultMethods' = q.held \cap defaultMethods
        BY <3>3, <2>4, <2>6
      <4> QED BY <4>1, <3>1, <2>4 DEF MethodsKnown
    <3> QED BY <3>1, <3>2, <3>3, <2>2 DEF IsDefaultInputs
  <2>8. LinkedMethods' \cap defaultMethods' = LinkedMethods \cap defaultMethods
    BY <2>6
  <2> QED BY <2>1, <2>4, <2>5, <2>6, <2>7, <2>8, <1>1, <1>2, <1>3, WorkerGoes DEF FirstSteps
<1>13. ASSUME NEW m \in Methods, ClearDefault(r, m) PROVE WorkerInv'
  <2> DEFINE n == [q EXCEPT !.toClear = q.toClear \ {m}]
  <2>1. /\ q.at = "clear" /\ defaultMethods' = defaultMethods \ {m}
        /\ UNCHANGED <<methodRows, worker, hasStatus, workerHistory>>
        /\ workerRequests' = [workerRequests EXCEPT ![r] = [q EXCEPT !.toClear = q.toClear \ {m}]]
    BY <1>13 DEF ClearDefault, WorkerAt, WorkerGo
  <2>3. /\ n \in WorkerRequest /\ n.at = "clear" /\ n.held = q.held /\ n.news = q.news
        /\ n.toClear = q.toClear \ {m}
    BY <2>1, <1>1 DEF WorkerRequest
  <2>4. WorkerGo(r, n) /\ q.news # << >>
    BY <2>1 DEF WorkerGo, WorkerInv, MethodsInv, WorkerAt
  <2> HIDE DEF n
  <2>5. LinkedMethods' = LinkedMethods
    BY <2>1 DEF LinkedMethods
  <2>6. MethodsKnown(q, defaultMethods) => MethodsKnown(n, defaultMethods')
    BY <2>1, <2>3 DEF MethodsKnown, AtMostOne, FirstSteps
  <2>7. AtMostOne(LinkedMethods \cap defaultMethods) => AtMostOne(LinkedMethods' \cap defaultMethods')
    BY <2>1, <2>5 DEF AtMostOne
  <2>8. defaultMethods' \subseteq Methods /\ \A k \in Methods : methodRows'[k] = "absent" => k \notin defaultMethods'
    BY <2>1, <1>1
  <2> QED BY <2>1, <2>3, <2>4, <2>5, <2>6, <2>7, <2>8, <1>1, <1>2, <1>3, WorkerGoes DEF FirstSteps
<1>14. ASSUME NEW m \in Methods, SaveMethod(r, m) PROVE WorkerInv'
  <2> DEFINE h == Head(q.news)
             t == Tail(q.news)
             n == [q EXCEPT !.at = "new", !.held = q.held \cup {m}, !.news = t]
  <2>1. /\ q.at = "clear" /\ q.toClear = {} /\ InsertMethod(m, h) /\ UNCHANGED <<worker, hasStatus, workerHistory>>
        /\ workerRequests' = [workerRequests EXCEPT ![r] = [q EXCEPT !.at = "new", !.held = q.held \cup {m}, !.news = t]]
    BY <1>14 DEF SaveMethod, WorkerAt, WorkerGo
  <2>2. q.news # << >>
    BY <2>1 DEF WorkerInv, MethodsInv, WorkerAt
  <2>3. /\ t \in NewMethods /\ h \in IsDefaultInputs
        /\ (\A i \in DOMAIN q.news : q.news[i] # "omitted") => h # "omitted" /\ \A i \in DOMAIN t : t[i] # "omitted"
    BY <2>2, <1>1, TailOfMethods
  <2> HIDE DEF h
  <2> HIDE DEF t
  <2>5. n \in WorkerRequest /\ n.at = "new" /\ n.held = q.held \cup {m} /\ n.news = t
    BY <2>1, <2>3, <1>1 DEF WorkerRequest
  <2>6. WorkerGo(r, n)
    BY <2>1 DEF WorkerGo
  <2> HIDE DEF n
  <2>7. /\ methodRows' \in [Methods -> MethodRow] /\ defaultMethods' \subseteq Methods
        /\ LinkedMethods' = LinkedMethods /\ m \notin LinkedMethods /\ m \notin defaultMethods
        /\ \A k \in Methods : methodRows'[k] = "absent" => k \notin defaultMethods'
        /\ defaultMethods' = IF h = "false" THEN defaultMethods ELSE defaultMethods \cup {m}
    BY <2>1, <2>3, MethodInserted
  <2>8. MethodsKnown(q, defaultMethods) => MethodsKnown(n, defaultMethods')
    <3> SUFFICES ASSUME MethodsKnown(q, defaultMethods) PROVE MethodsKnown(n, defaultMethods')
      OBVIOUS
    <3>1. /\ h # "omitted" /\ \A i \in DOMAIN t : t[i] # "omitted"
          /\ AtMostOne(q.held \cap defaultMethods)
      BY <2>3 DEF MethodsKnown
    <3>2. h = "true" => q.held \cap defaultMethods = {}
      BY <2>1 DEF MethodsKnown, h
    <3>3. CASE h = "true"
      <4>1. n.held \cap defaultMethods' = {m}
        BY <3>2, <3>3, <2>5, <2>7
      <4> QED BY <4>1, <3>1, <2>5 DEF MethodsKnown, AtMostOne, FirstSteps
    <3>4. CASE h = "false"
      <4>1. n.held \cap defaultMethods' = q.held \cap defaultMethods
        BY <3>4, <2>5, <2>7
      <4> QED BY <4>1, <3>1, <2>5 DEF MethodsKnown, FirstSteps
    <3> QED BY <3>1, <3>3, <3>4, <2>3 DEF IsDefaultInputs
  <2>9. LinkedMethods' \cap defaultMethods' = LinkedMethods \cap defaultMethods
    BY <2>7
  <2> QED BY <2>1, <2>5, <2>6, <2>7, <2>8, <2>9, <1>1, <1>2, <1>3, WorkerGoes DEF FirstSteps
<1> QED BY <1>4, <1>5, <1>6, <1>7, <1>8, <1>9, <1>10, <1>11, <1>12, <1>13, <1>14

LEMMA WorkerCrashInv ==
  ASSUME WorkerInv, WorkerCrash PROVE WorkerInv'
<1>1. /\ creationDied' = (creationDied \/ Creating) /\ UNCHANGED <<workerRows, workerUpdates, workerOverlap, looseDefaults>>
      /\ workerRequests' = [r \in WorkerSlots |-> NoWorkerRequest]
  BY DEF WorkerCrash
<1>2. \A r \in WorkerSlots : workerRequests'[r].at = "idle"
  BY <1>1, WorkerIdle
<1>3. UNCHANGED <<methodRows, defaultMethods, worker, hasStatus>> /\ LinkedMethods' = LinkedMethods
  BY <1>1 DEF workerRows, LinkedMethods
<1>4. creationDied' \in BOOLEAN /\ workerRequests' \in [WorkerSlots -> WorkerRequest]
  BY <1>1, WorkerIdle DEF WorkerInv, WorkerTypeOK
<1>5. WorkerTypeOK'
  BY <1>1, <1>3, <1>4 DEF WorkerInv, WorkerTypeOK
<1>6. CreationInv'
  <2>1. worker # "none" => hasStatus \/ creationDied \/ Creating
    BY DEF WorkerInv, CreationInv, WorkerAt, Creating
  <2> QED BY <2>1, <1>1, <1>2, <1>3 DEF WorkerInv, CreationInv, WorkerAt, FirstSteps
<1>7. MethodsInv'
  BY <1>1, <1>2, <1>3 DEF WorkerInv, MethodsInv, WorkerAt
<1> QED BY <1>5, <1>6, <1>7 DEF WorkerInv

LEMMA WorkerAlways == WorkerSpec => []WorkerInv
<1>1. ASSUME WorkerInv, [WorkerNext]_workerVars PROVE WorkerInv'
  <2>1. CASE WorkerCrash
    BY <2>1, <1>1, WorkerCrashInv
  <2>2. ASSUME NEW r \in WorkerSlots, WorkerStep(r) PROVE WorkerInv'
    <3>1. CASE CreateWorker(r) \/ UpdateWorker(r) \/ DeleteWorker(r)
      BY <3>1, <1>1, WorkerBeginInv
    <3>2. CASE \/ SaveIdentityDoc(r) \/ FindAreas(r) \/ AreaNotFound(r) \/ SaveWorker(r) \/ SaveTraineeStatus(r)
               \/ NextMethod(r) \/ SaveUpdate(r) \/ SaveDeleted(r)
               \/ \E m \in Methods : SaveFirstMethod(r, m) \/ ClearDefault(r, m) \/ SaveMethod(r, m)
      BY <3>2, <1>1, WorkerStepInv
    <3> QED BY <2>2, <3>1, <3>2 DEF WorkerStep
  <2>3. CASE UNCHANGED workerVars
    BY <2>3, <1>1 DEF WorkerInv, WorkerTypeOK, CreationInv, MethodsInv, workerVars, workerRows,
                     workerHistory, WorkerAt, LinkedMethods
  <2> QED BY <1>1, <2>1, <2>2, <2>3 DEF WorkerNext
<1> QED BY <1>1, WorkerInitially, PTL DEF WorkerSpec

\* Every variable of the worker's rows keeps its type, for any number of payment methods,
\* requests at once and updates.
THEOREM WorkerTypeCorrect == WorkerSpec => []WorkerTypeOK
<1>1. WorkerInv => WorkerTypeOK
  BY DEF WorkerInv
<1> QED BY <1>1, WorkerAlways, PTL

\* A live worker without a worker_status row, at whom every search of her areas fails, is
\* one whose creation still runs or died halfway: no update or deletion makes another.
THEOREM SearchBreaksAtCreation == WorkerSpec => []SearchBreaksOnlyInCreation
<1>1. WorkerInv => SearchBreaksOnlyInCreation
  BY DEF WorkerInv, WorkerTypeOK, CreationInv, SearchBreaksOnlyInCreation, SearchBreaks,
     Creating, WorkerAt
<1> QED BY <1>1, WorkerAlways, PTL

\* Updates that do not overlap, and say which method is the default, leave the worker at
\* most one, after a death between any two of their saves too.
THEOREM DefaultMethodKept == WorkerSpec => []OneDefaultMethod
<1>1. WorkerInv => OneDefaultMethod
  <2>1. IsFiniteSet(LinkedMethods \cap defaultMethods)
    <3>1. LinkedMethods \cap defaultMethods \in SUBSET Methods
      BY DEF LinkedMethods
    <3> QED BY <3>1, MethodsAssumption, FS_Subset
  <2> QED BY <2>1, FewerThanTwo DEF WorkerInv, MethodsInv, OneDefaultMethod
<1> QED BY <1>1, WorkerAlways, PTL

(***************************************************************************)
(* LocationTree: areas under areas.                                        *)
(***************************************************************************)
\* What a request that saves an area will write fits the tree: a row of the level below
\* the new parent, which is a live area.
AreaFits(q) ==
  /\ q.at \in {"load", "save", "doomed", "count", "delete"} => q.area \in Areas
  /\ q.at = "parent" => q.parent \in Parents
  /\ q.at \in {"load", "parent"} /\ q.area # NoArea /\ q.parent # NoArea =>
       q.area \in Under(q.parent)
  /\ q.at = "save" => q.area \in Under(q.parent)
  /\ q.seeds => q.area = NoArea
  /\ q.at = "seed" => q.seeds

\* Without a race, what a request has found out about the tree still holds.
StillTrue(q) ==
  /\ q.at \in {"insert", "save"} /\ q.parent # NoArea => LiveArea(q.parent)
  /\ q.at = "delete" => Children(q.area) = {}

\* Requests that run side by side all delete or all save.
AreasAlike ==
  \A r, k \in AreaSlots : ~AreaAt(r, "idle") /\ ~AreaAt(k, "idle") =>
    (Deletes(areaRequests[r]) <=> Deletes(areaRequests[k]))

\* Every live area is of the level below its parent.
AreaLevels == \A a \in Areas : LiveArea(a) => a \in Under(parentOf[a])

AreaInv ==
  /\ AreaTypeOK
  /\ AreaLevels
  /\ \A r \in AreaSlots : AreaFits(areaRequests[r])
  /\ ~deletionRaced => AreasAlike /\ NoOrphans /\ \A r \in AreaSlots : StillTrue(areaRequests[r])

AreaBegin(r) ==
       \/ CreateZone(r) \/ CreateSourcingZone(r) \/ CreateMicroarea(r)
       \/ UpdateZone(r) \/ UpdateSourcingZone(r) \/ UpdateMicroarea(r)
       \/ DeleteZone(r) \/ DeleteSourcingZone(r) \/ DeleteMicroarea(r)
       \/ SeedLocations(r)

LEMMA AreaIdles ==
  /\ NoAreaRequest \in AreaRequest /\ NoAreaRequest.at = "idle"
  /\ AreaFits(NoAreaRequest) /\ StillTrue(NoAreaRequest)
  BY DEF NoAreaRequest, AreaRequest, AreaFits, StillTrue

LEMMA AreaInitially == AreaInit => AreaInv
<1> SUFFICES ASSUME AreaInit PROVE AreaInv
  OBVIOUS
<1>1. AreaTypeOK
  <2>1. areaRequests \in [AreaSlots -> AreaRequest]
    BY AreaIdles DEF AreaInit
  <2>2. areaRows \in [Areas -> AreaRow] /\ parentOf \in [Areas -> Parents \cup {NoArea}]
    BY DEF AreaInit, AreaRow
  <2>3. areaCalls \in 0..MaxAreaRequests
    BY AreaLimitsAssumption DEF AreaInit
  <2> QED BY <2>1, <2>2, <2>3 DEF AreaInit, AreaTypeOK
<1>2. AreaLevels
  BY DEF AreaInit, AreaLevels, LiveArea
<1>3. \A r \in AreaSlots : AreaFits(areaRequests[r]) /\ StillTrue(areaRequests[r])
  BY DEF AreaInit, AreaFits, StillTrue, NoAreaRequest
<1>4. AreasAlike /\ NoOrphans
  BY DEF AreaInit, AreasAlike, NoOrphans, AreaAt, NoAreaRequest, LiveArea
<1> QED BY <1>1, <1>2, <1>3, <1>4 DEF AreaInv

\* A new request knows nothing of the tree yet.
LEMMA AreaBeginsInv ==
  ASSUME AreaInv, NEW r \in AreaSlots, NEW q \in AreaRequest, AreaFits(q), AreaBegins(r, q),
         q.at \in {"load", "parent", "doomed", "seed"} \/ (q.at = "insert" /\ q.parent = NoArea)
  PROVE  AreaInv'
<1>1. AreaTypeOK'
  BY AreaLimitsAssumption DEF AreaInv, AreaTypeOK, AreaBegins, AreaGo
<1>2. AreaLevels'
  BY DEF AreaInv, AreaLevels, AreaBegins, LiveArea
<1>3. \A k \in AreaSlots : areaRequests'[k] = IF k = r THEN q ELSE areaRequests[k]
  BY DEF AreaInv, AreaTypeOK, AreaBegins, AreaGo
<1>4. \A k \in AreaSlots : AreaFits(areaRequests[k])'
  BY <1>3 DEF AreaInv, AreaFits
<1>5. ASSUME ~deletionRaced'
      PROVE  (AreasAlike /\ NoOrphans /\ \A k \in AreaSlots : StillTrue(areaRequests[k]))'
  <2>1. ~deletionRaced /\ \A k \in AreaSlots : ~AreaAt(k, "idle") =>
                             (Deletes(q) <=> Deletes(areaRequests[k]))
    BY <1>5 DEF AreaBegins, AreaInv, AreaTypeOK, Deletes
  <2>2. AreasAlike'
    BY <2>1, <1>3 DEF AreaInv, AreasAlike, AreaAt, Deletes
  <2>3. NoOrphans'
    BY <2>1 DEF AreaInv, NoOrphans, AreaBegins, LiveArea
  <2>4. \A k \in AreaSlots : StillTrue(areaRequests[k])'
    <3>1. StillTrue(q)'
      BY DEF StillTrue
    <3>2. ASSUME NEW p \in AreaRequest, StillTrue(p) PROVE StillTrue(p)'
      BY <3>2 DEF StillTrue, LiveArea, Children, AreaBegins
    <3> QED BY <3>1, <3>2, <2>1, <1>3 DEF AreaInv, AreaTypeOK
  <2> QED BY <2>2, <2>3, <2>4
<1> QED BY <1>1, <1>2, <1>4, <1>5 DEF AreaInv

LEMMA AreaBeginInv ==
  ASSUME AreaInv, NEW r \in AreaSlots, AreaBegin(r) PROVE AreaInv'
<1> USE AreasAssumption DEF AreaFits, NoAreaRequest, AreaRequest, Areas, Parents, Under
<1>1. CASE CreateZone(r) \/ SeedLocations(r)
  BY <1>1, AreaBeginsInv DEF CreateZone, SeedLocations
<1>2. CASE CreateSourcingZone(r) \/ CreateMicroarea(r)
  BY <1>2, AreaBeginsInv DEF CreateSourcingZone, CreateMicroarea
<1>3. CASE UpdateZone(r)
  BY <1>3, AreaBeginsInv DEF UpdateZone
<1>4. CASE UpdateSourcingZone(r)
  BY <1>4, AreaBeginsInv DEF UpdateSourcingZone
<1>5. CASE UpdateMicroarea(r)
  BY <1>5, AreaBeginsInv DEF UpdateMicroarea
<1>6. CASE DeleteZone(r) \/ DeleteSourcingZone(r) \/ DeleteMicroarea(r)
  BY <1>6, AreaBeginsInv DEF DeleteZone, DeleteSourcingZone, DeleteMicroarea
<1> QED BY <1>1, <1>2, <1>3, <1>4, <1>5, <1>6 DEF AreaBegin

\* A request that leaves the tables alone goes on: what it has found out is true now.
LEMMA AreaGoesInv ==
  ASSUME AreaInv, NEW r \in AreaSlots, NEW q \in AreaRequest, AreaGo(r, q),
         UNCHANGED <<areaRows, parentOf, areaCalls, deletionRaced>>,
         ~AreaAt(r, "idle"), AreaFits(q), ~deletionRaced => StillTrue(q),
         q.at = "idle" \/ (Deletes(q) <=> Deletes(areaRequests[r]))
  PROVE  AreaInv'
<1>1. AreaTypeOK'
  BY DEF AreaInv, AreaTypeOK, AreaGo
<1>2. AreaLevels'
  BY DEF AreaInv, AreaLevels, LiveArea
<1>3. \A k \in AreaSlots : areaRequests'[k] = IF k = r THEN q ELSE areaRequests[k]
  BY DEF AreaInv, AreaTypeOK, AreaGo
<1>4. \A k \in AreaSlots : AreaFits(areaRequests[k])'
  BY <1>3 DEF AreaInv, AreaFits
<1>5. ASSUME ~deletionRaced'
      PROVE  (AreasAlike /\ NoOrphans /\ \A k \in AreaSlots : StillTrue(areaRequests[k]))'
  <2>1. AreasAlike'
    BY <1>5, <1>3 DEF AreaInv, AreasAlike, AreaAt, Deletes
  <2>2. NoOrphans'
    BY <1>5 DEF AreaInv, NoOrphans, LiveArea
  <2>3. \A k \in AreaSlots : StillTrue(areaRequests[k])'
    <3>1. ASSUME NEW p \in AreaRequest, StillTrue(p) PROVE StillTrue(p)'
      BY <3>1 DEF StillTrue, LiveArea, Children
    <3> QED BY <3>1, <1>5, <1>3 DEF AreaInv, AreaTypeOK
  <2> QED BY <2>1, <2>2, <2>3
<1> QED BY <1>1, <1>2, <1>4, <1>5 DEF AreaInv

LEMMA AreaReadsInv ==
  ASSUME AreaInv, NEW r \in AreaSlots,
         SeedArea(r) \/ LoadArea(r) \/ LoadParent(r) \/ LoadDoomedArea(r) \/ CountChildren(r)
  PROVE  AreaInv'
<1> DEFINE q == areaRequests[r]
<1>q. q \in AreaRequest /\ AreaFits(q)
  BY DEF AreaInv, AreaTypeOK
<1>a. NoArea \notin Areas
  BY AreasAssumption DEF Areas
<1>e. ASSUME AreaEnd(r), UNCHANGED <<areaRows, parentOf, areaCalls, deletionRaced>>,
             ~AreaAt(r, "idle")
      PROVE  AreaInv'
  BY <1>e, AreaIdles, AreaGoesInv DEF AreaEnd
<1> HIDE DEF q
<1>1. CASE SeedArea(r)
  <2>0. q.at = "seed" /\ ~AreaAt(r, "idle")
    BY <1>1 DEF SeedArea, AreaAt, q
  <2>1. CASE AreaEnd(r)
    BY <2>0, <2>1, <1>1, <1>e DEF SeedArea
  <2>2. ASSUME NEW p \in Parents \cup {NoArea},
               AreaGo(r, [q EXCEPT !.at = IF p = NoArea THEN "insert" ELSE "parent", !.parent = p])
        PROVE  AreaInv'
    <3> DEFINE n == [q EXCEPT !.at = IF p = NoArea THEN "insert" ELSE "parent", !.parent = p]
    <3>1. n \in AreaRequest /\ n.area = q.area /\ n.seeds = q.seeds /\ n.parent = p
          /\ n.at = IF p = NoArea THEN "insert" ELSE "parent"
      BY <1>q DEF AreaRequest
    <3> HIDE DEF n
    <3>2. AreaFits(n) /\ StillTrue(n)
      BY <3>1, <2>0, <1>q DEF AreaFits, StillTrue
    <3>3. Deletes(n) <=> Deletes(q)
      BY <3>1, <2>0 DEF Deletes
    <3> QED BY <3>1, <3>2, <3>3, <2>0, <2>2, <1>1, AreaGoesInv DEF SeedArea, n, q
  <2> QED BY <2>1, <2>2, <1>1 DEF SeedArea, q
<1>2. CASE LoadArea(r)
  <2>0. q.at = "load" /\ ~AreaAt(r, "idle") /\ q.area \in Areas
    BY <1>2, <1>q DEF LoadArea, AreaAt, AreaFits, q
  <2>1. CASE ~LiveArea(q.area)
    BY <2>0, <2>1, <1>2, <1>e DEF LoadArea, q
  <2>2. CASE LiveArea(q.area) /\ q.parent = NoArea
    <3> DEFINE n == [q EXCEPT !.at = "save", !.parent = parentOf[q.area]]
    <3>1. n \in AreaRequest /\ n.area = q.area /\ n.seeds = q.seeds
          /\ n.parent = parentOf[q.area] /\ n.at = "save"
      BY <1>q, <2>0 DEF AreaRequest, AreaInv, AreaTypeOK
    <3>2. AreaGo(r, n)
      BY <1>2, <2>2 DEF LoadArea, q
    <3> HIDE DEF n
    <3>3. q.area \in Under(parentOf[q.area])
      BY <2>2, <2>0 DEF AreaInv, AreaLevels, LiveArea
    <3>4. AreaFits(n)
      BY <3>3, <3>1, <2>0, <1>q DEF AreaFits
    <3>5. ~deletionRaced /\ parentOf[q.area] # NoArea => LiveArea(parentOf[q.area])
      <4>1. parentOf[q.area] # NoArea => q.area \in SourcingZones \cup Microareas
        BY <3>3, <2>0 DEF Under, AreaInv, AreaTypeOK, Parents
      <4> QED BY <4>1, <2>2 DEF AreaInv, NoOrphans
    <3>7. ~deletionRaced => StillTrue(n)
      BY <3>1, <3>5 DEF StillTrue
    <3>6. Deletes(n) <=> Deletes(q)
      BY <3>1, <2>0 DEF Deletes
    <3> QED BY <3>1, <3>2, <3>4, <3>7, <3>6, <2>0, <1>2, AreaGoesInv DEF LoadArea, q
  <2>3. CASE LiveArea(q.area) /\ q.parent # NoArea
    <3> DEFINE n == [q EXCEPT !.at = "parent"]
    <3>1. n \in AreaRequest /\ n.area = q.area /\ n.seeds = q.seeds
          /\ n.parent = q.parent /\ n.at = "parent"
      BY <1>q DEF AreaRequest
    <3>2. AreaGo(r, n)
      BY <1>2, <2>3 DEF LoadArea, q
    <3> HIDE DEF n
    <3>4. AreaFits(n) /\ StillTrue(n)
      <4>1. q.parent \in Parents
        BY <2>3, <1>q DEF AreaRequest
      <4> QED BY <4>1, <2>3, <3>1, <2>0, <1>q DEF AreaFits, StillTrue
    <3>6. Deletes(n) <=> Deletes(q)
      BY <3>1, <2>0 DEF Deletes
    <3> QED BY <3>1, <3>2, <3>4, <3>6, <2>0, <1>2, AreaGoesInv DEF LoadArea, q
  <2> QED BY <2>1, <2>2, <2>3
<1>3. CASE LoadParent(r)
  <2>0. q.at = "parent" /\ ~AreaAt(r, "idle") /\ q.parent \in Parents
    BY <1>3, <1>q DEF LoadParent, AreaAt, AreaFits, q
  <2>1. CASE AreaEnd(r)
    BY <2>0, <2>1, <1>3, <1>e DEF LoadParent
  <2>2. ASSUME NEW a \in {"insert", "save", "seed"}, AreaGo(r, [q EXCEPT !.at = a]),
               a = "seed" => q.seeds, a = "save" <=> ~(q.area = NoArea \/ a = "seed"),
               a = "seed" \/ LiveArea(q.parent)
        PROVE  AreaInv'
    <3> DEFINE n == [q EXCEPT !.at = a]
    <3>1. n \in AreaRequest /\ n.area = q.area /\ n.seeds = q.seeds /\ n.parent = q.parent /\ n.at = a
      BY <1>q DEF AreaRequest
    <3>2. AreaGo(r, n)
      BY <2>2
    <3> HIDE DEF n
    <3>4. AreaFits(n) /\ StillTrue(n)
      <4>1. q.area # NoArea => q.area \in Areas
        BY <1>q DEF AreaRequest
      <4>2. q.parent # NoArea
        BY <2>0, AreasAssumption DEF Parents
      <4> QED BY <4>1, <4>2, <3>1, <2>0, <2>2, <1>q DEF AreaFits, StillTrue
    <3>6. Deletes(n) <=> Deletes(q)
      BY <3>1, <2>0, <2>2 DEF Deletes
    <3> QED BY <3>1, <3>2, <3>4, <3>6, <2>0, <1>3, AreaGoesInv DEF LoadParent, q
  <2>3. CASE LiveArea(q.parent)
    <3>1. AreaGo(r, [q EXCEPT !.at = IF q.area = NoArea THEN "insert" ELSE "save"])
      BY <2>3, <1>3 DEF LoadParent, q
    <3> QED BY <3>1, <2>3, <2>2
  <2>4. CASE ~LiveArea(q.parent) /\ q.seeds /\ q.parent \in SourcingZones
    BY <2>4, <2>2, <1>3 DEF LoadParent, q
  <2> QED BY <2>1, <2>3, <2>4, <1>3 DEF LoadParent, q
<1>4. CASE LoadDoomedArea(r)
  <2>0. q.at = "doomed" /\ ~AreaAt(r, "idle") /\ q.area \in Areas
    BY <1>4, <1>q DEF LoadDoomedArea, AreaAt, AreaFits, q
  <2>1. CASE ~LiveArea(q.area)
    BY <2>0, <2>1, <1>4, <1>e DEF LoadDoomedArea, q
  <2>2. CASE LiveArea(q.area)
    <3> DEFINE n == [q EXCEPT !.at = IF q.area \in Microareas THEN "delete" ELSE "count"]
    <3>1. n \in AreaRequest /\ n.area = q.area /\ n.seeds = q.seeds /\ n.parent = q.parent
          /\ n.at = IF q.area \in Microareas THEN "delete" ELSE "count"
      BY <1>q DEF AreaRequest
    <3>2. AreaGo(r, n)
      BY <1>4, <2>2 DEF LoadDoomedArea, q
    <3> HIDE DEF n
    <3>3. q.area \in Microareas => Children(q.area) = {}
      BY AreasAssumption DEF Children, AreaInv, AreaTypeOK, Parents
    <3>4. AreaFits(n) /\ StillTrue(n)
      BY <3>1, <3>3, <2>0, <1>q DEF AreaFits, StillTrue
    <3>6. Deletes(n) <=> Deletes(q)
      BY <3>1, <2>0 DEF Deletes
    <3> QED BY <3>1, <3>2, <3>4, <3>6, <2>0, <1>4, AreaGoesInv DEF LoadDoomedArea, q
  <2> QED BY <2>1, <2>2
<1>5. CASE CountChildren(r)
  <2>0. q.at = "count" /\ ~AreaAt(r, "idle") /\ q.area \in Areas
    BY <1>5, <1>q DEF CountChildren, AreaAt, AreaFits, q
  <2>1. CASE Children(q.area) # {}
    BY <2>0, <2>1, <1>5, <1>e DEF CountChildren, q
  <2>2. CASE Children(q.area) = {}
    <3> DEFINE n == [q EXCEPT !.at = "delete"]
    <3>1. n \in AreaRequest /\ n.area = q.area /\ n.seeds = q.seeds /\ n.parent = q.parent
          /\ n.at = "delete"
      BY <1>q DEF AreaRequest
    <3>2. AreaGo(r, n)
      BY <1>5, <2>2 DEF CountChildren, q
    <3> HIDE DEF n
    <3>4. AreaFits(n) /\ StillTrue(n)
      BY <3>1, <2>2, <2>0, <1>q DEF AreaFits, StillTrue
    <3>6. Deletes(n) <=> Deletes(q)
      BY <3>1, <2>0 DEF Deletes
    <3> QED BY <3>1, <3>2, <3>4, <3>6, <2>0, <1>5, AreaGoesInv DEF CountChildren, q
  <2> QED BY <2>1, <2>2
<1> QED BY <1>1, <1>2, <1>3, <1>4, <1>5

LEMMA InsertAreaInv ==
  ASSUME AreaInv, NEW r \in AreaSlots, NEW a \in Areas, InsertArea(r, a),
         NEW q, q = areaRequests[r]
  PROVE  AreaInv'
<1> DEFINE n == IF q.seeds THEN [q EXCEPT !.at = "seed"] ELSE NoAreaRequest
<1>q. q \in AreaRequest /\ AreaFits(q) /\ q.at = "insert" /\ AreaGo(r, n)
  BY DEF AreaInv, AreaTypeOK, InsertArea, AreaAt, AreaEnd
<1>1. n \in AreaRequest /\ n.at \in {"seed", "idle"} /\ AreaFits(n) /\ StillTrue(n)
  BY <1>q, AreaIdles DEF AreaRequest, AreaFits, StillTrue
<1> HIDE DEF n
<1>2. \A k \in AreaSlots : areaRequests'[k] = IF k = r THEN n ELSE areaRequests[k]
  BY <1>q DEF AreaInv, AreaTypeOK, AreaGo
<1>3. /\ areaRows[a] = "absent" /\ a \in Under(q.parent)
      /\ \A b \in Areas : areaRows'[b] = IF b = a THEN "live" ELSE areaRows[b]
      /\ \A b \in Areas : parentOf'[b] = IF b = a THEN q.parent ELSE parentOf[b]
      /\ UNCHANGED <<areaCalls, deletionRaced>>
  BY DEF AreaInv, AreaTypeOK, InsertArea
<1>4. AreaTypeOK'
  BY <1>q, <1>1 DEF AreaInv, AreaTypeOK, InsertArea, AreaGo, AreaRow, AreaRequest
<1>5. AreaLevels'
  BY <1>3 DEF AreaInv, AreaLevels, LiveArea
<1>6. \A k \in AreaSlots : AreaFits(areaRequests[k])'
  BY <1>1, <1>2 DEF AreaInv, AreaFits
<1>7. ASSUME ~deletionRaced'
      PROVE  (AreasAlike /\ NoOrphans /\ \A k \in AreaSlots : StillTrue(areaRequests[k]))'
  <2>1. ~deletionRaced /\ \A k \in AreaSlots : ~AreaAt(k, "idle") => ~Deletes(areaRequests[k])
    BY <1>7, <1>3, <1>q DEF AreaInv, AreasAlike, AreaAt, Deletes
  <2>2. AreasAlike'
    BY <2>1, <1>1, <1>2 DEF AreasAlike, AreaAt, Deletes
  <2>3. \A b \in Areas : LiveArea(b) => LiveArea(b)'
    BY <1>3 DEF LiveArea
  <2>4. NoOrphans'
    <3>1. a \notin Zones => q.parent # NoArea
      BY <1>3 DEF Under
    <3>2. a \notin Zones => LiveArea(q.parent)' /\ a \in Under(q.parent)
      <4>1. a \notin Zones => LiveArea(q.parent)
        BY <3>1, <2>1, <1>q DEF AreaInv, StillTrue
      <4> QED BY <4>1, <2>3, <1>3 DEF LiveArea
    <3> SUFFICES ASSUME NEW b \in SourcingZones \cup Microareas, LiveArea(b)'
                 PROVE  /\ parentOf'[b] \in Areas /\ areaRows'[parentOf'[b]] = "live"
                        /\ b \in Under(parentOf'[b])
      BY DEF NoOrphans, LiveArea
    <3>3. CASE b = a
      BY <3>3, <3>2, <1>3, AreasAssumption DEF LiveArea
    <3>4. CASE b # a
      BY <3>4, <2>1, <2>3, <1>3 DEF AreaInv, NoOrphans, LiveArea, Areas
    <3> QED BY <3>3, <3>4
  <2>5. \A k \in AreaSlots : StillTrue(areaRequests[k])'
    <3>1. ASSUME NEW p \in AreaRequest, StillTrue(p), p.at # "delete" PROVE StillTrue(p)'
      BY <3>1, <2>3 DEF StillTrue, LiveArea
    <3> QED BY <3>1, <2>1, <1>1, <1>2 DEF AreaInv, AreaTypeOK, Deletes, AreaAt
  <2> QED BY <2>2, <2>4, <2>5
<1> QED BY <1>4, <1>5, <1>6, <1>7 DEF AreaInv

\* Saving an area moves it; its children keep their parent.
LEMMA SaveAreaInv ==
  ASSUME AreaInv, NEW r \in AreaSlots, SaveArea(r), NEW q, q = areaRequests[r]
  PROVE  AreaInv'
<1>q. q \in AreaRequest /\ AreaFits(q) /\ q.at = "save" /\ AreaGo(r, NoAreaRequest)
      /\ q.area \in Areas /\ q.area \in Under(q.parent)
  BY DEF AreaInv, AreaTypeOK, SaveArea, AreaAt, AreaEnd, AreaFits
<1>2. \A k \in AreaSlots : areaRequests'[k] = IF k = r THEN NoAreaRequest ELSE areaRequests[k]
  BY <1>q DEF AreaInv, AreaTypeOK, AreaGo
<1>3. /\ \A b \in Areas : areaRows'[b] = IF b = q.area THEN "live" ELSE areaRows[b]
      /\ \A b \in Areas : parentOf'[b] = IF b = q.area THEN q.parent ELSE parentOf[b]
      /\ UNCHANGED <<areaCalls, deletionRaced>>
  BY <1>q DEF AreaInv, AreaTypeOK, SaveArea
<1>4. AreaTypeOK'
  <2>1. q.parent \in Parents \cup {NoArea}
    BY <1>q DEF AreaRequest
  <2>2. areaRequests' \in [AreaSlots -> AreaRequest]
    BY <1>q, AreaIdles DEF AreaInv, AreaTypeOK, AreaGo
  <2> QED BY <2>1, <2>2, <1>q DEF AreaInv, AreaTypeOK, SaveArea, AreaRow
<1>5. AreaLevels'
  BY <1>q, <1>3 DEF AreaInv, AreaLevels, LiveArea
<1>6. \A k \in AreaSlots : AreaFits(areaRequests[k])'
  BY AreaIdles, <1>2 DEF AreaInv, AreaFits
<1>7. ASSUME ~deletionRaced'
      PROVE  (AreasAlike /\ NoOrphans /\ \A k \in AreaSlots : StillTrue(areaRequests[k]))'
  <2>1. ~deletionRaced /\ \A k \in AreaSlots : ~AreaAt(k, "idle") => ~Deletes(areaRequests[k])
    BY <1>7, <1>3, <1>q DEF AreaInv, AreasAlike, AreaAt, Deletes
  <2>2. AreasAlike'
    BY <2>1, AreaIdles, <1>2 DEF AreasAlike, AreaAt, Deletes
  <2>3. \A b \in Areas : LiveArea(b) => LiveArea(b)'
    BY <1>3 DEF LiveArea
  <2>4. NoOrphans'
    <3>1. q.area \notin Zones => q.parent # NoArea
      BY <1>q DEF Under
    <3>2. q.area \notin Zones => LiveArea(q.parent)'
      <4>1. q.area \notin Zones => LiveArea(q.parent)
        BY <3>1, <2>1, <1>q DEF AreaInv, StillTrue
      <4> QED BY <4>1, <2>3, <1>3 DEF LiveArea
    <3> SUFFICES ASSUME NEW b \in SourcingZones \cup Microareas, LiveArea(b)'
                 PROVE  /\ parentOf'[b] \in Areas /\ areaRows'[parentOf'[b]] = "live"
                        /\ b \in Under(parentOf'[b])
      BY DEF NoOrphans, LiveArea
    <3>3. CASE b = q.area
      BY <3>3, <3>2, <1>3, <1>q, AreasAssumption DEF LiveArea
    <3>4. CASE b # q.area
      BY <3>4, <2>1, <2>3, <1>3 DEF AreaInv, NoOrphans, LiveArea, Areas
    <3> QED BY <3>3, <3>4
  <2>5. \A k \in AreaSlots : StillTrue(areaRequests[k])'
    <3>1. ASSUME NEW p \in AreaRequest, StillTrue(p), p.at # "delete" PROVE StillTrue(p)'
      BY <3>1, <2>3 DEF StillTrue, LiveArea
    <3>2. StillTrue(NoAreaRequest)'
      BY AreaIdles DEF StillTrue
    <3> QED BY <3>1, <3>2, <2>1, <1>2 DEF AreaInv, AreaTypeOK, Deletes, AreaAt
  <2> QED BY <2>2, <2>4, <2>5
<1> QED BY <1>4, <1>5, <1>6, <1>7 DEF AreaInv

\* A deleted area has no child: none when they were counted, and no request has given it
\* one since.
LEMMA SoftDeleteAreaInv ==
  ASSUME AreaInv, NEW r \in AreaSlots, SoftDeleteArea(r), NEW q, q = areaRequests[r]
  PROVE  AreaInv'
<1>q. q \in AreaRequest /\ AreaFits(q) /\ q.at = "delete" /\ AreaGo(r, NoAreaRequest)
      /\ q.area \in Areas
  BY DEF AreaInv, AreaTypeOK, SoftDeleteArea, AreaAt, AreaEnd, AreaFits
<1>2. \A k \in AreaSlots : areaRequests'[k] = IF k = r THEN NoAreaRequest ELSE areaRequests[k]
  BY <1>q DEF AreaInv, AreaTypeOK, AreaGo
<1>3. /\ \A b \in Areas : areaRows'[b] = IF b = q.area THEN "deleted" ELSE areaRows[b]
      /\ UNCHANGED <<parentOf, areaCalls, deletionRaced>>
  BY <1>q DEF AreaInv, AreaTypeOK, SoftDeleteArea
<1>4. AreaTypeOK'
  <2>2. areaRequests' \in [AreaSlots -> AreaRequest]
    BY <1>q, AreaIdles DEF AreaInv, AreaTypeOK, AreaGo
  <2> QED BY <2>2, <1>q DEF AreaInv, AreaTypeOK, SoftDeleteArea, AreaRow
<1>6. \A k \in AreaSlots : AreaFits(areaRequests[k])'
  BY AreaIdles, <1>2 DEF AreaInv, AreaFits
<1>7. ASSUME ~deletionRaced'
      PROVE  (AreasAlike /\ NoOrphans /\ \A k \in AreaSlots : StillTrue(areaRequests[k]))'
  <2>1. ~deletionRaced /\ \A k \in AreaSlots : ~AreaAt(k, "idle") => Deletes(areaRequests[k])
    BY <1>7, <1>3, <1>q DEF AreaInv, AreasAlike, AreaAt, Deletes
  <2>2. AreasAlike'
    BY <2>1, AreaIdles, <1>2 DEF AreasAlike, AreaAt, Deletes
  <2>3. \A b \in Areas : LiveArea(b)' => LiveArea(b)
    BY <1>3 DEF LiveArea
  <2>4. NoOrphans'
    <3> SUFFICES ASSUME NEW b \in SourcingZones \cup Microareas, LiveArea(b)'
                 PROVE  /\ parentOf[b] \in Areas /\ areaRows'[parentOf[b]] = "live"
                        /\ b \in Under(parentOf[b])
      BY <1>3 DEF NoOrphans, LiveArea
    <3>1. LiveArea(b) /\ LiveArea(parentOf[b]) /\ b \in Under(parentOf[b]) /\ b \in Areas
      BY <2>1, <2>3 DEF AreaInv, NoOrphans, Areas
    <3>2. parentOf[b] # q.area
      BY <3>1, <2>1, <1>q DEF AreaInv, StillTrue, Children
    <3> QED BY <3>1, <3>2, <1>3 DEF LiveArea
  <2>5. \A k \in AreaSlots : StillTrue(areaRequests[k])'
    <3>1. ASSUME NEW p \in AreaRequest, StillTrue(p), p.at \notin {"insert", "save"}
          PROVE  StillTrue(p)'
      BY <3>1, <2>3, <1>3 DEF StillTrue, Children
    <3>2. StillTrue(NoAreaRequest)'
      BY AreaIdles DEF StillTrue
    <3> QED BY <3>1, <3>2, <2>1, <1>2 DEF AreaInv, AreaTypeOK, Deletes, AreaAt
  <2> QED BY <2>2, <2>4, <2>5
<1>5. AreaLevels'
  BY <1>3, <1>q DEF AreaInv, AreaLevels, LiveArea
<1> QED BY <1>4, <1>5, <1>6, <1>7 DEF AreaInv

LEMMA AreaCrashInv ==
  ASSUME AreaInv, AreaCrash PROVE AreaInv'
<1>1. \A r \in AreaSlots : areaRequests'[r] = NoAreaRequest
  BY DEF AreaCrash
<1>2. AreaTypeOK'
  BY AreaIdles DEF AreaInv, AreaTypeOK, AreaCrash
<1>3. AreaLevels' /\ (deletionRaced' = deletionRaced) /\ (NoOrphans => NoOrphans')
  BY DEF AreaInv, AreaLevels, NoOrphans, LiveArea, AreaCrash
<1>4. \A r \in AreaSlots : AreaFits(areaRequests[r])' /\ StillTrue(areaRequests[r])'
  BY <1>1, AreaIdles DEF AreaFits, StillTrue
<1>5. AreasAlike'
  BY <1>1, AreaIdles DEF AreasAlike, AreaAt
<1> QED BY <1>2, <1>3, <1>4, <1>5 DEF AreaInv

LEMMA AreaAlways == AreaSpec => []AreaInv
<1>1. ASSUME AreaInv, AreaNext PROVE AreaInv'
  <2>1. ASSUME NEW r \in AreaSlots, AreaBegin(r) PROVE AreaInv'
    BY <1>1, <2>1, AreaBeginInv
  <2>2. ASSUME NEW r \in AreaSlots,
               SeedArea(r) \/ LoadArea(r) \/ LoadParent(r) \/ LoadDoomedArea(r) \/ CountChildren(r)
        PROVE  AreaInv'
    BY <1>1, <2>2, AreaReadsInv
  <2>3. ASSUME NEW r \in AreaSlots, NEW a \in Areas, InsertArea(r, a) PROVE AreaInv'
    BY <1>1, <2>3, InsertAreaInv
  <2>4. ASSUME NEW r \in AreaSlots, SaveArea(r) PROVE AreaInv'
    BY <1>1, <2>4, SaveAreaInv
  <2>5. ASSUME NEW r \in AreaSlots, SoftDeleteArea(r) PROVE AreaInv'
    BY <1>1, <2>5, SoftDeleteAreaInv
  <2> QED BY <1>1, <2>1, <2>2, <2>3, <2>4, <2>5, AreaCrashInv DEF AreaNext, AreaBegin
<1>2. ASSUME AreaInv, UNCHANGED areaVars PROVE AreaInv'
  <2>1. AreaTypeOK' /\ AreaLevels' /\ AreasAlike' = AreasAlike /\ NoOrphans' = NoOrphans
    BY <1>2 DEF AreaInv, areaVars, AreaTypeOK, AreaLevels, AreasAlike, NoOrphans, AreaAt,
       Deletes, LiveArea
  <2>2. \A r \in AreaSlots : AreaFits(areaRequests[r])' /\ (StillTrue(areaRequests[r])' <=> StillTrue(areaRequests[r]))
    BY <1>2 DEF AreaInv, areaVars, AreaFits, StillTrue, Children, LiveArea
  <2> QED BY <1>2, <2>1, <2>2 DEF AreaInv, areaVars
<1> QED BY AreaInitially, <1>1, <1>2, PTL DEF AreaSpec

\* Areas, their parents and the requests about them keep their types (locations.service.ts),
\* whatever overlaps or dies.
THEOREM AreaTypeCorrect == AreaSpec => []AreaTypeOK
<1>1. AreaInv => AreaTypeOK
  BY DEF AreaInv
<1> QED BY <1>1, AreaAlways, PTL

\* As long as no deletion overlaps a request that saves an area, every live area hangs
\* under a live area of the level above (deleteZone, deleteSourcingZone, updateSourcingZone).
THEOREM TreeHolds == AreaSpec => []NoOrphans
<1>1. AreaInv => NoOrphans
  BY DEF AreaInv, NoOrphans
<1> QED BY <1>1, AreaAlways, PTL

(***************************************************************************)
(* LocationResolution: where every connection of the pool is.              *)
(***************************************************************************)
\* The connections that lookups hold, one element each.
Tokens == {t \in Resolvers \X (1..MaxMatches) : t[2] <= resolutions[t[1]].running}

\* Nothing is left of a resolution that has ended; a runner is released after the last lookup.
ResolutionFits(q) ==
  /\ q.at \in {"idle", "connect", "release"} => q.waiting = 0 /\ q.running = 0
  /\ q.waiting + q.running <= MaxMatches

\* Every connection is in the pool, with a runner, a lookup or another query, or lost
\* with a runner that was never released.
Conserved ==
  freeConnections + Cardinality(Holding) + Cardinality(Tokens) + otherQueries + failedLookups = PoolSize

PoolInv ==
  /\ freeConnections \in Nat /\ otherQueries \in 0..OtherQueries /\ failedLookups \in 0..MaxFailures
  /\ resolutions \in [Resolvers -> Resolution]
  /\ \A r \in Resolvers : ResolutionFits(resolutions[r])
  /\ Conserved

Holds(q) == q.at \in {"lookups", "fallback", "release"}

LEMMA SetsCounted ==
  /\ IsFiniteSet(Holding) /\ Cardinality(Holding) \in Nat
  /\ IsFiniteSet(Tokens) /\ Cardinality(Tokens) \in Nat
<1>1. IsFiniteSet(Holding) /\ Cardinality(Holding) \in Nat
  BY PoolAssumption, FS_Subset, FS_CardinalityType DEF Holding
<1>2. IsFiniteSet(1..MaxMatches)
  BY MatchesAssumption, FS_Interval
<1>3. IsFiniteSet(Resolvers \X (1..MaxMatches))
  BY <1>2, PoolAssumption, FS_Product
<1> QED BY <1>1, <1>3, FS_Subset, FS_CardinalityType DEF Tokens

\* What a step of one resolution does to the two sets.
LEMMA RunnersCounted ==
  ASSUME PoolInv, NEW r \in Resolvers, NEW q \in Resolution, ResolutionGo(r, q)
  PROVE  /\ Holds(q) <=> Holds(resolutions[r]) =>
              Cardinality(Holding') = Cardinality(Holding)
         /\ Holds(q) /\ ~Holds(resolutions[r]) => Cardinality(Holding') = Cardinality(Holding) + 1
         /\ ~Holds(q) /\ Holds(resolutions[r]) => Cardinality(Holding') = Cardinality(Holding) - 1
<1>1. \A k \in Resolvers : resolutions'[k] = IF k = r THEN q ELSE resolutions[k]
  BY DEF PoolInv, ResolutionGo
<1>2. Holding' = IF Holds(q) THEN Holding \cup {r} ELSE Holding \ {r}
  BY <1>1 DEF Holding, Holds
<1>3. r \in Holding <=> Holds(resolutions[r])
  BY DEF Holding, Holds
<1> QED BY <1>2, <1>3, SetsCounted, FS_AddElement, FS_RemoveElement

LEMMA LookupsCounted ==
  ASSUME PoolInv, NEW r \in Resolvers, NEW q \in Resolution, ResolutionGo(r, q)
  PROVE  /\ q.running = resolutions[r].running => Cardinality(Tokens') = Cardinality(Tokens)
         /\ q.running = resolutions[r].running + 1 => Cardinality(Tokens') = Cardinality(Tokens) + 1
         /\ q.running = resolutions[r].running - 1 => Cardinality(Tokens') = Cardinality(Tokens) - 1
<1>1. \A k \in Resolvers : resolutions'[k] = IF k = r THEN q ELSE resolutions[k]
  BY DEF PoolInv, ResolutionGo
<1> DEFINE n == resolutions[r].running
<1>2. n \in 0..MaxMatches /\ q.running \in 0..MaxMatches /\ \A k \in Resolvers : resolutions[k].running \in 0..MaxMatches
  BY DEF PoolInv, Resolution
<1>3. ASSUME q.running = n PROVE Tokens' = Tokens
  BY <1>1, <1>3 DEF Tokens
<1>4. ASSUME q.running = n + 1
      PROVE  Tokens' = Tokens \cup {<<r, n + 1>>} /\ <<r, n + 1>> \notin Tokens
  <2>1. n + 1 \in 1..MaxMatches
    BY <1>4, <1>2, MatchesAssumption
  <2> QED BY <1>1, <1>2, <1>4, <2>1, MatchesAssumption DEF Tokens
<1>5. ASSUME q.running = n - 1
      PROVE  Tokens' = Tokens \ {<<r, n>>} /\ <<r, n>> \in Tokens
  <2>1. n \in 1..MaxMatches
    BY <1>5, <1>2, MatchesAssumption
  <2> QED BY <1>1, <1>2, <1>5, <2>1, MatchesAssumption DEF Tokens
<1>6. q.running = n + 1 => Cardinality(Tokens') = Cardinality(Tokens) + 1
  BY <1>4, SetsCounted, FS_AddElement
<1>7. q.running = n - 1 => Cardinality(Tokens') = Cardinality(Tokens) - 1
  BY <1>5, SetsCounted, FS_RemoveElement
<1> QED BY <1>3, <1>6, <1>7

LEMMA PoolInitially == PoolInit => PoolInv
<1> SUFFICES ASSUME PoolInit PROVE PoolInv
  OBVIOUS
<1>1. NoResolution \in Resolution /\ ResolutionFits(NoResolution)
  BY MatchesAssumption DEF NoResolution, Resolution, ResolutionFits
<1>2. \A r \in Resolvers : resolutions[r] = NoResolution
  BY DEF PoolInit
<1>3. Holding = {} /\ Tokens = {}
  BY <1>2, MatchesAssumption DEF Holding, Tokens, NoResolution
<1>4. Conserved
  BY <1>3, FS_EmptySet, PoolAssumption DEF PoolInit, Conserved
<1>5. resolutions \in [Resolvers -> Resolution]
  BY <1>1 DEF PoolInit
<1>6. freeConnections \in Nat /\ otherQueries \in 0..OtherQueries /\ failedLookups \in 0..MaxFailures
  BY PoolAssumption, MatchesAssumption DEF PoolInit
<1> QED BY <1>1, <1>2, <1>4, <1>5, <1>6 DEF PoolInv

\* A step of a resolution, with what it does to the pool.
LEMMA ResolutionStep ==
  ASSUME PoolInv, NEW r \in Resolvers, NEW q \in Resolution, ResolutionFits(q), ResolutionGo(r, q),
         freeConnections' \in Nat, otherQueries' \in 0..OtherQueries, failedLookups' \in 0..MaxFailures,
         Conserved'
  PROVE  PoolInv'
<1>1. \A k \in Resolvers : resolutions'[k] = IF k = r THEN q ELSE resolutions[k]
  BY DEF PoolInv, ResolutionGo
<1>2. \A k \in Resolvers : ResolutionFits(resolutions[k])'
  BY <1>1 DEF PoolInv, ResolutionFits
<1>3. resolutions' \in [Resolvers -> Resolution]
  BY DEF PoolInv, ResolutionGo
<1> QED BY <1>2, <1>3 DEF PoolInv

\* The connections a resolution holds.
Weight(q) == (IF Holds(q) THEN 1 ELSE 0) + q.running

\* A step is sound when what it takes from the pool is what the resolution holds more.
LEMMA PoolStep ==
  ASSUME PoolInv, NEW r \in Resolvers, NEW q \in Resolution, ResolutionFits(q), ResolutionGo(r, q),
         q.running - resolutions[r].running \in {-1, 0, 1},
         freeConnections' \in Nat, failedLookups' \in 0..MaxFailures, UNCHANGED otherQueries,
         freeConnections' + Weight(q) + failedLookups' =
           freeConnections + Weight(resolutions[r]) + failedLookups
  PROVE  PoolInv'
<1>1. resolutions[r].running \in Nat /\ q.running \in Nat
  BY MatchesAssumption DEF PoolInv, Resolution
<1>2. Cardinality(Tokens') = Cardinality(Tokens) + (q.running - resolutions[r].running)
  BY <1>1, LookupsCounted, SetsCounted
<1>3. Cardinality(Holding') =
        Cardinality(Holding) + (IF Holds(q) THEN 1 ELSE 0) - (IF Holds(resolutions[r]) THEN 1 ELSE 0)
  BY RunnersCounted, SetsCounted
<1>4. Conserved'
  <2>1. /\ freeConnections \in Nat /\ failedLookups \in Nat /\ failedLookups' \in Nat
        /\ otherQueries \in Nat /\ PoolSize \in Nat
    BY MatchesAssumption, PoolAssumption DEF PoolInv
  <2> QED BY <2>1, <1>1, <1>2, <1>3, SetsCounted DEF PoolInv, Conserved, Weight
<1> QED BY <1>4, ResolutionStep DEF PoolInv

LEMMA NextResolution ==
  ASSUME PoolInv, NEW r \in Resolvers, NEW old, old = resolutions[r],
         \/ ResolveLocation(r) \/ CoveringQuery(r) \/ CoveringQueryFails(r)
         \/ StartLookup(r) \/ EndLookup(r) \/ MicroareaNotFound(r) \/ ReleaseRunner(r)
  PROVE  PoolInv'
<1>1. old \in Resolution /\ ResolutionFits(old)
  BY DEF PoolInv
<1>2. /\ freeConnections \in Nat
      /\ freeConnections > 0 => freeConnections - 1 \in Nat
      /\ failedLookups \in 0..MaxFailures /\ MaxFailures \in Nat /\ freeConnections + 1 \in Nat
      /\ old.waiting \in 0..MaxMatches /\ old.running \in 0..MaxMatches /\ MaxMatches \in Nat \ {0}
  BY <1>1, MatchesAssumption DEF PoolInv, Resolution
<1>3. /\ NoResolution \in Resolution /\ ResolutionFits(NoResolution)
      /\ NoResolution.running = 0 /\ ~Holds(NoResolution)
  BY MatchesAssumption DEF NoResolution, Resolution, ResolutionFits, Holds
<1>4. CASE ResolveLocation(r)
  <2> DEFINE q == [NoResolution EXCEPT !.at = "connect"]
  <2>1. q \in Resolution /\ q.at = "connect" /\ q.waiting = 0 /\ q.running = 0
    BY MatchesAssumption DEF NoResolution, Resolution
  <2>2. ResolutionGo(r, q) /\ old.at = "idle" /\ UNCHANGED <<freeConnections, otherQueries, failedLookups>>
    BY <1>4 DEF ResolveLocation
  <2> HIDE DEF q
  <2>3. ResolutionFits(q) /\ ~Holds(q) /\ ~Holds(old) /\ old.running = 0
    BY <2>1, <2>2, <1>1, <1>2 DEF ResolutionFits, Holds
  <2> QED BY <2>1, <2>2, <2>3, <1>2, PoolStep DEF Weight
<1>5. CASE CoveringQuery(r)
  <2>1. ASSUME NEW n \in 1..MaxMatches, NEW a \in {"lookups", "fallback"},
               ResolutionGo(r, [NoResolution EXCEPT !.at = a, !.waiting = n])
        PROVE  PoolInv'
    <3> DEFINE q == [NoResolution EXCEPT !.at = a, !.waiting = n]
    <3>1. n \in 0..MaxMatches /\ 0 \in 0..MaxMatches
      BY MatchesAssumption
    <3>2. q \in Resolution /\ q.at = a /\ q.waiting = n /\ q.running = 0
      BY <3>1 DEF NoResolution, Resolution
    <3>3. ResolutionGo(r, q) /\ old.at = "connect" /\ UNCHANGED <<otherQueries, failedLookups>>
          /\ freeConnections > 0 /\ freeConnections' = freeConnections - 1
      BY <1>5, <2>1 DEF CoveringQuery, TakeConnection
    <3> HIDE DEF q
    <3>4. ResolutionFits(q) /\ Holds(q) /\ ~Holds(old) /\ old.running = 0
      BY <3>2, <3>3, <1>1, <1>2 DEF ResolutionFits, Holds
    <3> QED BY <3>2, <3>3, <3>4, <1>2, PoolStep DEF Weight
  <2>2. 1 \in 1..MaxMatches
    BY MatchesAssumption
  <2> QED BY <2>1, <2>2, <1>5 DEF CoveringQuery
<1>6. CASE CoveringQueryFails(r)
  <2>1. /\ ResolutionGo(r, NoResolution) /\ old.at = "connect" /\ UNCHANGED otherQueries
        /\ failedLookups' = failedLookups + 1 /\ failedLookups < MaxFailures
        /\ freeConnections > 0 /\ freeConnections' = freeConnections - 1
    BY <1>6 DEF CoveringQueryFails, TakeConnection
  <2>2. ~Holds(old) /\ old.running = 0
    BY <2>1, <1>1 DEF ResolutionFits, Holds
  <2> QED BY <2>1, <2>2, <1>2, <1>3, PoolStep DEF Weight
<1>7. CASE StartLookup(r)
  <2> DEFINE q == [old EXCEPT !.waiting = old.waiting - 1, !.running = old.running + 1]
  <2>1. /\ ResolutionGo(r, q) /\ old.waiting > 0 /\ UNCHANGED <<otherQueries, failedLookups>>
        /\ freeConnections > 0 /\ freeConnections' = freeConnections - 1
    BY <1>7 DEF StartLookup, TakeConnection
  <2>2. q \in Resolution /\ q.at = old.at /\ q.waiting = old.waiting - 1 /\ q.running = old.running + 1
    <3>1. old.waiting - 1 \in 0..MaxMatches /\ old.running + 1 \in 0..MaxMatches
      BY <2>1, <1>1, <1>2 DEF ResolutionFits
    <3> QED BY <3>1, <1>1 DEF Resolution
  <2> HIDE DEF q
  <2>3. ResolutionFits(q) /\ (Holds(q) <=> Holds(old))
    BY <2>1, <2>2, <1>1, <1>2 DEF ResolutionFits, Holds
  <2> QED BY <2>1, <2>2, <2>3, <1>2, PoolStep DEF Weight
<1>8. ASSUME NEW at \in {"idle", "connect", "lookups", "fallback", "release", "failed"}, NEW f \in {0, 1},
             LookupEnds(r, at), UNCHANGED otherQueries,
             failedLookups' = failedLookups + f, failedLookups' \in 0..MaxFailures,
             old.running > 0 => Holds(old) \/ old.at = "failed",
             at \notin {"idle", "connect"},
             at = "release" => Holds(old) /\ old.waiting + old.running = 1,
             f = IF at = "failed" /\ old.at # "failed" THEN 1 ELSE 0,
             old.at = "failed" => at = "failed"
      PROVE  PoolInv'
    <2>1. old.running > 0 /\ freeConnections' = freeConnections + 1
      BY <1>8 DEF LookupEnds, GiveConnection
    <2>2. CASE at = "failed" /\ old.waiting + old.running = 1
      <3>1. ResolutionGo(r, NoResolution) /\ old.running = 1 /\ NoResolution \in Resolution
        BY <2>1, <2>2, <1>1, <1>2, <1>3, <1>8 DEF LookupEnds
      <3>2. Holds(old) <=> old.at # "failed"
        BY <2>1, <1>8 DEF Holds
      <3>3. Weight(NoResolution) = 0 /\ Weight(old) = (IF old.at = "failed" THEN 0 ELSE 1) + 1
        BY <3>1, <3>2, <1>3 DEF Weight
      <3>4. NoResolution.running - old.running \in {-1, 0, 1}
        BY <3>1, <1>3
      <3> QED BY <3>1, <3>3, <3>4, <2>1, <2>2, <1>2, <1>3, <1>8, PoolStep
    <2>3. CASE ~(at = "failed" /\ old.waiting + old.running = 1)
      <3> DEFINE q == [old EXCEPT !.at = at, !.running = old.running - 1]
      <3>1. q \in Resolution /\ q.at = at /\ q.waiting = old.waiting /\ q.running = old.running - 1
        <4>1. old.running - 1 \in 0..MaxMatches
          BY <2>1, <1>2
        <4> QED BY <4>1, <1>1, <1>8 DEF Resolution
      <3>2. ResolutionGo(r, q)
        BY <2>3, <1>8 DEF LookupEnds
      <3> HIDE DEF q
      <3>3. ResolutionFits(q)
        BY <3>1, <2>1, <1>1, <1>2, <1>8 DEF ResolutionFits
      <3>4. Holds(q) <=> at # "failed"
        BY <3>1, <1>8 DEF Holds
      <3>5. Holds(old) <=> old.at # "failed"
        BY <2>1, <1>8 DEF Holds
      <3> QED BY <3>1, <3>2, <3>3, <3>4, <3>5, <2>1, <1>2, <1>8, PoolStep DEF Weight
    <2> QED BY <2>2, <2>3
<1>h. old.running > 0 => Holds(old) \/ old.at = "failed"
  BY <1>1 DEF Resolution, ResolutionFits, Holds
<1>9. CASE EndLookup(r)
  <2>1. LookupEnds(r, AfterLookup(old)) /\ UNCHANGED <<otherQueries, failedLookups>> /\ old.running > 0
    BY <1>9 DEF EndLookup, LookupEnds
  <2>2. CASE old.waiting + old.running > 1 \/ old.at = "failed"
    <3>1. AfterLookup(old) = old.at
      BY <2>2 DEF AfterLookup
    <3>2. old.at \in {"lookups", "fallback", "release", "failed"} /\ (old.at = "release" => FALSE)
      BY <2>1, <1>1 DEF Resolution, ResolutionFits
    <3> QED BY <3>1, <3>2, <2>1, <1>2, <1>8, <1>h
  <2>3. CASE ~(old.waiting + old.running > 1 \/ old.at = "failed")
    <3>1. AfterLookup(old) = "release" /\ old.waiting + old.running = 1
      BY <2>3, <2>1, <1>2 DEF AfterLookup
    <3> QED BY <3>1, <2>1, <2>3, <1>2, <1>8, <1>h
  <2> QED BY <2>2, <2>3
<1>10. CASE MicroareaNotFound(r)
  <2>1. /\ LookupEnds(r, "failed") /\ UNCHANGED otherQueries /\ old.at = "lookups"
        /\ failedLookups' = failedLookups + 1 /\ failedLookups' \in 0..MaxFailures
    BY <1>10, <1>2 DEF MicroareaNotFound
  <2> QED BY <2>1, <1>8, <1>h
<1>11. CASE ReleaseRunner(r)
  <2>1. /\ ResolutionGo(r, NoResolution) /\ old.at = "release" /\ UNCHANGED <<otherQueries, failedLookups>>
        /\ freeConnections' = freeConnections + 1
    BY <1>11 DEF ReleaseRunner, GiveConnection
  <2>2. Holds(old) /\ old.running = 0
    BY <2>1, <1>1 DEF ResolutionFits, Holds
  <2> QED BY <2>1, <2>2, <1>2, <1>3, PoolStep DEF Weight
<1> QED BY <1>4, <1>5, <1>6, <1>7, <1>9, <1>10, <1>11

LEMMA PoolAlways == PoolSpec => []PoolInv
<1>1. ASSUME PoolInv, PoolNext PROVE PoolInv'
  <2>1. ASSUME NEW r \in Resolvers,
               \/ ResolveLocation(r) \/ CoveringQuery(r) \/ CoveringQueryFails(r)
               \/ StartLookup(r) \/ EndLookup(r) \/ MicroareaNotFound(r) \/ ReleaseRunner(r)
        PROVE  PoolInv'
    BY <1>1, <2>1, NextResolution
  <2>2. CASE StartQuery \/ EndQuery
    <3>1. PICK d \in {-1, 1} : freeConnections' = freeConnections - d /\ otherQueries' = otherQueries + d
      BY <1>1, <2>2, MatchesAssumption
      DEF PoolInv, StartQuery, EndQuery, TakeConnection, GiveConnection
    <3>2. /\ resolutions' = resolutions /\ failedLookups' = failedLookups
          /\ freeConnections' \in Nat /\ otherQueries' \in 0..OtherQueries
      BY <1>1, <2>2, MatchesAssumption
      DEF PoolInv, StartQuery, EndQuery, TakeConnection, GiveConnection
    <3>3. Holding' = Holding /\ Tokens' = Tokens
      BY <3>2 DEF Holding, Tokens
    <3>4. freeConnections \in Nat /\ otherQueries \in Nat /\ failedLookups \in Nat
      BY <1>1, MatchesAssumption DEF PoolInv
    <3>5. Conserved'
      BY <1>1, <3>1, <3>2, <3>3, <3>4, SetsCounted DEF PoolInv, Conserved
    <3> QED BY <1>1, <3>2, <3>5 DEF PoolInv, ResolutionFits
  <2> QED BY <1>1, <2>1, <2>2 DEF PoolNext
<1>2. ASSUME PoolInv, UNCHANGED poolVars PROVE PoolInv'
  BY <1>2 DEF PoolInv, poolVars, Conserved, ResolutionFits, Holding, Tokens
<1> QED BY PoolInitially, <1>1, <1>2, PTL DEF PoolSpec

\* The pool never has more connections than it was given, and the resolutions keep their
\* types (locations.service.ts, resolveLocation).
THEOREM PoolTypeCorrect == PoolSpec => []PoolTypeOK
<1>1. ASSUME PoolInv PROVE PoolTypeOK
  BY <1>1, SetsCounted, PoolAssumption, MatchesAssumption DEF PoolInv, PoolTypeOK, Conserved
<1> QED BY <1>1, PoolAlways, PTL

\* The pool starves only on runners that wait for a second connection and on runners that
\* were never released; at rest only the latter are missing.
THEOREM PoolStarvation == PoolSpec => []RunnersReleased
<1>1. ASSUME PoolInv PROVE RunnersReleased
  <2>0. /\ freeConnections \in Nat /\ otherQueries \in Nat /\ failedLookups \in Nat /\ PoolSize \in Nat
        /\ freeConnections + Cardinality(Holding) + Cardinality(Tokens) + otherQueries + failedLookups = PoolSize
    BY <1>1, PoolAssumption, MatchesAssumption DEF PoolInv, Conserved
  <2>1. Looking = {} => Tokens = {}
    BY MatchesAssumption, <1>1 DEF Looking, Tokens, PoolInv, Resolution
  <2>2. (\A r \in Resolvers : resolutions[r].at = "idle") => Looking = {} /\ Holding = {}
    BY <1>1 DEF PoolInv, ResolutionFits, Looking, Holding
  <2> QED BY <2>0, <2>1, <2>2, SetsCounted, FS_EmptySet DEF RunnersReleased
<1> QED BY <1>1, PoolAlways, PTL

(***************************************************************************)
(* Ewallet: how far overlapping debits overdraw.                           *)
(***************************************************************************)
\* The debits that the check let through and that lower the balance.
Debiting == {r \in WalletSlots : /\ WalletAt(r, "debit")
                                 /\ walletRequests[r].given /\ walletRequests[r].amount > 0}
Slots    == Cardinality(WalletSlots)

\* The customer's balance as it were without what no check has seen.
Accounted == customerBalance + uncovered

\* A floor under it: every debit but the one that found the balance sufficient last may
\* have spent it.
WalletFloor ==
  \/ Accounted >= -(Slots - 1) * MaxAmount /\ Debiting = {}
  \/ \E r \in Debiting :
       Accounted - walletRequests[r].amount >= -(Slots - Cardinality(Debiting)) * MaxAmount

\* Without overlap one debit is under way at most, and the balance still covers it.
WalletCovered ==
  /\ Accounted >= 0
  /\ \A r, k \in WalletSlots :
       walletRequests[r].at \in {"balance", "debit"} /\ walletRequests[k].at \in {"balance", "debit"} => r = k
  /\ \A r \in Debiting : Accounted >= walletRequests[r].amount

WalletInv == WalletTypeOK /\ WalletFloor /\ (~debitsOverlap => WalletCovered)

LEMMA SlotsCounted == Slots \in Nat \ {0} /\ MaxAmount \in Nat
<1>1. Slots \in Nat /\ (Slots = 0 <=> WalletSlots = {})
  BY WalletAssumption, FS_CardinalityType, FS_EmptySet DEF Slots
<1> QED BY <1>1, WalletAssumption DEF WalletAssumption

LEMMA DebitingCounted ==
  ASSUME NEW D \in SUBSET WalletSlots
  PROVE  /\ IsFiniteSet(D) /\ Cardinality(D) \in Nat /\ Cardinality(D) <= Slots
         /\ Cardinality(D) = 0 <=> D = {}
  BY WalletAssumption, FS_Subset, FS_CardinalityType, FS_EmptySet DEF Slots

\* The floors grow by at most one amount with each debit that ends.
LEMMA Floors ==
  ASSUME NEW n \in Nat, NEW d \in Nat, NEW m \in Nat, d <= n
  PROVE  /\ -(n - d) * m \in Int
         /\ -(n - d) * m <= 0
         /\ d # 0 => -(n - (d - 1)) * m = -(n - d) * m - m
<1> DEFINE e == n - d
<1>1. e \in Nat
  OBVIOUS
<1>2. \A i \in Nat : i * m \in Nat /\ (i + 1) * m = i * m + m /\ (-i) * m = -(i * m)
        /\ (-(i + 1)) * m = -(i * m) - m
  OBVIOUS
<1>3. -(n - d) = -e /\ -(n - (d - 1)) = -(e + 1)
  OBVIOUS
<1> HIDE DEF e
<1> QED BY <1>1, <1>2, <1>3

LEMMA WalletInitially == WalletInit => WalletInv
<1> SUFFICES ASSUME WalletInit PROVE WalletInv
  OBVIOUS
<1>1. NoWalletRequest \in WalletRequest
  BY SlotsCounted DEF NoWalletRequest, WalletRequest
<1>2. WalletTypeOK
  <2>1. walletRequests \in [WalletSlots -> WalletRequest]
    BY <1>1 DEF WalletInit
  <2>2. walletCalls \in 0..MaxWalletCalls
    BY WalletAssumption DEF WalletInit
  <2>3. customerBalance \in Int /\ workerBalance \in Int /\ uncovered \in Nat
    BY DEF WalletInit
  <2>4. debitsOverlap \in BOOLEAN
    BY DEF WalletInit
  <2> QED BY <2>1, <2>2, <2>3, <2>4 DEF WalletTypeOK
<1>3. Debiting = {}
  BY DEF WalletInit, Debiting, WalletAt, NoWalletRequest
<1>4. WalletFloor
  BY <1>3, SlotsCounted, Floors DEF WalletFloor, WalletInit, Accounted
<1>5. WalletCovered
  BY <1>3 DEF WalletInit, WalletCovered, NoWalletRequest, Accounted
<1> QED BY <1>2, <1>4, <1>5 DEF WalletInv

LEMMA WalletBeginsInv ==
  ASSUME WalletInv, NEW r \in WalletSlots, NEW at \in {"credit", "worker_credit", "worker_debit", "balance"},
         WalletBegins(r, at), 
         debitsOverlap' \in BOOLEAN,
         debitsOverlap => debitsOverlap',
         at = "balance" /\ ~debitsOverlap' => \A k \in WalletSlots : walletRequests[k].at \notin {"balance", "debit"}
  PROVE  WalletInv'
<1>1. PICK n \in (-MaxAmount)..MaxAmount, given \in BOOLEAN :
        WalletGo(r, [at |-> at, amount |-> n, given |-> given])
  <2>1. 0 \in (-MaxAmount)..MaxAmount
    BY SlotsCounted
  <2>2. CASE \E n \in (-MaxAmount)..MaxAmount : WalletGo(r, [at |-> at, amount |-> n, given |-> TRUE])
    BY <2>2
  <2>3. CASE WalletGo(r, [at |-> at, amount |-> 0, given |-> FALSE])
    BY <2>1, <2>3
  <2> QED BY <2>2, <2>3 DEF WalletBegins
<1> DEFINE q == [at |-> at, amount |-> n, given |-> given]
<1>2. q \in WalletRequest /\ q.at = at
  BY SlotsCounted DEF WalletRequest
<1>3. walletRequests' = [walletRequests EXCEPT ![r] = q] /\ walletRequests[r].at = "idle"
  BY <1>1 DEF WalletGo, WalletBegins, WalletAt
<1> HIDE DEF q
<1>4. WalletTypeOK'
  BY <1>2, <1>3, WalletAssumption DEF WalletInv, WalletTypeOK, WalletBegins
<1>5. \A k \in WalletSlots : walletRequests'[k] = IF k = r THEN q ELSE walletRequests[k]
  BY <1>3 DEF WalletInv, WalletTypeOK
<1>6. Debiting' = Debiting /\ Accounted' = Accounted /\ r \notin Debiting
  BY <1>2, <1>3, <1>5 DEF Debiting, WalletAt, WalletBegins, Accounted
<1>7. WalletFloor'
  <2>1. \A k \in Debiting : walletRequests'[k] = walletRequests[k]
    BY <1>5, <1>6 DEF Debiting
  <2> QED BY <2>1, <1>6 DEF WalletInv, WalletFloor, Slots
<1>8. ASSUME ~debitsOverlap' PROVE WalletCovered'
  BY <1>8, <1>2, <1>5, <1>6 DEF WalletInv, WalletCovered, Debiting
<1> QED BY <1>4, <1>7, <1>8 DEF WalletInv

\* A debit that found the balance sufficient is the last one that did.
LEMMA CheckBalanceInv ==
  ASSUME WalletInv, NEW r \in WalletSlots, CheckBalance(r), NEW q, q = walletRequests[r]
  PROVE  WalletInv'
<1>q. q \in WalletRequest /\ q.at = "balance" 
      /\ UNCHANGED <<customerBalance, workerBalance, walletCalls, debitsOverlap, uncovered>>
      /\ Accounted' = Accounted /\ customerBalance \in Int /\ uncovered \in Nat
  BY DEF WalletInv, WalletTypeOK, CheckBalance, WalletAt, Accounted
<1>n. NoWalletRequest \in WalletRequest /\ NoWalletRequest.at = "idle"
  BY SlotsCounted DEF NoWalletRequest, WalletRequest
<1>1. ASSUME NEW n \in WalletRequest, WalletGo(r, n), n.at = "debit" => ~(n.given /\ n.amount > 0),
             n.at \in {"idle", "debit"}
      PROVE  WalletInv'
  <2>1. \A k \in WalletSlots : walletRequests'[k] = IF k = r THEN n ELSE walletRequests[k]
    BY <1>1 DEF WalletInv, WalletTypeOK, WalletGo
  <2>2. WalletTypeOK'
    BY <1>1, <1>q DEF WalletInv, WalletTypeOK, WalletGo
  <2>3. Debiting' = Debiting /\ r \notin Debiting
    BY <2>1, <1>1, <1>q DEF Debiting, WalletAt
  <2>4. WalletFloor'
    <3>1. \A k \in Debiting : walletRequests'[k] = walletRequests[k]
      BY <2>1, <2>3 DEF Debiting
    <3> QED BY <3>1, <2>3, <1>q DEF WalletInv, WalletFloor, Slots
  <2>5. ~debitsOverlap' => WalletCovered'
    BY <2>1, <2>3, <1>1, <1>q DEF WalletInv, WalletCovered, Debiting
  <2> QED BY <2>2, <2>4, <2>5 DEF WalletInv
<1>2. ASSUME NEW n \in WalletRequest, WalletGo(r, n), customerBalance >= n.amount,
             n.at = "debit", n.given, n.amount > 0
      PROVE  WalletInv'
  <2>1. \A k \in WalletSlots : walletRequests'[k] = IF k = r THEN n ELSE walletRequests[k]
    BY <1>2 DEF WalletInv, WalletTypeOK, WalletGo
  <2>2. WalletTypeOK'
    BY <1>2, <1>q DEF WalletInv, WalletTypeOK, WalletGo
  <2>3. Debiting' = Debiting \cup {r} /\ Debiting' \in SUBSET WalletSlots
    BY <2>1, <1>2, <1>q DEF Debiting, WalletAt
  <2>4. WalletFloor'
    <3>1. -(Slots - Cardinality(Debiting')) * MaxAmount <= 0
      BY <2>3, DebitingCounted, SlotsCounted, Floors
    <3>2. -(Slots - Cardinality(Debiting')) * MaxAmount \in Int
      BY <2>3, DebitingCounted, SlotsCounted, Floors
    <3>3. Accounted' - walletRequests'[r].amount >= 0 /\ Accounted' - walletRequests'[r].amount \in Int
      BY <2>1, <1>2, <1>q, SlotsCounted DEF WalletRequest, Accounted
    <3>4. Accounted' - walletRequests'[r].amount >= -(Slots - Cardinality(Debiting')) * MaxAmount
      <4> DEFINE f == -(Slots - Cardinality(Debiting')) * MaxAmount
                 b == Accounted' - walletRequests'[r].amount
      <4>1. f \in Int /\ f <= 0 /\ b >= 0 /\ b \in Int
        BY <3>1, <3>2, <3>3
      <4> HIDE DEF f, b
      <4>2. b >= f
        BY <4>1
      <4> QED BY <4>2 DEF f, b
    <3> QED BY <3>4, <2>3 DEF WalletFloor, Slots
  <2>5. ~debitsOverlap' => WalletCovered'
    <3>1. Accounted' >= n.amount
      BY <1>2, <1>q, SlotsCounted DEF Accounted, WalletRequest
    <3> QED BY <3>1, <2>1, <2>3, <1>2, <1>q DEF WalletInv, WalletCovered, Debiting
  <2> QED BY <2>2, <2>4, <2>5 DEF WalletInv
<1>3. CASE WalletGo(r, NoWalletRequest)
  BY <1>3, <1>1, <1>n
<1>4. CASE (q.given => customerBalance >= q.amount) /\ WalletGo(r, [q EXCEPT !.at = "debit"])
  <2>1. PICK n : n = [q EXCEPT !.at = "debit"]
    OBVIOUS
  <2>2. /\ n \in WalletRequest /\ n.at = "debit" /\ n.amount = q.amount /\ n.given = q.given
    BY <2>1, <1>q DEF WalletRequest
  <2>3. CASE n.given /\ n.amount > 0
    BY <2>1, <2>2, <2>3, <1>4, <1>2
  <2> QED BY <2>1, <2>2, <2>3, <1>4, <1>1
<1> QED BY <1>3, <1>4 DEF CheckBalance

\* An ending debit lowers the balance and raises the floor by no more than one amount.
LEMMA PostInv ==
  ASSUME WalletInv, NEW r \in WalletSlots, Post(r), NEW q, q = walletRequests[r]
  PROVE  WalletInv'
<1>q. q \in WalletRequest /\ q.amount \in (-MaxAmount)..MaxAmount /\ q.at # "idle" /\ q.at # "balance" /\ WalletGo(r, NoWalletRequest)
      /\ UNCHANGED <<walletCalls, debitsOverlap>>
  BY DEF WalletInv, WalletTypeOK, Post, WalletRequest
<1>n. NoWalletRequest \in WalletRequest /\ NoWalletRequest.at = "idle"
  BY SlotsCounted DEF NoWalletRequest, WalletRequest
<1>1. \A k \in WalletSlots : walletRequests'[k] = IF k = r THEN NoWalletRequest ELSE walletRequests[k]
  BY <1>q DEF WalletInv, WalletTypeOK, WalletGo
<1>t. customerBalance \in Int /\ workerBalance \in Int /\ uncovered \in Nat
  BY DEF WalletInv, WalletTypeOK
<1>a. Amounts(q) \subseteq Int /\ (~q.given => Amounts(q) \subseteq Nat)
  BY <1>q, SlotsCounted DEF Amounts
<1>b. /\ Accounted \in Int /\ Accounted' \in Int
      /\ customerBalance' \in Int /\ uncovered' \in Nat
      /\ r \notin Debiting => Accounted' >= Accounted
      /\ r \in Debiting => Accounted' >= Accounted - q.amount
  <2>1. r \in Debiting <=> q.at = "debit" /\ q.given /\ q.amount > 0
    BY DEF Debiting, WalletAt
  <2>2. CASE UNCHANGED <<customerBalance, uncovered>>
    BY <2>1, <2>2, <1>t, <1>q, SlotsCounted DEF Accounted
  <2>3. ASSUME q.at \in {"credit", "debit"}, NEW n \in Amounts(q),
               customerBalance' = customerBalance + (IF q.at = "credit" THEN n ELSE -n),
               uncovered' = uncovered + Unchecked(q, n)
        PROVE  /\ Accounted \in Int /\ Accounted' \in Int
               /\ customerBalance' \in Int /\ uncovered' \in Nat
               /\ r \notin Debiting => Accounted' >= Accounted
               /\ r \in Debiting => Accounted' >= Accounted - q.amount
    <3>1. n \in Int /\ (q.given => n = q.amount) /\ (~q.given => n \in Nat)
      BY <1>a DEF Amounts
    <3>2. CASE q.at = "credit"
      BY <3>1, <3>2, <2>1, <2>3, <1>t DEF Accounted, Unchecked
    <3>3. CASE q.at = "debit" /\ q.given
      BY <3>1, <3>3, <2>1, <2>3, <1>t DEF Accounted, Unchecked
    <3>4. CASE q.at = "debit" /\ ~q.given
      BY <3>1, <3>4, <2>1, <2>3, <1>t DEF Accounted, Unchecked
    <3> QED BY <2>3, <3>2, <3>3, <3>4
  <2> QED BY <2>2, <2>3 DEF Post
<1>2. WalletTypeOK'
  <2>1. workerBalance' \in Int
    BY <1>t, <1>a DEF Post
  <2>2. walletRequests' \in [WalletSlots -> WalletRequest]
    BY <1>q, <1>n DEF WalletInv, WalletTypeOK, WalletGo
  <2> QED BY <2>1, <2>2, <1>q, <1>b DEF WalletInv, WalletTypeOK
<1>3. Debiting' = Debiting \ {r} /\ (r \in Debiting => q.at = "debit")
      /\ \A k \in Debiting' : walletRequests'[k] = walletRequests[k] /\ k # r
  BY <1>1, <1>n DEF Debiting, WalletAt
<1>4. WalletFloor'
  <2>1. CASE r \notin Debiting
    <3>1. Debiting' = Debiting
      BY <2>1, <1>3
    <3>2. \A k \in Debiting : walletRequests[k].amount \in Int
      BY SlotsCounted DEF WalletInv, WalletTypeOK, Debiting, WalletRequest
    <3> DEFINE f == -(Slots - 1) * MaxAmount
               g == -(Slots - Cardinality(Debiting)) * MaxAmount
    <3>3. f \in Int /\ g \in Int
      BY SlotsCounted, DebitingCounted, Floors DEF Debiting
    <3> HIDE DEF f, g
    <3>4. \/ Accounted >= f /\ Debiting = {}
          \/ \E k \in Debiting : Accounted - walletRequests[k].amount >= g
      BY DEF WalletInv, WalletFloor, f, g
    <3>5. \/ Accounted' >= f /\ Debiting = {}
          \/ \E k \in Debiting : Accounted' - walletRequests'[k].amount >= g
      BY <3>1, <3>2, <3>3, <3>4, <2>1, <1>3, <1>b
    <3> QED BY <3>1, <3>5 DEF WalletFloor, Slots, f, g
  <2>2. CASE r \in Debiting
    <3> DEFINE d == Cardinality(Debiting)
               f == -(Slots - 1) * MaxAmount
               g == -(Slots - d) * MaxAmount
               h == -(Slots - (d - 1)) * MaxAmount
    <3>1. r \in Debiting /\ Debiting' \in SUBSET WalletSlots /\ IsFiniteSet(Debiting)
      BY <2>2, <1>3, DebitingCounted DEF Debiting
    <3>2. d \in Nat /\ d # 0 /\ d <= Slots /\ Cardinality(Debiting') = d - 1
      BY <3>1, <1>3, DebitingCounted, FS_RemoveElement DEF Debiting
    <3>3. f \in Int /\ g \in Int /\ h = g - MaxAmount /\ (d = 1 => g = f)
      BY <3>2, SlotsCounted, Floors
    <3> HIDE DEF d, f, g, h
    <3>4. PICK k \in Debiting : Accounted - walletRequests[k].amount >= g
      BY <3>1 DEF WalletInv, WalletFloor, g, d
    <3>5. \A j \in Debiting : walletRequests[j].amount \in 0..MaxAmount
      BY DEF WalletInv, WalletTypeOK, Debiting, WalletRequest
    <3>6. \A j \in Debiting' : walletRequests'[j] = walletRequests[j] /\ j \in Debiting
      BY <1>3
    <3>7. CASE Debiting' = {}
      <4>1. k = r /\ d = 1
        BY <3>7, <3>2, <1>3, FS_EmptySet
      <4> QED BY <4>1, <3>3, <3>4, <3>5, <3>7, <1>b, <2>2 DEF WalletFloor, Slots, f
    <3>8. CASE Debiting' # {}
      <4>1. PICK j \in Debiting' : k # r => j = k
        BY <3>8, <1>3
      <4>2. Accounted' - walletRequests'[j].amount >= h
        <5>1. CASE k # r
          <6>1. j = k /\ walletRequests'[j].amount = walletRequests[k].amount
            BY <5>1, <4>1, <3>6
          <6> QED BY <6>1, <3>3, <3>4, <3>5, <1>q, <1>b, <2>2, SlotsCounted
        <5>2. CASE k = r
          <6>1. walletRequests'[j].amount \in 0..MaxAmount
            BY <3>5, <3>6
          <6> QED BY <6>1, <5>2, <3>3, <3>4, <1>q, <1>b, <2>2, SlotsCounted
        <5> QED BY <5>1, <5>2
      <4> QED BY <4>2, <3>2 DEF WalletFloor, Slots, h
    <3> QED BY <3>7, <3>8
  <2> QED BY <2>1, <2>2
<1>5. ~debitsOverlap' => WalletCovered'
  <2> SUFFICES ASSUME ~debitsOverlap' PROVE WalletCovered'
    OBVIOUS
  <2>1. Accounted' >= 0
    BY <1>b, <1>3, <1>q, SlotsCounted DEF WalletInv, WalletCovered
  <2>2. Debiting' = {} \/ q.at # "debit"
    BY <1>3, <1>q DEF WalletInv, WalletCovered, Debiting, WalletAt
  <2>3. \A k \in Debiting' : Accounted' >= walletRequests'[k].amount
    <3> SUFFICES ASSUME NEW k \in Debiting' PROVE Accounted' >= walletRequests'[k].amount
      OBVIOUS
    <3>1. k \in Debiting /\ walletRequests'[k] = walletRequests[k] /\ q.at # "debit"
      BY <2>2, <1>3
    <3>2. Accounted >= walletRequests[k].amount /\ walletRequests[k].amount \in Int
      BY <3>1, <1>q, SlotsCounted DEF WalletInv, WalletCovered, WalletTypeOK, WalletRequest,
         Debiting
    <3>3. r \notin Debiting /\ Accounted' >= Accounted
      BY <3>1, <1>3, <1>b
    <3>4. \A a, b, c \in Int : a >= b /\ b >= c => a >= c
      OBVIOUS
    <3> QED BY <3>1, <3>2, <3>3, <3>4, <1>b
  <2>4. \A j, k \in WalletSlots :
       walletRequests'[j].at \in {"balance", "debit"} /\ walletRequests'[k].at \in {"balance", "debit"} => j = k
    BY <1>1, <1>n, <1>q DEF WalletInv, WalletCovered
  <2> QED BY <2>1, <2>3, <2>4 DEF WalletCovered
<1> QED BY <1>2, <1>4, <1>5 DEF WalletInv

LEMMA WalletAlways == WalletSpec => []WalletInv
<1>1. ASSUME WalletInv, WalletNext PROVE WalletInv'
  <2>1. PICK r \in WalletSlots :
          \/ CustomerEwalletCredit(r) \/ CustomerEwalletDebit(r)
          \/ WorkerWalletCredit(r) \/ WorkerWalletDebit(r) \/ CheckBalance(r) \/ Post(r)
    BY <1>1 DEF WalletNext
  <2>2. debitsOverlap \in BOOLEAN
    BY <1>1 DEF WalletInv, WalletTypeOK
  <2>3. CASE CustomerEwalletCredit(r) \/ WorkerWalletCredit(r) \/ WorkerWalletDebit(r)
    BY <1>1, <2>2, <2>3, WalletBeginsInv
    DEF CustomerEwalletCredit, WorkerWalletCredit, WorkerWalletDebit
  <2>4. CASE CustomerEwalletDebit(r)
    BY <1>1, <2>2, <2>4, WalletBeginsInv DEF CustomerEwalletDebit
  <2>5. CASE CheckBalance(r)
    BY <1>1, <2>5, CheckBalanceInv
  <2>6. CASE Post(r)
    BY <1>1, <2>6, PostInv
  <2> QED BY <2>1, <2>3, <2>4, <2>5, <2>6
<1>2. ASSUME WalletInv, UNCHANGED walletVars PROVE WalletInv'
  BY <1>2 DEF WalletInv, walletVars, WalletTypeOK, WalletFloor, WalletCovered, Debiting,
     WalletAt, Slots, Accounted
<1> QED BY WalletInitially, <1>1, <1>2, PTL DEF WalletSpec

\* Balances and requests keep their types (finance.service.ts, the e-wallet calls).
THEOREM WalletTypeCorrect == WalletSpec => []WalletTypeOK
<1>1. WalletInv => WalletTypeOK
  BY DEF WalletInv
<1> QED BY <1>1, WalletAlways, PTL

\* Of a customer's debits with an amount, only overlapping ones overdraw the wallet, and by
\* no more than all of them but one; what else takes it below zero are the credits and
\* debits no check has seen (customerEwalletCredit, customerEwalletDebit).
THEOREM OverdraftBounded == WalletSpec => []NoOverdraft
<1>1. ASSUME WalletInv PROVE NoOverdraft
  <2>1. ~debitsOverlap => Accounted >= 0
    BY <1>1 DEF WalletInv, WalletCovered
  <2>2. CASE Accounted >= -(Slots - 1) * MaxAmount
    <3> DEFINE f == -(Slots - 1) * MaxAmount
    <3>1. f \in Int /\ customerBalance \in Int /\ uncovered \in Nat
      BY <1>1, SlotsCounted DEF WalletInv, WalletTypeOK
    <3> HIDE DEF f
    <3>2. Accounted >= f
      BY <2>2 DEF f
    <3>3. customerBalance >= -uncovered + f /\ (~debitsOverlap => customerBalance >= -uncovered)
      BY <3>1, <3>2, <2>1 DEF Accounted
    <3>4. -uncovered + f = -uncovered - (Slots - 1) * MaxAmount
      BY <3>1, SlotsCounted DEF f
    <3> QED BY <3>3, <3>4 DEF NoOverdraft, Slots
  <2>3. ASSUME NEW r \in Debiting,
               Accounted - walletRequests[r].amount >= -(Slots - Cardinality(Debiting)) * MaxAmount
        PROVE  Accounted >= -(Slots - 1) * MaxAmount
    <3> DEFINE d == Cardinality(Debiting)
               f == -(Slots - 1) * MaxAmount
               g == -(Slots - d) * MaxAmount
    <3>1. d \in Nat /\ d # 0 /\ d <= Slots
      BY DebitingCounted DEF Debiting
    <3>2. f \in Int /\ g \in Int /\ f <= g
      <4>1. \A i, j, m \in Nat : i <= j => -j * m <= -i * m
        OBVIOUS
      <4> QED BY <4>1, <3>1, SlotsCounted
    <3>3. walletRequests[r].amount \in Nat /\ Accounted \in Int
      BY <1>1, SlotsCounted DEF WalletInv, WalletTypeOK, WalletRequest, Debiting, Accounted
    <3> HIDE DEF d, f, g
    <3>4. Accounted - walletRequests[r].amount >= g
      BY <2>3 DEF g, d
    <3>5. Accounted >= f
      BY <3>2, <3>3, <3>4
    <3> QED BY <3>5 DEF f
  <2> QED BY <1>1, <2>2, <2>3, <2>1 DEF WalletInv, WalletFloor
<1> QED BY <1>1, WalletAlways, PTL

(***************************************************************************)
(* Accounts: rows and the Firebase accounts they are found by.             *)
(***************************************************************************)
About(r, w) == ~AccountAt(r, "idle") /\ accountRequests[r].who = w

\* The requests about a user, and how far each has brought her row and her account.
StaffKnown(w) ==
  /\ account[w] = "none" => personRow[w] = "absent"
  /\ personRow[w] = "absent" /\ account[w] # "none" =>
       \E r \in AccountSlots : About(r, w) /\ AccountAt(r, "insert")
  /\ personRow[w] = "live" =>
       /\ account[w] = "enabled"
       /\ \/ accountProfile[w] = userProfile[w]
          \/ \E r \in AccountSlots : About(r, w) /\ accountRequests[r].at \in {"password", "save"}
  /\ personRow[w] = "deleted" =>
       account[w] = "disabled" \/ \E r \in AccountSlots : About(r, w) /\ AccountAt(r, "disable")
  /\ \A r, k \in AccountSlots : About(r, w) /\ About(k, w) /\ AccountAt(r, "insert") /\ AccountAt(k, "insert") => r = k
  /\ \A r \in AccountSlots : About(r, w) =>
       /\ AccountAt(r, "insert") => personRow[w] = "absent" /\ account[w] = "enabled"
       /\ accountRequests[r].at \in {"mirror", "password", "save"} => personRow[w] = "live"
       /\ accountRequests[r].at \in {"insert", "password", "save"} => accountProfile[w] = accountRequests[r].profile
       /\ AccountAt(r, "delete") => personRow[w] # "absent"
       /\ AccountAt(r, "disable") => personRow[w] = "deleted"

\* A customer's account is never disabled, and a live customer's location is there or
\* about to be logged.
CustomerKnown(w) ==
  /\ account[w] # "disabled"
  /\ personRow[w] = "live" =>
       /\ account[w] = "enabled"
       /\ w \in located \/ \E r \in AccountSlots : About(r, w) /\ AccountAt(r, "log")
  /\ \A r \in AccountSlots : About(r, w) =>
       /\ AccountAt(r, "insert") => account[w] = "enabled"
       /\ AccountAt(r, "save") => personRow[w] = "live"

\* Whoever an update is about, it is the only request about her.
UpdatesAlone(w) ==
  \A r, k \in AccountSlots : About(r, w) /\ About(k, w) /\ Updates(accountRequests[r]) => r = k

PersonKnown(w) ==
  /\ UpdatesAlone(w)
  /\ IF w \in Staff THEN StaffKnown(w) ELSE CustomerKnown(w)

\* Whom each step is taken for.
AccountFits(q) ==
  /\ q.at # "idle" => q.who \in People
  /\ q.at \in {"log", "last_location"} => q.who \notin Staff
  /\ q.at \in {"find", "mirror", "password", "disable"} => q.who \in Staff

AccountInv ==
  /\ AccountTypeOK
  /\ \A r \in AccountSlots : AccountFits(accountRequests[r])
  /\ \A w \in People \ (cutShort \cup updatesOverlap) : PersonKnown(w)

LEMMA NoAccountRequestFits ==
  NoAccountRequest \in AccountRequest /\ NoAccountRequest.at = "idle"
  BY DEF NoAccountRequest, AccountRequest

LEMMA AccountInitially == AccountInit => AccountInv
<1> SUFFICES ASSUME AccountInit PROVE AccountInv
  OBVIOUS
<1>1. \A r \in AccountSlots : accountRequests[r] = NoAccountRequest
  BY DEF AccountInit
<1>2. accountRequests \in [AccountSlots -> AccountRequest] /\ \A r \in AccountSlots : AccountAt(r, "idle")
  BY <1>1, NoAccountRequestFits DEF AccountInit, AccountAt
<1>3. accountCalls \in 0..MaxAccountCalls
  BY AccountLimitsAssumption DEF AccountInit
<1>4. /\ \A w \in People : personRow[w] = "absent" /\ account[w] = "none"
      /\ DOMAIN personRow = People
      /\ account \in [People -> FirebaseAccount]
      /\ userProfile \in [People -> Profiles \cup {NoProfile}]
      /\ accountProfile \in [People -> Profiles \cup {NoProfile}]
      /\ located = {} /\ updatesOverlap = {} /\ cutShort = {}
  BY DEF AccountInit, FirebaseAccount
<1>5. AccountTypeOK
  BY <1>2, <1>3, <1>4 DEF AccountTypeOK, UserRow, CustomerRow, People
<1>6. ASSUME NEW w \in People PROVE PersonKnown(w)
  BY <1>2, <1>4 DEF PersonKnown, UpdatesAlone, StaffKnown, CustomerKnown, About
<1>7. \A r \in AccountSlots : AccountFits(accountRequests[r])
  BY <1>2 DEF AccountFits, AccountAt
<1> QED BY <1>5, <1>6, <1>7 DEF AccountInv

\* What is known of a person whom a step is not about remains known.
LEMMA OthersKept ==
  ASSUME NEW w \in People, PersonKnown(w), NEW r \in AccountSlots, NEW n,
         \A k \in AccountSlots : accountRequests'[k] = IF k = r THEN n ELSE accountRequests[k],
         ~About(r, w), n.at = "idle" \/ n.who # w,
         personRow'[w] = personRow[w], userProfile'[w] = userProfile[w],
         account'[w] = account[w], accountProfile'[w] = accountProfile[w],
         w \in located => w \in located'
  PROVE  PersonKnown(w)'
<1>1. \A k \in AccountSlots : About(k, w)' => k # r /\ About(k, w) /\ accountRequests'[k] = accountRequests[k]
  BY DEF About, AccountAt
<1>2. \A k \in AccountSlots : About(k, w) => About(k, w)' /\ accountRequests'[k] = accountRequests[k]
  BY DEF About, AccountAt
<1>3. UpdatesAlone(w)'
  BY <1>1 DEF PersonKnown, UpdatesAlone, Updates
<1>4. CASE w \in Staff
  <2>1. StaffKnown(w)
    BY <1>4 DEF PersonKnown
  <2>2. StaffKnown(w)'
    BY <2>1, <1>1, <1>2 DEF StaffKnown, AccountAt
  <2> QED BY <2>2, <1>3, <1>4 DEF PersonKnown
<1>5. CASE w \notin Staff
  <2>1. CustomerKnown(w)
    BY <1>5 DEF PersonKnown
  <2>2. CustomerKnown(w)'
    BY <2>1, <1>1, <1>2 DEF CustomerKnown, AccountAt
  <2> QED BY <2>2, <1>3, <1>5 DEF PersonKnown
<1> QED BY <1>4, <1>5

\* What a step of a request about w must establish.
LEMMA AccountGoes ==
  ASSUME AccountInv, NEW r \in AccountSlots, NEW q, q = accountRequests[r], q.at # "idle", NEW w, w = q.who,
         NEW n \in AccountRequest, AccountGo(r, n), n.at = "idle" \/ n.who = w,
         accountCalls' = accountCalls, updatesOverlap' = updatesOverlap,
         AccountFits(n), cutShort' \in {cutShort, cutShort \cup {w}},
         DOMAIN personRow' = People, personRow'[w] \in UserRow,
         account' \in [People -> FirebaseAccount],
         userProfile' \in [People -> Profiles \cup {NoProfile}],
         accountProfile' \in [People -> Profiles \cup {NoProfile}],
         located' = located \/ (located' = located \cup {w} /\ w \in Phones),
         \A v \in People : v # w => /\ personRow'[v] = personRow[v] /\ account'[v] = account[v]
                                    /\ userProfile'[v] = userProfile[v] /\ accountProfile'[v] = accountProfile[v],
         w \notin cutShort' /\ w \notin updatesOverlap => PersonKnown(w)'
  PROVE  AccountInv'
<1>1. \A k \in AccountSlots : accountRequests'[k] = IF k = r THEN n ELSE accountRequests[k]
  BY DEF AccountInv, AccountTypeOK, AccountGo
<1>2. w \in People /\ accountRequests' \in [AccountSlots -> AccountRequest]
  BY DEF AccountInv, AccountTypeOK, AccountGo, AccountFits
<1>3. AccountTypeOK'
  <2>1. \A v \in People : personRow'[v] \in UserRow
    BY DEF AccountInv, AccountTypeOK, People, CustomerRow
  <2> QED BY <1>2, <2>1 DEF AccountInv, AccountTypeOK, People, CustomerRow
<1>4. \A k \in AccountSlots : AccountFits(accountRequests'[k])
  BY <1>1, <1>2 DEF AccountInv
<1>5. ASSUME NEW v \in People, v \notin cutShort', v \notin updatesOverlap' PROVE PersonKnown(v)'
  <2>1. CASE v = w
    BY <2>1, <1>5
  <2>2. CASE v # w
    <3>1. PersonKnown(v) /\ ~About(r, v)
      BY <2>2, <1>5 DEF AccountInv, About
    <3> QED BY <3>1, <2>2, <1>1, OthersKept
  <2> QED BY <2>1, <2>2
<1> QED BY <1>3, <1>4, <1>5 DEF AccountInv, AccountFits

\* A request that begins.
LEMMA AccountBeginsInv ==
  ASSUME AccountInv, NEW r \in AccountSlots, NEW n \in AccountRequest, AccountBegins(r, n), n.who \in People,
         n.at \in {"find", "load", "load_doomed", "insert", "create_account"},
         n.at = "find" => n.who \in Staff,
         n.at = "insert" => n.who \notin Staff /\ account[n.who] = "enabled"
  PROVE  AccountInv'
<1>1. \A k \in AccountSlots : accountRequests'[k] = IF k = r THEN n ELSE accountRequests[k]
  BY DEF AccountInv, AccountTypeOK, AccountBegins, AccountGo
<1> DEFINE overlapped == {accountRequests[k].who : k \in {j \in AccountSlots :
          accountRequests[j].who = n.who /\ (Updates(n) \/ Updates(accountRequests[j]))}}
<1>2. /\ UNCHANGED <<personRow, userProfile, account, accountProfile, located, cutShort>>
      /\ updatesOverlap' = updatesOverlap \cup overlapped
      /\ accountCalls' \in 0..MaxAccountCalls
      /\ accountRequests' \in [AccountSlots -> AccountRequest]
      /\ accountRequests[r].at = "idle"
  BY AccountLimitsAssumption DEF AccountInv, AccountTypeOK, AccountBegins, AccountGo, AccountAt,
     personRows
<1>3. /\ overlapped \subseteq {n.who}
      /\ n.who \notin overlapped => \A k \in AccountSlots : accountRequests[k].who = n.who =>
                                       ~Updates(n) /\ ~Updates(accountRequests[k])
  OBVIOUS
<1> HIDE DEF overlapped
<1>4. AccountTypeOK'
  BY <1>2, <1>3 DEF AccountInv, AccountTypeOK
<1>5. \A k \in AccountSlots : AccountFits(accountRequests'[k])
  <2>1. AccountFits(n)
    BY DEF AccountFits
  <2> QED BY <2>1, <1>1 DEF AccountInv
<1>6. ASSUME NEW v \in People, v \notin cutShort', v \notin updatesOverlap' PROVE PersonKnown(v)'
  <2>1. PersonKnown(v) /\ ~About(r, v)
    BY <1>2, <1>6 DEF AccountInv, About, AccountAt
  <2>2. CASE v # n.who
    BY <2>1, <2>2, <1>1, <1>2, OthersKept
  <2>3. CASE v = n.who
    <3>1. \A k \in AccountSlots : k # r => accountRequests'[k] = accountRequests[k]
      BY <1>1
    <3>2. accountRequests'[r] = n /\ ~About(r, v)
      BY <1>1, <2>1
    <3>3. UpdatesAlone(v)'
      BY <2>1, <2>3, <1>6, <1>2, <1>3, <3>1, <3>2 DEF PersonKnown, UpdatesAlone, About,
         AccountAt, Updates
    <3>4. CASE v \in Staff
      <4>1. StaffKnown(v)
        BY <2>1, <3>4 DEF PersonKnown
      <4>2. StaffKnown(v)'
        BY <4>1, <2>3, <1>2, <3>1, <3>2, <3>4 DEF StaffKnown, About, AccountAt
      <4> QED BY <4>2, <3>3, <3>4 DEF PersonKnown
    <3>5. CASE v \notin Staff
      <4>1. CustomerKnown(v)
        BY <2>1, <3>5 DEF PersonKnown
      <4>2. CustomerKnown(v)'
        BY <4>1, <2>3, <1>2, <3>1, <3>2, <3>5 DEF CustomerKnown, About, AccountAt
      <4> QED BY <4>2, <3>3, <3>5 DEF PersonKnown
    <3> QED BY <3>4, <3>5
  <2> QED BY <2>2, <2>3
<1> QED BY <1>4, <1>5, <1>6 DEF AccountInv, AccountFits

\* The same, with the part that holds of every request proved once.
LEMMA AccountTurns ==
  ASSUME AccountInv, NEW r \in AccountSlots, NEW q, q = accountRequests[r], q.at # "idle", NEW w, w = q.who,
         NEW n \in AccountRequest, AccountGo(r, n), n.at = "idle" \/ n.who = w, Updates(n) => Updates(q),
         UNCHANGED accountHistory, AccountFits(n),
         DOMAIN personRow' = People, personRow'[w] \in UserRow,
         account' \in [People -> FirebaseAccount],
         userProfile' \in [People -> Profiles \cup {NoProfile}],
         accountProfile' \in [People -> Profiles \cup {NoProfile}],
         located' = located \/ (located' = located \cup {w} /\ w \in Phones),
         \A v \in People : v # w => /\ personRow'[v] = personRow[v] /\ account'[v] = account[v]
                                    /\ userProfile'[v] = userProfile[v] /\ accountProfile'[v] = accountProfile[v],
         w \in Staff /\ StaffKnown(w) /\ UpdatesAlone(w) => StaffKnown(w)',
         w \notin Staff /\ CustomerKnown(w) /\ UpdatesAlone(w) => CustomerKnown(w)'
  PROVE  AccountInv'
<1>1. \A k \in AccountSlots : accountRequests'[k] = IF k = r THEN n ELSE accountRequests[k]
  BY DEF AccountInv, AccountTypeOK, AccountGo
<1>2. w \in People /\ UNCHANGED <<accountCalls, updatesOverlap, cutShort>>
  BY DEF AccountInv, AccountFits, accountHistory
<1>3. UpdatesAlone(w) => UpdatesAlone(w)'
  BY <1>1 DEF UpdatesAlone, About, AccountAt, Updates
<1>4. w \notin cutShort /\ w \notin updatesOverlap => PersonKnown(w)'
  BY <1>2, <1>3 DEF AccountInv, PersonKnown
<1> QED BY <1>2, <1>4, AccountGoes

LEMMA CutShortInv ==
  ASSUME AccountInv, NEW r \in AccountSlots, ~AccountAt(r, "idle"), CutShort(r) PROVE AccountInv'
<1>1. PICK q : q = accountRequests[r]
  OBVIOUS
<1>2. PICK w : w = q.who
  OBVIOUS
<1>3. /\ UNCHANGED <<personRow, userProfile, account, accountProfile, located, accountCalls, updatesOverlap>>
      /\ cutShort' = cutShort \cup {w} /\ AccountGo(r, NoAccountRequest) /\ w \in People /\ q.at # "idle"
  BY <1>1, <1>2 DEF CutShort, AccountEnd, personRows, AccountInv, AccountAt, AccountFits
<1>4. /\ DOMAIN personRow = People /\ personRow[w] \in UserRow /\ account \in [People -> FirebaseAccount]
      /\ userProfile \in [People -> Profiles \cup {NoProfile}] /\ accountProfile \in [People -> Profiles \cup {NoProfile}]
  BY <1>3 DEF AccountInv, AccountTypeOK, CustomerRow, People
<1>5. AccountFits(NoAccountRequest)
  BY NoAccountRequestFits DEF AccountFits
<1> QED BY <1>1, <1>2, <1>3, <1>4, <1>5, NoAccountRequestFits, AccountGoes

\* Steps that leave every row and account alone.
LEMMA AccountReadsInv ==
  ASSUME AccountInv, NEW r \in AccountSlots, NEW q, q = accountRequests[r], NEW w, w = q.who,
         NEW n \in AccountRequest, AccountGo(r, n), n.at = "idle" \/ (n.who = w /\ n.profile = q.profile),
         UNCHANGED <<personRows, accountHistory>>,
         \/ q.at = "find" /\ n.at \in {"idle", "create_account"}
         \/ q.at = "create_account" /\ n.at = "idle"
         \/ q.at = "insert" /\ n.at = "idle" /\ personRow[w] # "absent"
         \/ q.at = "load" /\ n.at = "idle"
         \/ q.at = "load" /\ n.at = "mirror" /\ personRow[w] = "live" /\ w \in Staff
         \/ q.at = "mirror" /\ n.at = "idle"
         \/ q.at = "password" /\ n.at = "save"
         \/ q.at = "load_doomed" /\ n.at = "idle"
         \/ q.at = "load_doomed" /\ n.at = "delete" /\ personRow[w] = "live"
         \/ q.at = "load_doomed" /\ n.at = "last_location" /\ w \notin Staff
         \/ q.at = "last_location" /\ n.at \in {"idle", "delete"}
  PROVE  AccountInv'
<1>1. \A k \in AccountSlots : accountRequests'[k] = IF k = r THEN n ELSE accountRequests[k]
  BY DEF AccountInv, AccountTypeOK, AccountGo
<1>2. /\ UNCHANGED <<personRow, userProfile, account, accountProfile, located>>
      /\ w \in People /\ q.at # "idle" /\ (Updates(n) => Updates(q))
  BY DEF personRows, AccountInv, AccountFits, Updates
<1>8. AccountFits(q)
  BY DEF AccountInv
<1>7. AccountFits(n)
  BY <1>2, <1>8 DEF AccountFits
<1>3. /\ DOMAIN personRow = People /\ personRow[w] \in UserRow /\ account \in [People -> FirebaseAccount]
      /\ userProfile \in [People -> Profiles \cup {NoProfile}] /\ accountProfile \in [People -> Profiles \cup {NoProfile}]
  BY <1>2 DEF AccountInv, AccountTypeOK, CustomerRow, People
<1>4. accountRequests'[r] = n /\ \A k \in AccountSlots : k # r => accountRequests'[k] = accountRequests[k]
  BY <1>1
<1>5. w \in Staff /\ StaffKnown(w) /\ UpdatesAlone(w) => StaffKnown(w)'
  BY <1>2, <1>4, <1>8 DEF AccountFits, StaffKnown, UpdatesAlone, Updates, About, AccountAt
<1>6. w \notin Staff /\ CustomerKnown(w) => CustomerKnown(w)'
  BY <1>2, <1>4, <1>8 DEF AccountFits, CustomerKnown, About, AccountAt
<1> QED BY <1>2, <1>3, <1>7, <1>5, <1>6, AccountTurns

LEMMA AccountRequestParts ==
  ASSUME AccountInv, NEW r \in AccountSlots, NEW q, q = accountRequests[r]
  PROVE  /\ q \in AccountRequest
         /\ q.at # "idle" => q.who \in People
         /\ \A k \in AccountSlots : k # r => \A n : AccountGo(r, n) => accountRequests'[k] = accountRequests[k]
         /\ \A n : AccountGo(r, n) => accountRequests'[r] = n
<1>1. q \in AccountRequest
  BY DEF AccountInv, AccountTypeOK
<1>3. q.at # "idle" => q.who \in People
  BY DEF AccountInv, AccountFits
<1>4. ASSUME NEW n, AccountGo(r, n) PROVE accountRequests'[r] = n /\ \A k \in AccountSlots : k # r => accountRequests'[k] = accountRequests[k]
  BY <1>4 DEF AccountInv, AccountTypeOK, AccountGo
<1> QED BY <1>1, <1>3, <1>4

LEMMA PersonRowParts ==
  ASSUME AccountInv, NEW w \in People
  PROVE  /\ DOMAIN personRow = People /\ personRow[w] \in UserRow /\ account \in [People -> FirebaseAccount]
         /\ userProfile \in [People -> Profiles \cup {NoProfile}] /\ accountProfile \in [People -> Profiles \cup {NoProfile}]
         /\ w \notin Staff => w \in Phones
  BY DEF AccountInv, AccountTypeOK, CustomerRow, People

LEMMA FindUserInv ==
  ASSUME AccountInv, NEW r \in AccountSlots, FindUser(r) PROVE AccountInv'
<1>0. PICK q : q = accountRequests[r]
  OBVIOUS
<1>w. PICK w : w = q.who
  OBVIOUS
<1>1. UNCHANGED <<personRows, accountHistory>> /\ q.at = "find"
  BY <1>0 DEF FindUser, AccountAt
<1>2. AccountGo(r, NoAccountRequest) \/ AccountGo(r, [q EXCEPT !.at = "create_account"])
  BY <1>0 DEF FindUser, AccountEnd, AccountStep
<1>3. q \in AccountRequest
  BY <1>0, AccountRequestParts
<1> DEFINE n == [q EXCEPT !.at = "create_account"]
<1>4. n \in AccountRequest /\ n.at = "create_account" /\ n.who = w /\ n.profile = q.profile
  BY <1>w, <1>3 DEF AccountRequest
<1>5. AccountGo(r, NoAccountRequest) \/ AccountGo(r, n)
  BY <1>2
<1> HIDE DEF n
<1> QED BY <1>0, <1>w, <1>1, <1>4, <1>5, NoAccountRequestFits, AccountReadsInv

LEMMA CreateAccountInv ==
  ASSUME AccountInv, NEW r \in AccountSlots, CreateAccount(r) PROVE AccountInv'
<1>0. PICK q : q = accountRequests[r]
  OBVIOUS
<1>w. PICK w : w = q.who
  OBVIOUS
<1>1. q.at = "create_account"
  BY <1>0 DEF CreateAccount, AccountAt
<1>2. CASE AccountEnd(r) /\ UNCHANGED <<personRows, accountHistory>>
  BY <1>0, <1>w, <1>1, <1>2, NoAccountRequestFits, AccountReadsInv DEF AccountEnd
<1>3. CASE /\ account[w] = "none"
           /\ account' = [account EXCEPT ![w] = "enabled"]
           /\ accountProfile' = [accountProfile EXCEPT ![w] = q.profile]
           /\ AccountStep(r, "insert")
           /\ UNCHANGED <<personRow, userProfile, located, accountHistory>>
  <2> DEFINE n == [q EXCEPT !.at = "insert"]
  <2>1. n \in AccountRequest /\ n.at = "insert" /\ n.who = w /\ n.profile = q.profile /\ w \in People /\ q \in AccountRequest
    <3>1. q \in AccountRequest /\ w \in People
      BY <1>0, <1>w, <1>1, AccountRequestParts
    <3> QED BY <3>1, <1>w DEF AccountRequest
  <2>2. AccountGo(r, n)
    BY <1>0, <1>3 DEF AccountStep
  <2>3. accountRequests'[r] = n /\ \A k \in AccountSlots : k # r => accountRequests'[k] = accountRequests[k]
    BY <1>0, <2>2, AccountRequestParts
  <2> HIDE DEF n
  <2>4. /\ account' \in [People -> FirebaseAccount] /\ accountProfile' \in [People -> Profiles \cup {NoProfile}]
        /\ account'[w] = "enabled" /\ accountProfile'[w] = q.profile
        /\ \A v \in People : v # w => account'[v] = account[v] /\ accountProfile'[v] = accountProfile[v]
    BY <1>3, <2>1, PersonRowParts DEF AccountRequest, FirebaseAccount
  <2>5. w \in Staff /\ StaffKnown(w) => StaffKnown(w)'
    BY <1>0, <1>w, <1>1, <1>3, <2>1, <2>3, <2>4 DEF StaffKnown, About, AccountAt
  <2>6. w \notin Staff /\ CustomerKnown(w) => CustomerKnown(w)'
    BY <1>0, <1>w, <1>1, <1>3, <2>1, <2>3, <2>4 DEF CustomerKnown, About, AccountAt
  <2>7. ~Updates(n) /\ AccountFits(n)
    BY <2>1 DEF Updates, AccountFits
  <2> QED BY <1>0, <1>w, <1>1, <1>3, <2>1, <2>2, <2>4, <2>5, <2>6, <2>7, PersonRowParts,
             AccountTurns
<1> QED BY <1>0, <1>w, <1>2, <1>3 DEF CreateAccount

LEMMA InsertPersonInv ==
  ASSUME AccountInv, NEW r \in AccountSlots, InsertPerson(r) PROVE AccountInv'
<1>0. PICK q : q = accountRequests[r]
  OBVIOUS
<1>w. PICK w : w = q.who
  OBVIOUS
<1>1. q.at = "insert" /\ ~AccountAt(r, "idle")
  BY <1>0 DEF InsertPerson, AccountAt
<1>2. CASE personRow[w] # "absent" /\ AccountEnd(r) /\ UNCHANGED <<personRows, accountHistory>>
  BY <1>0, <1>w, <1>1, <1>2, NoAccountRequestFits, AccountReadsInv DEF AccountEnd
<1>3. CASE /\ personRow[w] = "absent"
           /\ personRow' = [personRow EXCEPT ![w] = "live"]
           /\ userProfile' = [userProfile EXCEPT ![w] = q.profile]
           /\ IF w \in Staff THEN AccountEnd(r) ELSE AccountStep(r, "log")
           /\ UNCHANGED <<account, accountProfile, located, accountHistory>>
  <2>1. PICK n : /\ n \in AccountRequest /\ AccountGo(r, n) /\ (n.at = "idle" \/ n.who = w)
                 /\ n.at = IF w \in Staff THEN "idle" ELSE "log"
    <3>1. q \in AccountRequest
      BY <1>0, AccountRequestParts
    <3> DEFINE n == [q EXCEPT !.at = "log"]
    <3>2. n \in AccountRequest /\ n.at = "log" /\ n.who = w
      BY <3>1, <1>w DEF AccountRequest
    <3>3. AccountGo(r, IF w \in Staff THEN NoAccountRequest ELSE n)
      BY <1>0, <1>3 DEF AccountEnd, AccountStep
    <3> HIDE DEF n
    <3> QED BY <3>2, <3>3, NoAccountRequestFits
  <2>2. w \in People /\ q \in AccountRequest /\ q.profile \in Profiles \cup {NoProfile}
    BY <1>0, <1>w, <1>1, AccountRequestParts DEF AccountRequest
  <2>3. accountRequests'[r] = n /\ \A k \in AccountSlots : k # r => accountRequests'[k] = accountRequests[k]
    BY <1>0, <2>1, AccountRequestParts
  <2>4. /\ DOMAIN personRow' = People /\ userProfile' \in [People -> Profiles \cup {NoProfile}]
        /\ personRow'[w] = "live" /\ userProfile'[w] = q.profile
        /\ \A v \in People : v # w => personRow'[v] = personRow[v] /\ userProfile'[v] = userProfile[v]
    BY <1>3, <2>2, PersonRowParts
  <2>5. w \in Staff /\ StaffKnown(w) => StaffKnown(w)'
    BY <1>0, <1>w, <1>1, <1>3, <2>1, <2>2, <2>3, <2>4 DEF StaffKnown, About, AccountAt
  <2>6. w \notin Staff /\ CustomerKnown(w) => CustomerKnown(w)'
    BY <1>0, <1>w, <1>1, <1>3, <2>1, <2>2, <2>3, <2>4 DEF CustomerKnown, About, AccountAt
  <2>7. ~Updates(n) /\ AccountFits(n)
    BY <2>1, <2>2 DEF Updates, AccountFits
  <2>8. "live" \in UserRow
    BY DEF UserRow
  <2> QED BY <1>0, <1>w, <1>1, <1>3, <2>1, <2>2, <2>4, <2>5, <2>6, <2>7, <2>8, PersonRowParts,
             AccountTurns
<1>4. CASE CutShort(r)
  BY <1>1, <1>4, CutShortInv
<1> QED BY <1>0, <1>w, <1>2, <1>3, <1>4 DEF InsertPerson

LEMMA LogLocationInv ==
  ASSUME AccountInv, NEW r \in AccountSlots, LogLocation(r) PROVE AccountInv'
<1>0. PICK q : q = accountRequests[r]
  OBVIOUS
<1>w. PICK w : w = q.who
  OBVIOUS
<1>1. q.at = "log" /\ ~AccountAt(r, "idle")
  BY <1>0 DEF LogLocation, AccountAt
<1>2. CASE /\ located' = located \cup {w} /\ AccountEnd(r)
           /\ UNCHANGED <<personRow, userProfile, account, accountProfile, accountHistory>>
  <2>1. AccountGo(r, NoAccountRequest) /\ w \in People /\ w \notin Staff
    <3>1. AccountFits(q)
      BY <1>0 DEF AccountInv
    <3> QED BY <3>1, <1>w, <1>1, <1>2 DEF AccountEnd, AccountFits
  <2>3. accountRequests'[r].at = "idle" /\ \A k \in AccountSlots : k # r => accountRequests'[k] = accountRequests[k]
    BY <1>0, <2>1, AccountRequestParts, NoAccountRequestFits
  <2>4. CustomerKnown(w) => CustomerKnown(w)'
    BY <1>0, <1>w, <1>1, <1>2, <2>1, <2>3 DEF CustomerKnown, About, AccountAt
  <2>5. ~Updates(NoAccountRequest) /\ AccountFits(NoAccountRequest)
    BY NoAccountRequestFits DEF Updates, AccountFits
  <2> QED BY <1>0, <1>w, <1>1, <1>2, <2>1, <2>4, <2>5, NoAccountRequestFits, PersonRowParts,
             AccountTurns
<1>4. CASE CutShort(r)
  BY <1>1, <1>4, CutShortInv
<1> QED BY <1>0, <1>w, <1>2, <1>4 DEF LogLocation

LEMMA LoadPersonInv ==
  ASSUME AccountInv, NEW r \in AccountSlots, LoadPerson(r) PROVE AccountInv'
<1>0. PICK q : q = accountRequests[r] /\ q \in AccountRequest /\ AccountFits(q)
  BY AccountRequestParts DEF AccountInv
<1>w. PICK w : w = q.who
  OBVIOUS
<1>1. q.at = "load" /\ UNCHANGED <<personRow, userProfile, account, accountProfile, accountHistory>>
  BY <1>0 DEF LoadPerson, AccountAt
<1>2. CASE AccountEnd(r) /\ UNCHANGED located
  BY <1>0, <1>w, <1>1, <1>2, NoAccountRequestFits, AccountReadsInv DEF AccountEnd, personRows
<1>3. CASE w \in Staff /\ personRow[w] = "live" /\ AccountStep(r, "mirror") /\ UNCHANGED located
  <2> DEFINE n == [q EXCEPT !.at = "mirror"]
  <2>1. n \in AccountRequest /\ n.at = "mirror" /\ n.who = w /\ n.profile = q.profile
    BY <1>0, <1>w DEF AccountRequest
  <2>2. AccountGo(r, n)
    BY <1>0, <1>3 DEF AccountStep
  <2> HIDE DEF n
  <2> QED BY <1>0, <1>w, <1>1, <1>3, <2>1, <2>2, AccountReadsInv DEF personRows
<1>4. CASE w \notin Staff /\ personRow[w] = "live" /\ AccountStep(r, "save") /\ located' \in {located, located \cup {w}}
  <2> DEFINE n == [q EXCEPT !.at = "save"]
  <2>1. n \in AccountRequest /\ n.at = "save" /\ n.who = w
    BY <1>0, <1>w DEF AccountRequest
  <2>2. AccountGo(r, n)
    BY <1>0, <1>4 DEF AccountStep
  <2> HIDE DEF n
  <2>3. accountRequests'[r] = n /\ \A k \in AccountSlots : k # r => accountRequests'[k] = accountRequests[k]
    BY <1>0, <2>2, AccountRequestParts
  <2>4. w \in People /\ Updates(q) /\ AccountFits(n)
    BY <1>0, <1>w, <1>1, <2>1, <1>4 DEF AccountFits, Updates
  <2>5. CustomerKnown(w) => CustomerKnown(w)'
    BY <1>0, <1>w, <1>1, <1>4, <2>1, <2>3 DEF CustomerKnown, About, AccountAt
  <2> QED BY <1>0, <1>w, <1>1, <1>4, <2>1, <2>2, <2>4, <2>5, PersonRowParts, AccountTurns
<1> QED BY <1>0, <1>w, <1>2, <1>3, <1>4 DEF LoadPerson

LEMMA MirrorProfileInv ==
  ASSUME AccountInv, NEW r \in AccountSlots, MirrorProfile(r) PROVE AccountInv'
<1>0. PICK q : q = accountRequests[r] /\ q \in AccountRequest /\ AccountFits(q)
  BY AccountRequestParts DEF AccountInv
<1>w. PICK w : w = q.who
  OBVIOUS
<1>1. q.at = "mirror"
  BY <1>0 DEF MirrorProfile, AccountAt
<1>2. CASE AccountEnd(r) /\ UNCHANGED <<personRows, accountHistory>>
  BY <1>0, <1>w, <1>1, <1>2, NoAccountRequestFits, AccountReadsInv DEF AccountEnd
<1>3. CASE /\ accountProfile' = [accountProfile EXCEPT ![w] = q.profile]
           /\ AccountStep(r, "password") \/ AccountStep(r, "save")
           /\ UNCHANGED <<personRow, userProfile, account, located, accountHistory>>
  <2>1. PICK a \in {"password", "save"} : AccountStep(r, a)
    BY <1>3
  <2> DEFINE n == [q EXCEPT !.at = a]
  <2>2. n \in AccountRequest /\ n.at = a /\ n.who = w /\ n.profile = q.profile
    BY <1>0, <1>w DEF AccountRequest
  <2>3. AccountGo(r, n)
    BY <1>0, <2>1 DEF AccountStep
  <2> HIDE DEF n
  <2>4. accountRequests'[r] = n /\ \A k \in AccountSlots : k # r => accountRequests'[k] = accountRequests[k]
    BY <1>0, <2>3, AccountRequestParts
  <2>5. w \in People /\ w \in Staff /\ Updates(q) /\ AccountFits(n)
    BY <1>0, <1>w, <1>1, <2>1, <2>2 DEF AccountFits, Updates
  <2>6. /\ accountProfile' \in [People -> Profiles \cup {NoProfile}] /\ accountProfile'[w] = q.profile
        /\ \A v \in People : v # w => accountProfile'[v] = accountProfile[v]
    BY <1>0, <1>3, <2>5, PersonRowParts DEF AccountRequest
  <2>7. StaffKnown(w) /\ UpdatesAlone(w) => StaffKnown(w)'
    BY <1>0, <1>w, <1>1, <1>3, <2>1, <2>2, <2>4, <2>5, <2>6 DEF StaffKnown, UpdatesAlone, About,
       AccountAt
  <2> QED BY <1>0, <1>w, <1>1, <1>3, <2>2, <2>3, <2>5, <2>6, <2>7, PersonRowParts, AccountTurns
<1> QED BY <1>0, <1>w, <1>2, <1>3 DEF MirrorProfile

LEMMA SetPasswordInv ==
  ASSUME AccountInv, NEW r \in AccountSlots, SetPassword(r) PROVE AccountInv'
<1>0. PICK q : q = accountRequests[r] /\ q \in AccountRequest /\ AccountFits(q)
  BY AccountRequestParts DEF AccountInv
<1>w. PICK w : w = q.who
  OBVIOUS
<1>1. q.at = "password" /\ ~AccountAt(r, "idle")
  BY <1>0 DEF SetPassword, AccountAt
<1>2. CASE AccountStep(r, "save") /\ UNCHANGED <<personRows, accountHistory>>
  <2> DEFINE n == [q EXCEPT !.at = "save"]
  <2>1. n \in AccountRequest /\ n.at = "save" /\ n.who = w /\ n.profile = q.profile
    BY <1>0, <1>w DEF AccountRequest
  <2>2. AccountGo(r, n)
    BY <1>0, <1>2 DEF AccountStep
  <2> HIDE DEF n
  <2> QED BY <1>0, <1>w, <1>1, <1>2, <2>1, <2>2, AccountReadsInv
<1>3. CASE CutShort(r)
  BY <1>1, <1>3, CutShortInv
<1> QED BY <1>2, <1>3 DEF SetPassword

LEMMA SavePersonInv ==
  ASSUME AccountInv, NEW r \in AccountSlots, SavePerson(r) PROVE AccountInv'
<1>0. PICK q : q = accountRequests[r] /\ q \in AccountRequest /\ AccountFits(q)
  BY AccountRequestParts DEF AccountInv
<1>w. PICK w : w = q.who
  OBVIOUS
<1>1. q.at = "save" /\ ~AccountAt(r, "idle")
  BY <1>0 DEF SavePerson, AccountAt
<1>2. CASE /\ personRow' = [personRow EXCEPT ![w] = "live"]
           /\ userProfile' = [userProfile EXCEPT ![w] = q.profile]
           /\ AccountEnd(r)
           /\ UNCHANGED <<account, accountProfile, located, accountHistory>>
  <2>1. AccountGo(r, NoAccountRequest) /\ w \in People /\ q.profile \in Profiles \cup {NoProfile}
    BY <1>0, <1>w, <1>1, <1>2 DEF AccountEnd, AccountFits, AccountRequest
  <2>3. accountRequests'[r].at = "idle" /\ \A k \in AccountSlots : k # r => accountRequests'[k] = accountRequests[k]
    BY <1>0, <2>1, AccountRequestParts, NoAccountRequestFits
  <2>4. /\ DOMAIN personRow' = People /\ userProfile' \in [People -> Profiles \cup {NoProfile}]
        /\ personRow'[w] = "live" /\ userProfile'[w] = q.profile
        /\ \A v \in People : v # w => personRow'[v] = personRow[v] /\ userProfile'[v] = userProfile[v]
    BY <1>2, <2>1, PersonRowParts
  <2>5. StaffKnown(w) /\ UpdatesAlone(w) => StaffKnown(w)'
    BY <1>0, <1>w, <1>1, <1>2, <2>1, <2>3, <2>4 DEF StaffKnown, UpdatesAlone, Updates, About,
       AccountAt
  <2>6. CustomerKnown(w) /\ UpdatesAlone(w) => CustomerKnown(w)'
    BY <1>0, <1>w, <1>1, <1>2, <2>1, <2>3, <2>4 DEF CustomerKnown, UpdatesAlone, Updates, About,
       AccountAt
  <2>7. ~Updates(NoAccountRequest) /\ AccountFits(NoAccountRequest) /\ "live" \in UserRow
    BY NoAccountRequestFits DEF Updates, AccountFits, UserRow
  <2> QED BY <1>0, <1>w, <1>1, <1>2, <2>1, <2>4, <2>5, <2>6, <2>7, NoAccountRequestFits,
             PersonRowParts, AccountTurns
<1>3. CASE CutShort(r)
  BY <1>1, <1>3, CutShortInv
<1> QED BY <1>0, <1>w, <1>2, <1>3 DEF SavePerson

LEMMA LoadDoomedPersonInv ==
  ASSUME AccountInv, NEW r \in AccountSlots, LoadDoomedPerson(r) PROVE AccountInv'
<1>0. PICK q : q = accountRequests[r] /\ q \in AccountRequest /\ AccountFits(q)
  BY AccountRequestParts DEF AccountInv
<1>w. PICK w : w = q.who
  OBVIOUS
<1>1. q.at = "load_doomed" /\ UNCHANGED <<personRows, accountHistory>>
  BY <1>0 DEF LoadDoomedPerson, AccountAt
<1>2. CASE AccountEnd(r)
  BY <1>0, <1>w, <1>1, <1>2, NoAccountRequestFits, AccountReadsInv DEF AccountEnd
<1>3. CASE personRow[w] = "live" /\ w \in Staff /\ AccountStep(r, "delete")
  <2> DEFINE n == [q EXCEPT !.at = "delete"]
  <2>1. n \in AccountRequest /\ n.at = "delete" /\ n.who = w /\ n.profile = q.profile
    BY <1>0, <1>w DEF AccountRequest
  <2>2. AccountGo(r, n)
    BY <1>0, <1>3 DEF AccountStep
  <2> HIDE DEF n
  <2> QED BY <1>0, <1>w, <1>1, <1>3, <2>1, <2>2, AccountReadsInv
<1>4. CASE w \notin Staff /\ AccountStep(r, "last_location")
  <2> DEFINE n == [q EXCEPT !.at = "last_location"]
  <2>1. n \in AccountRequest /\ n.at = "last_location" /\ n.who = w /\ n.profile = q.profile
    BY <1>0, <1>w DEF AccountRequest
  <2>2. AccountGo(r, n)
    BY <1>0, <1>4 DEF AccountStep
  <2> HIDE DEF n
  <2> QED BY <1>0, <1>w, <1>1, <1>4, <2>1, <2>2, AccountReadsInv
<1> QED BY <1>0, <1>w, <1>2, <1>3, <1>4 DEF LoadDoomedPerson

LEMMA GetLastLocationInv ==
  ASSUME AccountInv, NEW r \in AccountSlots, GetLastLocation(r) PROVE AccountInv'
<1>0. PICK q : q = accountRequests[r] /\ q \in AccountRequest /\ AccountFits(q)
  BY AccountRequestParts DEF AccountInv
<1>w. PICK w : w = q.who
  OBVIOUS
<1>1. q.at = "last_location" /\ UNCHANGED <<personRows, accountHistory>>
  BY <1>0 DEF GetLastLocation, AccountAt
<1>2. CASE AccountEnd(r)
  BY <1>0, <1>w, <1>1, <1>2, NoAccountRequestFits, AccountReadsInv DEF AccountEnd
<1>3. CASE AccountStep(r, "delete")
  <2> DEFINE n == [q EXCEPT !.at = "delete"]
  <2>1. n \in AccountRequest /\ n.at = "delete" /\ n.who = w /\ n.profile = q.profile
    BY <1>0, <1>w DEF AccountRequest
  <2>2. AccountGo(r, n)
    BY <1>0, <1>3 DEF AccountStep
  <2> HIDE DEF n
  <2> QED BY <1>0, <1>w, <1>1, <1>3, <2>1, <2>2, AccountReadsInv
<1> QED BY <1>0, <1>w, <1>2, <1>3 DEF GetLastLocation

LEMMA SoftDeletePersonInv ==
  ASSUME AccountInv, NEW r \in AccountSlots, SoftDeletePerson(r) PROVE AccountInv'
<1>0. PICK q : q = accountRequests[r] /\ q \in AccountRequest /\ AccountFits(q)
  BY AccountRequestParts DEF AccountInv
<1>w. PICK w : w = q.who
  OBVIOUS
<1>1. /\ q.at = "delete" /\ personRow' = [personRow EXCEPT ![w] = "deleted"]
      /\ UNCHANGED <<userProfile, account, accountProfile, located, accountHistory>>
      /\ IF w \in Staff THEN AccountStep(r, "disable") ELSE AccountEnd(r)
  BY <1>0, <1>w DEF SoftDeletePerson, AccountAt
<1>2. PICK n : /\ n \in AccountRequest /\ AccountGo(r, n) /\ (n.at = "idle" \/ n.who = w)
               /\ n.at = IF w \in Staff THEN "disable" ELSE "idle"
  <2> DEFINE n == [q EXCEPT !.at = "disable"]
  <2>1. n \in AccountRequest /\ n.at = "disable" /\ n.who = w
    BY <1>0, <1>w DEF AccountRequest
  <2>2. AccountGo(r, IF w \in Staff THEN n ELSE NoAccountRequest)
    BY <1>0, <1>1 DEF AccountEnd, AccountStep
  <2> HIDE DEF n
  <2> QED BY <2>1, <2>2, NoAccountRequestFits
<1>3. accountRequests'[r] = n /\ \A k \in AccountSlots : k # r => accountRequests'[k] = accountRequests[k]
  BY <1>0, <1>2, AccountRequestParts
<1>4. w \in People /\ ~Updates(n) /\ AccountFits(n)
  BY <1>0, <1>w, <1>1, <1>2 DEF AccountFits, Updates
<1>5. /\ DOMAIN personRow' = People /\ personRow'[w] = "deleted" /\ "deleted" \in UserRow
      /\ \A v \in People : v # w => personRow'[v] = personRow[v]
  BY <1>1, <1>4, PersonRowParts DEF UserRow
<1>6. w \in Staff /\ StaffKnown(w) /\ UpdatesAlone(w) => StaffKnown(w)'
  BY <1>0, <1>w, <1>1, <1>2, <1>3, <1>5 DEF StaffKnown, UpdatesAlone, Updates, About, AccountAt
<1>7. w \notin Staff /\ CustomerKnown(w) /\ UpdatesAlone(w) => CustomerKnown(w)'
  BY <1>0, <1>w, <1>1, <1>2, <1>3, <1>5 DEF CustomerKnown, UpdatesAlone, Updates, About, AccountAt
<1> QED BY <1>0, <1>w, <1>1, <1>2, <1>4, <1>5, <1>6, <1>7, PersonRowParts, AccountTurns

LEMMA DisableAccountInv ==
  ASSUME AccountInv, NEW r \in AccountSlots, DisableAccount(r) PROVE AccountInv'
<1>0. PICK q : q = accountRequests[r] /\ q \in AccountRequest /\ AccountFits(q)
  BY AccountRequestParts DEF AccountInv
<1>w. PICK w : w = q.who
  OBVIOUS
<1>1. q.at = "disable" /\ ~AccountAt(r, "idle") /\ w \in People /\ w \in Staff
  BY <1>0, <1>w DEF DisableAccount, AccountAt, AccountFits
<1>2. CASE /\ account' = [account EXCEPT ![w] = "disabled"] /\ AccountEnd(r)
           /\ UNCHANGED <<personRow, userProfile, accountProfile, located, accountHistory>>
  <2>1. AccountGo(r, NoAccountRequest)
    BY <1>2 DEF AccountEnd
  <2>3. accountRequests'[r].at = "idle" /\ \A k \in AccountSlots : k # r => accountRequests'[k] = accountRequests[k]
    BY <1>0, <2>1, AccountRequestParts, NoAccountRequestFits
  <2>4. /\ account' \in [People -> FirebaseAccount] /\ account'[w] = "disabled"
        /\ \A v \in People : v # w => account'[v] = account[v]
    BY <1>1, <1>2, PersonRowParts DEF FirebaseAccount
  <2>5. StaffKnown(w) /\ UpdatesAlone(w) => StaffKnown(w)'
    BY <1>0, <1>w, <1>1, <1>2, <2>3, <2>4 DEF StaffKnown, About, AccountAt
  <2>7. ~Updates(NoAccountRequest) /\ AccountFits(NoAccountRequest)
    BY NoAccountRequestFits DEF Updates, AccountFits
  <2> QED BY <1>0, <1>w, <1>1, <1>2, <2>1, <2>4, <2>5, <2>7, NoAccountRequestFits,
             PersonRowParts, AccountTurns
<1>3. CASE CutShort(r)
  BY <1>1, <1>3, CutShortInv
<1> QED BY <1>0, <1>w, <1>2, <1>3 DEF DisableAccount

LEMMA AccountRequestsBegin ==
  ASSUME AccountInv, NEW r \in AccountSlots,
         \/ CreateUser(r) \/ UpdateUserById(r) \/ DeleteUser(r)
         \/ CreateCustomer(r) \/ UpdateCustomerRow(r) \/ DeleteCustomerById(r)
  PROVE  AccountInv'
<1>1. CASE CreateUser(r)
  <2>1. PICK w \in Staff, p \in Profiles : AccountBegins(r, [at |-> "find", who |-> w, profile |-> p])
    BY <1>1 DEF CreateUser
  <2> DEFINE n == [at |-> "find", who |-> w, profile |-> p]
  <2>2. n \in AccountRequest /\ n.at = "find" /\ n.who = w /\ w \in People
    BY DEF NoAccountRequest, AccountRequest, People
  <2>3. AccountBegins(r, n)
    BY <2>1
  <2> HIDE DEF n
  <2> QED BY <2>2, <2>3, AccountBeginsInv
<1>2. CASE UpdateUserById(r)
  <2>1. PICK w \in Staff, p \in Profiles : AccountBegins(r, [at |-> "load", who |-> w, profile |-> p])
    BY <1>2 DEF UpdateUserById
  <2> DEFINE n == [at |-> "load", who |-> w, profile |-> p]
  <2>2. n \in AccountRequest /\ n.at = "load" /\ n.who = w /\ w \in People
    BY DEF NoAccountRequest, AccountRequest, People
  <2>3. AccountBegins(r, n)
    BY <2>1
  <2> HIDE DEF n
  <2> QED BY <2>2, <2>3, AccountBeginsInv
<1>3. CASE DeleteUser(r)
  <2>1. PICK w \in Staff : AccountBegins(r, [NoAccountRequest EXCEPT !.at = "load_doomed", !.who = w])
    BY <1>3 DEF DeleteUser
  <2> DEFINE n == [NoAccountRequest EXCEPT !.at = "load_doomed", !.who = w]
  <2>2. n \in AccountRequest /\ n.at = "load_doomed" /\ n.who = w /\ w \in People
    BY DEF NoAccountRequest, AccountRequest, People
  <2>3. AccountBegins(r, n)
    BY <2>1
  <2> HIDE DEF n
  <2> QED BY <2>2, <2>3, AccountBeginsInv
<1>4. CASE UpdateCustomerRow(r)
  <2>1. PICK w \in Phones : AccountBegins(r, [NoAccountRequest EXCEPT !.at = "load", !.who = w])
    BY <1>4 DEF UpdateCustomerRow
  <2> DEFINE n == [NoAccountRequest EXCEPT !.at = "load", !.who = w]
  <2>2. n \in AccountRequest /\ n.at = "load" /\ n.who = w /\ w \in People
    BY DEF NoAccountRequest, AccountRequest, People
  <2>3. AccountBegins(r, n)
    BY <2>1
  <2> HIDE DEF n
  <2> QED BY <2>2, <2>3, AccountBeginsInv
<1>5. CASE DeleteCustomerById(r)
  <2>1. PICK w \in Phones : AccountBegins(r, [NoAccountRequest EXCEPT !.at = "load_doomed", !.who = w])
    BY <1>5 DEF DeleteCustomerById
  <2> DEFINE n == [NoAccountRequest EXCEPT !.at = "load_doomed", !.who = w]
  <2>2. n \in AccountRequest /\ n.at = "load_doomed" /\ n.who = w /\ w \in People
    BY DEF NoAccountRequest, AccountRequest, People
  <2>3. AccountBegins(r, n)
    BY <2>1
  <2> HIDE DEF n
  <2> QED BY <2>2, <2>3, AccountBeginsInv
<1>6. CASE CreateCustomer(r)
  <2>1. PICK w \in Phones, a \in {"insert", "create_account"} :
          /\ a = "insert" => account[w] = "enabled"
          /\ AccountBegins(r, [NoAccountRequest EXCEPT !.at = a, !.who = w])
    BY <1>6 DEF CreateCustomer
  <2> DEFINE n == [NoAccountRequest EXCEPT !.at = a, !.who = w]
  <2>2. n \in AccountRequest /\ n.at = a /\ n.who = w /\ w \in People /\ w \notin Staff
    BY AccountsAssumption DEF NoAccountRequest, AccountRequest, People
  <2>3. AccountBegins(r, n)
    BY <2>1
  <2> HIDE DEF n
  <2> QED BY <2>1, <2>2, <2>3, AccountBeginsInv
<1> QED BY <1>1, <1>2, <1>3, <1>4, <1>5, <1>6

LEMMA SignUpInv ==
  ASSUME AccountInv, SignUp PROVE AccountInv'
<1>1. PICK w \in Phones :
        /\ account[w] = "none" /\ account' = [account EXCEPT ![w] = "enabled"]
        /\ UNCHANGED <<personRow, userProfile, accountProfile, located, accountHistory, accountRequests>>
  BY DEF SignUp
<1>2. w \in People /\ w \notin Staff
  BY AccountsAssumption DEF People
<1>3. /\ account' \in [People -> FirebaseAccount] /\ account'[w] = "enabled"
      /\ \A v \in People : v # w => account'[v] = account[v]
  BY <1>1, <1>2, PersonRowParts DEF FirebaseAccount
<1>4. UNCHANGED <<accountCalls, updatesOverlap, cutShort>>
  BY <1>1 DEF accountHistory
<1>5. AccountTypeOK'
  BY <1>1, <1>3, <1>4 DEF AccountInv, AccountTypeOK
<1>6. ASSUME NEW v \in People, PersonKnown(v) PROVE PersonKnown(v)'
  BY <1>1, <1>2, <1>3, <1>6 DEF PersonKnown, UpdatesAlone, Updates, StaffKnown, CustomerKnown,
     About, AccountAt
<1> QED BY <1>1, <1>4, <1>5, <1>6 DEF AccountInv

LEMMA AccountCrashInv ==
  ASSUME AccountInv, AccountCrash PROVE AccountInv'
<1>1. /\ UNCHANGED <<personRow, userProfile, account, accountProfile, located, accountCalls, updatesOverlap>>
      /\ cutShort' = cutShort \cup Busy
      /\ accountRequests' = [r \in AccountSlots |-> NoAccountRequest]
  BY DEF AccountCrash, personRows
<1>2. /\ \A r \in AccountSlots : accountRequests'[r].at = "idle"
      /\ accountRequests' \in [AccountSlots -> AccountRequest]
  BY <1>1, NoAccountRequestFits
<1>3. Busy \subseteq People
  BY DEF Busy, AccountInv, AccountFits, AccountAt
<1>4. AccountTypeOK'
  BY <1>1, <1>2, <1>3 DEF AccountInv, AccountTypeOK
<1>5. ASSUME NEW w \in People, w \notin cutShort', w \notin updatesOverlap' PROVE PersonKnown(w)'
  <2>1. PersonKnown(w) /\ \A r \in AccountSlots : ~About(r, w)
    BY <1>1, <1>5 DEF AccountInv, About, Busy
  <2>2. \A r \in AccountSlots : ~About(r, w)'
    BY <1>2 DEF About, AccountAt
  <2>3. UpdatesAlone(w)'
    BY <2>2 DEF UpdatesAlone
  <2>4. w \in Staff => StaffKnown(w)'
    BY <2>1, <2>2, <1>1 DEF PersonKnown, StaffKnown
  <2>5. w \notin Staff => CustomerKnown(w)'
    BY <2>1, <2>2, <1>1 DEF PersonKnown, CustomerKnown
  <2> QED BY <2>3, <2>4, <2>5 DEF PersonKnown
<1> QED BY <1>2, <1>4, <1>5 DEF AccountInv, AccountFits

LEMMA AccountAlways == AccountSpec => []AccountInv
<1>1. ASSUME AccountInv, [AccountNext]_accountVars PROVE AccountInv'
  <2>1. CASE UNCHANGED accountVars
    <3>1. UNCHANGED <<personRow, userProfile, account, accountProfile, located, accountCalls, updatesOverlap,
                      cutShort, accountRequests>>
      BY <2>1 DEF accountVars, personRows, accountHistory
    <3>2. AccountTypeOK'
      BY <1>1, <3>1 DEF AccountInv, AccountTypeOK
    <3>3. ASSUME NEW w \in People, PersonKnown(w) PROVE PersonKnown(w)'
      BY <3>1, <3>3 DEF PersonKnown, UpdatesAlone, StaffKnown, CustomerKnown, About, AccountAt
    <3> QED BY <1>1, <3>1, <3>2, <3>3 DEF AccountInv
  <2>2. CASE SignUp \/ AccountCrash
    BY <1>1, <2>2, SignUpInv, AccountCrashInv
  <2>3. ASSUME NEW r \in AccountSlots,
               \/ CreateUser(r) \/ UpdateUserById(r) \/ DeleteUser(r)
               \/ CreateCustomer(r) \/ UpdateCustomerRow(r) \/ DeleteCustomerById(r)
               \/ FindUser(r) \/ CreateAccount(r) \/ InsertPerson(r) \/ LogLocation(r)
               \/ LoadPerson(r) \/ MirrorProfile(r) \/ SetPassword(r) \/ SavePerson(r)
               \/ LoadDoomedPerson(r) \/ GetLastLocation(r) \/ SoftDeletePerson(r) \/ DisableAccount(r)
        PROVE  AccountInv'
    BY <1>1, <2>3, AccountRequestsBegin, FindUserInv, CreateAccountInv, InsertPersonInv,
       LogLocationInv,
       LoadPersonInv, MirrorProfileInv, SetPasswordInv, SavePersonInv, LoadDoomedPersonInv,
       GetLastLocationInv, SoftDeletePersonInv, DisableAccountInv
  <2> QED BY <1>1, <2>1, <2>2, <2>3 DEF AccountNext
<1> QED BY <1>1, AccountInitially, PTL DEF AccountSpec

\* Rows, accounts and the requests about them keep their types (users.service.ts,
\* customers.service.ts), whatever overlaps, fails or dies.
THEOREM AccountTypeCorrect == AccountSpec => []AccountTypeOK
<1>1. AccountInv => AccountTypeOK
  BY DEF AccountInv
<1> QED BY <1>1, AccountAlways, PTL

\* Creations and deletions of users and customers may overlap in any number: unless a
\* request ends between its writes or an update overlaps another request, a person's row
\* and her Firebase account agree as soon as nothing runs about her.
THEOREM SignInHolds == AccountSpec => []SignInMatchesRow
<1>1. ASSUME AccountInv PROVE SignInMatchesRow
  <2>1. ASSUME NEW w \in People \ (Busy \cup cutShort \cup updatesOverlap)
        PROVE  IF w \in Staff THEN UserMatches(w) ELSE CustomerMatches(w)
    <3>1. PersonKnown(w) /\ \A r \in AccountSlots : ~About(r, w)
      BY <1>1, <2>1 DEF AccountInv, About, Busy
    <3>2. account[w] \in FirebaseAccount
      BY <1>1, <2>1 DEF AccountInv, AccountTypeOK
    <3> QED BY <3>1, <3>2 DEF PersonKnown, StaffKnown, CustomerKnown, UserMatches,
               CustomerMatches, FirebaseAccount
  <2> QED BY <2>1 DEF SignInMatchesRow
<1> QED BY <1>1, AccountAlways, PTL

(***************************************************************************)
(* All of the back office side by side.                                    *)
(***************************************************************************)
\* Whichever desk moves, its step is a step of its own specification and a stutter of
\* every other one.
LEMMA BackOfficeParts ==
  BackOfficeSpec => /\ AddressSpec /\ WorkerSpec /\ AreaSpec
                    /\ PoolSpec /\ WalletSpec /\ AccountSpec
<1>1. BackOfficeInit => /\ AddressInit /\ WorkerInit /\ AreaInit
                        /\ PoolInit /\ WalletInit /\ AccountInit
  BY DEF BackOfficeInit
<1>2. ASSUME [BackOfficeNext]_BackOfficeVars
      PROVE  /\ [AddressNext]_addressVars /\ [WorkerNext]_workerVars /\ [AreaNext]_areaVars
             /\ [PoolNext]_poolVars /\ [WalletNext]_walletVars /\ [AccountNext]_accountVars
  <2>1. CASE UNCHANGED BackOfficeVars
    BY <2>1 DEF BackOfficeVars
  <2> QED BY <1>2, <2>1 DEF BackOfficeNext
<1> QED BY <1>1, <1>2, PTL
        DEF BackOfficeSpec, AddressSpec, WorkerSpec, AreaSpec, PoolSpec, WalletSpec, AccountSpec

\* The six services side by side keep their types and everything proved of each of them:
\* all that a run of MCBackOffice checks, for every value of all their constants.
THEOREM BackOfficeHolds ==
  BackOfficeSpec => [](/\ BackOfficeTypeOK
                       /\ OneDefaultAddress /\ OneDefaultMethod /\ SearchBreaksOnlyInCreation
                       /\ NoOrphans /\ RunnersReleased /\ NoOverdraft /\ SignInMatchesRow)
<1>1. /\ AddressTypeOK /\ WorkerTypeOK /\ AreaTypeOK
      /\ PoolTypeOK /\ WalletTypeOK /\ AccountTypeOK
      => BackOfficeTypeOK
  BY DEF BackOfficeTypeOK
<1> QED BY <1>1, BackOfficeParts, AddressTypeCorrect, WorkerTypeCorrect, AreaTypeCorrect,
           PoolTypeCorrect, WalletTypeCorrect, AccountTypeCorrect, DefaultAddressKept,
           DefaultMethodKept, SearchBreaksAtCreation, TreeHolds, PoolStarvation,
           OverdraftBounded, SignInHolds, PTL
=============================================================================
