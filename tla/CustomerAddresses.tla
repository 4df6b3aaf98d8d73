-------------------------- MODULE CustomerAddresses --------------------------
(***************************************************************************)
(* The addresses of one customer, one of which is the default              *)
(* (customers.service.ts, updateCustomer).  One request may create an      *)
(* address, update one and delete one, in that order, each part over       *)
(* several awaits and outside a transaction.                               *)
(***************************************************************************)
EXTENDS Naturals, FiniteSets

CONSTANTS Addresses,         \* ids the table can hand out (bound)
          NoAddress,         \* the request has no such part
          AddressSlots,      \* requests that may run at the same time (bound)
          MaxAddressUpdates, \* requests of the customer (bound)
          AddressFaults      \* what may happen: a subset of {"crash", "incomplete"}

ASSUME AddressesAssumption == IsFiniteSet(Addresses) /\ NoAddress \notin Addresses
ASSUME AddressSlotsAssumption == IsFiniteSet(AddressSlots)
ASSUME AddressLimitsAssumption == MaxAddressUpdates \in Nat /\ AddressFaults \subseteq {"crash", "incomplete"}

VARIABLES
  addressRows,     \* every row: absent, live, or soft-deleted
  isDefault,       \* the rows whose is_default is true
  addressUpdates,  \* requests so far
  addressOverlap,  \* two requests have run at the same time
  defaultGivenUp,  \* a request unset or deleted the default, or ended halfway
  addressRequests  \* the running requests

addressHistory == <<addressUpdates, addressOverlap, defaultGivenUp>>
addressVars    == <<addressRows, isDefault, addressHistory, addressRequests>>

\* A row of customer_address: whether it is there; isDefault holds the other column told apart.
AddressRow == {"absent", "live", "deleted"}

\* What updateCustomerAddressInput says of is_default.
DefaultInputs == {"true", "false", "unset"}

\* A request: the await it stands at, its input, and is_default as it was loaded.
AddressRequest ==
  [at : {"idle", "count", "clear_new", "save_new", "load", "clear", "save",
         "load_doomed", "delete"},
   creates : BOOLEAN, updated : Addresses \cup {NoAddress}, input : DefaultInputs,
   deleted : Addresses \cup {NoAddress}, loaded : BOOLEAN]

NoAddressRequest == [at |-> "idle", creates |-> FALSE, updated |-> NoAddress,
                     input |-> "unset", deleted |-> NoAddress, loaded |-> FALSE]

LiveAddresses == {a \in Addresses : addressRows[a] = "live"}
Defaults      == LiveAddresses \cap isDefault

AddressAt(r, a)  == addressRequests[r].at = a
AddressGo(r, q)  == addressRequests' = [addressRequests EXCEPT ![r] = q]
AddressEnd(r)    == AddressGo(r, NoAddressRequest)

\* The parts of a request follow each other.
ThenDelete(q) == IF q.deleted # NoAddress THEN [q EXCEPT !.at = "load_doomed"] ELSE NoAddressRequest
ThenUpdate(q) == IF q.updated # NoAddress THEN [q EXCEPT !.at = "load"] ELSE ThenDelete(q)
FirstPart(q)  == IF q.creates THEN [q EXCEPT !.at = "count"] ELSE ThenUpdate(q)

UpdateCustomer(r) ==
  /\ AddressAt(r, "idle")
  /\ addressUpdates < MaxAddressUpdates
  /\ addressUpdates' = addressUpdates + 1
  /\ \E creates \in BOOLEAN, input \in DefaultInputs,
        updated, deleted \in Addresses \cup {NoAddress} :
       /\ updated = NoAddress => input = "unset"
       /\ AddressGo(r, FirstPart([NoAddressRequest EXCEPT !.creates = creates,
                                    !.updated = updated, !.input = input, !.deleted = deleted]))
  /\ addressOverlap' = (addressOverlap \/ \E k \in AddressSlots : ~AddressAt(k, "idle"))
  /\ UNCHANGED <<addressRows, isDefault, defaultGivenUp>>

\* Mutant: the other defaults are never cleared.
CountAddressesOnly(r) ==
  /\ AddressAt(r, "count")
  /\ AddressGo(r, [addressRequests[r] EXCEPT !.at = "save_new"])
  /\ UNCHANGED <<addressRows, isDefault, addressHistory>>

\* Only when the customer has an address are the defaults cleared.
CountAddresses(r) ==
  /\ AddressAt(r, "count")
  /\ AddressGo(r, [addressRequests[r] EXCEPT
                     !.at = IF LiveAddresses = {} THEN "save_new" ELSE "clear_new"])
  /\ UNCHANGED <<addressRows, isDefault, addressHistory>>

ClearForNew(r) ==
  /\ AddressAt(r, "clear_new")
  /\ isDefault' = {}
  /\ AddressGo(r, [addressRequests[r] EXCEPT !.at = "save_new"])
  /\ UNCHANGED <<addressRows, addressHistory>>

SaveNewAddress(r, a) ==
  /\ AddressAt(r, "save_new")
  /\ addressRows[a] = "absent"
  /\ addressRows' = [addressRows EXCEPT ![a] = "live"]
  /\ isDefault' = isDefault \cup {a}
  /\ AddressGo(r, ThenUpdate(addressRequests[r]))
  /\ UNCHANGED addressHistory

\* The input may lack what the table requires (appartment_size): the insert fails, and
\* the defaults stay cleared.
NewAddressRefused(r) ==
  /\ AddressAt(r, "save_new")
  /\ "incomplete" \in AddressFaults
  /\ AddressEnd(r)
  /\ defaultGivenUp' = TRUE
  /\ UNCHANGED <<addressRows, isDefault, addressUpdates, addressOverlap>>

\* "Customer address not found" ends the request; the created address stays.
LoadAddress(r) ==
  LET q == addressRequests[r] IN
  /\ AddressAt(r, "load")
  /\ IF q.updated \notin LiveAddresses THEN AddressEnd(r)
     ELSE AddressGo(r, [q EXCEPT !.at = IF q.input = "true" THEN "clear" ELSE "save",
                                 !.loaded = q.updated \in isDefault])
  /\ UNCHANGED <<addressRows, isDefault, addressHistory>>

ClearForUpdate(r) ==
  /\ AddressAt(r, "clear")
  /\ isDefault' = {}
  /\ AddressGo(r, [addressRequests[r] EXCEPT !.at = "save", !.loaded = TRUE])
  /\ UNCHANGED <<addressRows, addressHistory>>

\* save(customerAddress) writes the row back as it was loaded: is_default too, and a
\* row deleted in between is live again.
SaveAddress(r) ==
  LET q == addressRequests[r] IN
  /\ AddressAt(r, "save")
  /\ addressRows' = [addressRows EXCEPT ![q.updated] = "live"]
  /\ isDefault' = IF q.loaded /\ q.input # "false" THEN isDefault \cup {q.updated}
                  ELSE isDefault \ {q.updated}
  /\ defaultGivenUp' = (defaultGivenUp \/ (q.input = "false" /\ q.updated \in isDefault))
  /\ AddressGo(r, ThenDelete(q))
  /\ UNCHANGED <<addressUpdates, addressOverlap>>

\* The address to delete is found by its id alone.
LoadDoomed(r) ==
  /\ AddressAt(r, "load_doomed")
  /\ IF addressRequests[r].deleted \in LiveAddresses
     THEN AddressGo(r, [addressRequests[r] EXCEPT !.at = "delete"]) ELSE AddressEnd(r)
  /\ UNCHANGED <<addressRows, isDefault, addressHistory>>

DeleteAddress(r) ==
  LET a == addressRequests[r].deleted IN
  /\ AddressAt(r, "delete")
  /\ addressRows' = [addressRows EXCEPT ![a] = "deleted"]
  /\ defaultGivenUp' = (defaultGivenUp \/ a \in isDefault)
  /\ AddressEnd(r)
  /\ UNCHANGED <<isDefault, addressUpdates, addressOverlap>>

\* The process ends, and every request with it.
AddressCrash ==
  /\ "crash" \in AddressFaults
  /\ \E r \in AddressSlots : ~AddressAt(r, "idle")
  /\ addressRequests' = [r \in AddressSlots |-> NoAddressRequest]
  /\ defaultGivenUp' = TRUE
  /\ UNCHANGED <<addressRows, isDefault, addressUpdates, addressOverlap>>

AddressInit ==
  /\ addressRows = [a \in Addresses |-> "absent"]
  /\ isDefault = {}
  /\ addressUpdates = 0
  /\ addressOverlap = FALSE
  /\ defaultGivenUp = FALSE
  /\ addressRequests = [r \in AddressSlots |-> NoAddressRequest]

AddressStep(r) ==
  \/ UpdateCustomer(r) \/ CountAddresses(r) \/ ClearForNew(r)
  \/ \E a \in Addresses : SaveNewAddress(r, a)
  \/ NewAddressRefused(r) \/ LoadAddress(r) \/ ClearForUpdate(r) \/ SaveAddress(r)
  \/ LoadDoomed(r) \/ DeleteAddress(r)

AddressNext == AddressCrash \/ \E r \in AddressSlots : AddressStep(r)

AddressSpec == AddressInit /\ [][AddressNext]_addressVars

\* Type invariant.
AddressTypeOK ==
  /\ addressRows \in [Addresses -> AddressRow]
  /\ isDefault \subseteq Addresses
  /\ addressUpdates \in 0..MaxAddressUpdates
  /\ addressOverlap \in BOOLEAN /\ defaultGivenUp \in BOOLEAN
  /\ addressRequests \in [AddressSlots -> AddressRequest]
  /\ \A r \in AddressSlots :
       /\ AddressAt(r, "load") \/ AddressAt(r, "clear") \/ AddressAt(r, "save") =>
            addressRequests[r].updated \in Addresses
       /\ AddressAt(r, "load_doomed") \/ AddressAt(r, "delete") =>
            addressRequests[r].deleted \in Addresses

\* As long as the customer's requests do not overlap, at most one address is the
\* default, whatever parts they have and wherever one dies; and a customer with
\* addresses has one, unless it was unset, deleted, or lost with a request that died or was refused.
OneDefaultAddress ==
  ~addressOverlap =>
    /\ Cardinality(Defaults) <= 1
    /\ (\A r \in AddressSlots : AddressAt(r, "idle")) /\ ~defaultGivenUp
         /\ LiveAddresses # {} => Defaults # {}
=============================================================================
