---------------------------- MODULE LocationTree ----------------------------
(***************************************************************************)
(* The service areas (locations.service.ts): zones hold sourcing zones,    *)
(* sourcing zones hold microareas.  Areas are created, moved to another    *)
(* parent, soft-deleted when they are empty, and seeded from legacy files; *)
(* every request looks first and writes later, outside a transaction.      *)
(***************************************************************************)
EXTENDS Naturals, FiniteSets

CONSTANTS Zones, SourcingZones, Microareas, \* ids each table can hand out (bound)
          NoArea,          \* no area: the parent of a zone, an input left out
          AreaSlots,       \* requests that may run at the same time (bound)
          MaxAreaRequests, \* requests of the back office (bound)
          AreaFaults       \* what may happen: a subset of {"crash"}

ASSUME AreasAssumption ==
  /\ IsFiniteSet(Zones) /\ IsFiniteSet(SourcingZones) /\ IsFiniteSet(Microareas)
  /\ Zones \cap SourcingZones = {} /\ Microareas \cap (Zones \cup SourcingZones) = {}
  /\ NoArea \notin Zones \cup SourcingZones \cup Microareas
ASSUME AreaLimitsAssumption ==
  IsFiniteSet(AreaSlots) /\ MaxAreaRequests \in Nat /\ AreaFaults \subseteq {"crash"}

Areas   == Zones \cup SourcingZones \cup Microareas
Parents == Zones \cup SourcingZones

VARIABLES
  areaRows,      \* every row: absent, live, or soft-deleted (deletedAt is set)
  parentOf,      \* zoneId of a sourcing zone, sourcingZoneId of a microarea
  areaCalls,     \* requests so far
  deletionRaced, \* a deletion has overlapped a request that saves an area
  areaRequests   \* the running requests

areaVars == <<areaRows, parentOf, areaCalls, deletionRaced, areaRequests>>

AreaRow == {"absent", "live", "deleted"}

\* A request: the await it stands at, the row it is about, the parent it will write.
AreaRequest ==
  [at : {"idle", "load", "parent", "insert", "save", "doomed", "count", "delete", "seed"},
   seeds : BOOLEAN, area : Areas \cup {NoArea}, parent : Parents \cup {NoArea}]

NoAreaRequest == [at |-> "idle", seeds |-> FALSE, area |-> NoArea, parent |-> NoArea]

AreaAt(r, a) == areaRequests[r].at = a
AreaGo(r, q) == areaRequests' = [areaRequests EXCEPT ![r] = q]
AreaEnd(r)   == AreaGo(r, NoAreaRequest)
LiveArea(a)  == a \in Areas /\ areaRows[a] = "live"

\* The table below an area, and the areas a new row with parent p may become.
Under(p) == IF p = NoArea THEN Zones ELSE IF p \in Zones THEN SourcingZones ELSE Microareas
Children(a) == {c \in Areas : LiveArea(c) /\ parentOf[c] = a}

Deletes(q) == q.at \in {"doomed", "count", "delete"}

AreaBegins(r, q) ==
  /\ AreaAt(r, "idle")
  /\ areaCalls < MaxAreaRequests
  /\ areaCalls' = areaCalls + 1
  /\ AreaGo(r, q)
  /\ deletionRaced' = (deletionRaced \/ \E k \in AreaSlots :
                         ~AreaAt(k, "idle") /\ Deletes(q) # Deletes(areaRequests[k]))
  /\ UNCHANGED <<areaRows, parentOf>>

CreateZone(r) == AreaBegins(r, [NoAreaRequest EXCEPT !.at = "insert"])

CreateSourcingZone(r) ==
  \E z \in Zones : AreaBegins(r, [NoAreaRequest EXCEPT !.at = "parent", !.parent = z])

CreateMicroarea(r) ==
  \E s \in SourcingZones : AreaBegins(r, [NoAreaRequest EXCEPT !.at = "parent", !.parent = s])

\* An update may name a new parent.
UpdateZone(r) ==
  \E z \in Zones : AreaBegins(r, [NoAreaRequest EXCEPT !.at = "load", !.area = z])

UpdateSourcingZone(r) ==
  \E s \in SourcingZones, z \in Zones \cup {NoArea} :
    AreaBegins(r, [NoAreaRequest EXCEPT !.at = "load", !.area = s, !.parent = z])

UpdateMicroarea(r) ==
  \E m \in Microareas, s \in SourcingZones \cup {NoArea} :
    AreaBegins(r, [NoAreaRequest EXCEPT !.at = "load", !.area = m, !.parent = s])

DeleteZone(r) ==
  \E z \in Zones : AreaBegins(r, [NoAreaRequest EXCEPT !.at = "doomed", !.area = z])

DeleteSourcingZone(r) ==
  \E s \in SourcingZones : AreaBegins(r, [NoAreaRequest EXCEPT !.at = "doomed", !.area = s])

DeleteMicroarea(r) ==
  \E m \in Microareas : AreaBegins(r, [NoAreaRequest EXCEPT !.at = "doomed", !.area = m])

SeedLocations(r) == AreaBegins(r, [NoAreaRequest EXCEPT !.at = "seed", !.seeds = TRUE])

\* The files come zones first, microareas last, so the parents seeded under never
\* go back up a level; the seeding ends after the last line.
SeedArea(r) ==
  LET q == areaRequests[r]
      Level(p) == IF p = NoArea THEN 0 ELSE IF p \in Zones THEN 1 ELSE 2 IN
  /\ AreaAt(r, "seed")
  /\ \/ AreaEnd(r)
     \/ \E p \in Parents \cup {NoArea} :
          /\ Level(p) >= Level(q.parent)
          /\ AreaGo(r, [q EXCEPT !.at = IF p = NoArea THEN "insert" ELSE "parent", !.parent = p])
  /\ UNCHANGED <<areaRows, parentOf, areaCalls, deletionRaced>>

\* findOne of the area to update: "not found" ends the request.  With no new parent
\* the row is held with the one it was loaded with.
LoadArea(r) ==
  LET q == areaRequests[r] IN
  /\ AreaAt(r, "load")
  /\ IF ~LiveArea(q.area) THEN AreaEnd(r)
     ELSE IF q.parent = NoArea
     THEN AreaGo(r, [q EXCEPT !.at = "save", !.parent = parentOf[q.area]])
     ELSE AreaGo(r, [q EXCEPT !.at = "parent"])
  /\ UNCHANGED <<areaRows, parentOf, areaCalls, deletionRaced>>

\* findOne of the (new) parent.  A missing one ends the request; only a microarea
\* being seeded is skipped instead.
LoadParent(r) ==
  LET q == areaRequests[r] IN
  /\ AreaAt(r, "parent")
  /\ IF LiveArea(q.parent)
     THEN AreaGo(r, [q EXCEPT !.at = IF q.area = NoArea THEN "insert" ELSE "save"])
     ELSE IF q.seeds /\ q.parent \in SourcingZones THEN AreaGo(r, [q EXCEPT !.at = "seed"])
     ELSE AreaEnd(r)
  /\ UNCHANGED <<areaRows, parentOf, areaCalls, deletionRaced>>

InsertArea(r, a) ==
  LET q == areaRequests[r] IN
  /\ AreaAt(r, "insert")
  /\ a \in Under(q.parent) /\ areaRows[a] = "absent"
  /\ areaRows' = [areaRows EXCEPT ![a] = "live"]
  /\ parentOf' = [parentOf EXCEPT ![a] = q.parent]
  /\ IF q.seeds THEN AreaGo(r, [q EXCEPT !.at = "seed"]) ELSE AreaEnd(r)
  /\ UNCHANGED <<areaCalls, deletionRaced>>

\* save writes the whole row it holds, deletedAt included: a row deleted since is back.
SaveArea(r) ==
  LET q == areaRequests[r] IN
  /\ AreaAt(r, "save")
  /\ areaRows' = [areaRows EXCEPT ![q.area] = "live"]
  /\ parentOf' = [parentOf EXCEPT ![q.area] = q.parent]
  /\ AreaEnd(r)
  /\ UNCHANGED <<areaCalls, deletionRaced>>

\* Only a zone or a sourcing zone is asked for its children.
LoadDoomedArea(r) ==
  LET q == areaRequests[r] IN
  /\ AreaAt(r, "doomed")
  /\ IF ~LiveArea(q.area) THEN AreaEnd(r)
     ELSE AreaGo(r, [q EXCEPT !.at = IF q.area \in Microareas THEN "delete" ELSE "count"])
  /\ UNCHANGED <<areaRows, parentOf, areaCalls, deletionRaced>>

\* Mutant: the children of a sourcing zone are not counted.
CountZonesOnly(r) ==
  LET q == areaRequests[r] IN
  /\ AreaAt(r, "count")
  /\ IF q.area \in Zones /\ Children(q.area) # {} THEN AreaEnd(r)
     ELSE AreaGo(r, [q EXCEPT !.at = "delete"])
  /\ UNCHANGED <<areaRows, parentOf, areaCalls, deletionRaced>>

CountChildren(r) ==
  LET q == areaRequests[r] IN
  /\ AreaAt(r, "count")
  /\ IF Children(q.area) # {} THEN AreaEnd(r) ELSE AreaGo(r, [q EXCEPT !.at = "delete"])
  /\ UNCHANGED <<areaRows, parentOf, areaCalls, deletionRaced>>

SoftDeleteArea(r) ==
  /\ AreaAt(r, "delete")
  /\ areaRows' = [areaRows EXCEPT ![areaRequests[r].area] = "deleted"]
  /\ AreaEnd(r)
  /\ UNCHANGED <<parentOf, areaCalls, deletionRaced>>

AreaCrash ==
  /\ "crash" \in AreaFaults
  /\ \E r \in AreaSlots : ~AreaAt(r, "idle")
  /\ areaRequests' = [r \in AreaSlots |-> NoAreaRequest]
  /\ UNCHANGED <<areaRows, parentOf, areaCalls, deletionRaced>>

AreaInit ==
  /\ areaRows = [a \in Areas |-> "absent"]
  /\ parentOf = [a \in Areas |-> NoArea]
  /\ areaCalls = 0
  /\ deletionRaced = FALSE
  /\ areaRequests = [r \in AreaSlots |-> NoAreaRequest]

AreaNext ==
  \/ \E r \in AreaSlots :
       \/ CreateZone(r) \/ CreateSourcingZone(r) \/ CreateMicroarea(r)
       \/ UpdateZone(r) \/ UpdateSourcingZone(r) \/ UpdateMicroarea(r)
       \/ DeleteZone(r) \/ DeleteSourcingZone(r) \/ DeleteMicroarea(r)
       \/ SeedLocations(r) \/ SeedArea(r)
       \/ LoadArea(r) \/ LoadParent(r) \/ (\E a \in Areas : InsertArea(r, a)) \/ SaveArea(r)
       \/ LoadDoomedArea(r) \/ CountChildren(r) \/ SoftDeleteArea(r)
  \/ AreaCrash

AreaSpec == AreaInit /\ [][AreaNext]_areaVars

AreaTypeOK ==
  /\ areaRows \in [Areas -> AreaRow]
  /\ parentOf \in [Areas -> Parents \cup {NoArea}]
  /\ areaCalls \in 0..MaxAreaRequests
  /\ deletionRaced \in BOOLEAN
  /\ areaRequests \in [AreaSlots -> AreaRequest]

\* As long as no deletion overlaps a request that saves an area, every live area
\* hangs under a live area of the level above, whatever else overlaps, is moved or
\* dies halfway: findOneMicroareaById joins the two levels above and its callers read
\* the ids of both (deleteZone, deleteSourcingZone, updateSourcingZone).
NoOrphans ==
  ~deletionRaced => \A a \in SourcingZones \cup Microareas :
    LiveArea(a) => LiveArea(parentOf[a]) /\ a \in Under(parentOf[a])
=============================================================================
