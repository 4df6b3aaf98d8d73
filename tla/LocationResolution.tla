------------------------- MODULE LocationResolution -------------------------
(***************************************************************************)
(* resolveLocation and the connection pool (locations.service.ts).  A      *)
(* resolution keeps one connection for its raw query and, while it holds   *)
(* it, takes another one for every lookup of what the query found.         *)
(***************************************************************************)
EXTENDS Naturals, FiniteSets

CONSTANTS PoolSize,       \* connections of the TypeORM pool
          Resolvers,      \* resolutions that may run at the same time (bound)
          MaxMatches,     \* microareas that cover one point (bound)
          MaxFailures,    \* resolutions that end in an error (bound)
          OtherQueries    \* ordinary queries at the same time (bound)

ASSUME PoolAssumption == PoolSize \in Nat \ {0} /\ IsFiniteSet(Resolvers)
ASSUME MatchesAssumption == MaxMatches \in Nat \ {0} /\ MaxFailures \in Nat /\ OtherQueries \in Nat

VARIABLES
  freeConnections, \* connections in the pool
  resolutions,     \* the running resolutions
  otherQueries,    \* ordinary queries that hold a connection
  failedLookups    \* resolutions that have ended in an error

poolVars == <<freeConnections, resolutions, otherQueries, failedLookups>>

\* A resolution: the await it stands at, its lookups still waiting for a connection
\* and its lookups that hold one.  A failed resolution may still have lookups.
Resolution ==
  [at : {"idle", "connect", "lookups", "fallback", "release", "failed"},
   waiting : 0..MaxMatches, running : 0..MaxMatches]

NoResolution == [at |-> "idle", waiting |-> 0, running |-> 0]

ResolutionGo(r, q) == resolutions' = [resolutions EXCEPT ![r] = q]
TakeConnection   == freeConnections > 0 /\ freeConnections' = freeConnections - 1
GiveConnection   == freeConnections' = freeConnections + 1

\* createQueryRunner takes no connection yet.
ResolveLocation(r) ==
  /\ resolutions[r].at = "idle"
  /\ ResolutionGo(r, [NoResolution EXCEPT !.at = "connect"])
  /\ UNCHANGED <<freeConnections, otherQueries, failedLookups>>

\* The runner's first query takes its connection and matches live and soft-deleted
\* microareas alike.
CoveringQuery(r) ==
  /\ resolutions[r].at = "connect"
  /\ TakeConnection
  /\ \/ ResolutionGo(r, [NoResolution EXCEPT !.at = "fallback", !.waiting = 1])
     \/ \E n \in 1..MaxMatches :
          ResolutionGo(r, [NoResolution EXCEPT !.at = "lookups", !.waiting = n])
  /\ UNCHANGED <<otherQueries, failedLookups>>

\* The raw query refuses the point: the runner keeps its connection for good.
CoveringQueryFails(r) ==
  /\ resolutions[r].at = "connect"
  /\ failedLookups < MaxFailures
  /\ TakeConnection
  /\ ResolutionGo(r, NoResolution)
  /\ failedLookups' = failedLookups + 1
  /\ UNCHANGED otherQueries

\* A lookup, the find of microarea 1136 too, waits for a connection of its own.
StartLookup(r) ==
  LET q == resolutions[r] IN
  /\ q.waiting > 0
  /\ TakeConnection
  /\ ResolutionGo(r, [q EXCEPT !.waiting = @ - 1, !.running = @ + 1])
  /\ UNCHANGED <<otherQueries, failedLookups>>

\* Mutant: the runner is not released after the fallback.
FallbackKeepsRunner(q) ==
  IF q.waiting + q.running > 1 \/ q.at = "failed" THEN q.at
  ELSE IF q.at = "fallback" THEN "idle" ELSE "release"

\* After the last answer the runner is released, unless the resolution has failed.
AfterLookup(q) ==
  IF q.waiting + q.running > 1 \/ q.at = "failed" THEN q.at ELSE "release"

\* Once failed, the last lookup of a resolution leaves nothing behind.
LookupEnds(r, at) ==
  LET q == resolutions[r] IN
  /\ q.running > 0
  /\ GiveConnection
  /\ IF at = "failed" /\ q.waiting + q.running = 1 THEN ResolutionGo(r, NoResolution)
     ELSE ResolutionGo(r, [q EXCEPT !.at = at, !.running = @ - 1])

EndLookup(r) ==
  /\ LookupEnds(r, AfterLookup(resolutions[r]))
  /\ UNCHANGED <<otherQueries, failedLookups>>

\* findOneMicroareaById throws for a soft-deleted microarea: Promise.all rejects at
\* once, the other lookups go on, and release() is never reached.
MicroareaNotFound(r) ==
  /\ resolutions[r].at = "lookups"
  /\ failedLookups < MaxFailures
  /\ LookupEnds(r, "failed")
  /\ failedLookups' = failedLookups + 1
  /\ UNCHANGED otherQueries

\* Mutant: a runner can be released more than once.
ReleaseRunnerAgain(r) ==
  /\ resolutions[r].at = "release"
  /\ GiveConnection
  /\ ResolutionGo(r, NoResolution) \/ UNCHANGED resolutions
  /\ UNCHANGED <<otherQueries, failedLookups>>

ReleaseRunner(r) ==
  /\ resolutions[r].at = "release"
  /\ GiveConnection
  /\ ResolutionGo(r, NoResolution)
  /\ UNCHANGED <<otherQueries, failedLookups>>

StartQuery ==
  /\ otherQueries < OtherQueries
  /\ TakeConnection
  /\ otherQueries' = otherQueries + 1
  /\ UNCHANGED <<resolutions, failedLookups>>

EndQuery ==
  /\ otherQueries > 0
  /\ GiveConnection
  /\ otherQueries' = otherQueries - 1
  /\ UNCHANGED <<resolutions, failedLookups>>

PoolInit ==
  /\ freeConnections = PoolSize
  /\ resolutions = [r \in Resolvers |-> NoResolution]
  /\ otherQueries = 0
  /\ failedLookups = 0

PoolNext ==
  \/ \E r \in Resolvers :
       \/ ResolveLocation(r) \/ CoveringQuery(r) \/ CoveringQueryFails(r)
       \/ StartLookup(r) \/ EndLookup(r) \/ MicroareaNotFound(r) \/ ReleaseRunner(r)
  \/ StartQuery \/ EndQuery

PoolSpec == PoolInit /\ [][PoolNext]_poolVars

PoolTypeOK ==
  /\ freeConnections \in 0..PoolSize
  /\ resolutions \in [Resolvers -> Resolution]
  /\ otherQueries \in 0..OtherQueries
  /\ failedLookups \in 0..MaxFailures

\* The resolutions that hold the connection of a runner.
Holding == {r \in Resolvers : resolutions[r].at \in {"lookups", "fallback", "release"}}
Looking == {r \in Resolvers : resolutions[r].running > 0}

\* The pool starves only when every connection is the runner of a resolution that
\* waits for a second one, or was lost by a resolution that ended in an error: as
\* long as these are fewer than the connections, one is free, or is given back
\* by a query that waits for nothing; and at rest only those are missing.
RunnersReleased ==
  /\ Cardinality(Holding) + failedLookups < PoolSize =>
       freeConnections > 0 \/ otherQueries > 0 \/ Looking # {}
  /\ (\A r \in Resolvers : resolutions[r].at = "idle") /\ otherQueries = 0 =>
       freeConnections + failedLookups = PoolSize
=============================================================================
