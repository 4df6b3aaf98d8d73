CONSTANTS
  Addresses = {d1, d2}
  NoAddress = NoAddress
  AddressSlots = {p1, p2}
  MaxAddressUpdates = 2
  AddressFaults = {"crash", "incomplete"}
  Methods = {m1, m2, m3}
  MaxNewMethods = 2
  WorkerSlots = {w1, w2}
  MaxWorkerUpdates = 1
  WorkerFaults = {"crash", "lookup"}
  Zones = {z1, z2}
  SourcingZones = {s1, s2}
  Microareas = {c1}
  NoArea = NoArea
  AreaSlots = {r1, r2}
  MaxAreaRequests = 3
  AreaFaults = {"crash"}
  PoolSize = 4
  Resolvers = {q1, q2, q3, q4}
  MaxMatches = 2
  MaxFailures = 2
  OtherQueries = 2
  MaxAmount = 2
  WalletSlots = {k1, k2}
  MaxWalletCalls = 5
  Staff = {u1}
  Phones = {n1}
  Profiles = {f1, f2}
  NoProfile = NoProfile
  AccountSlots = {a1, a2}
  MaxAccountCalls = 4
  AccountFaults = {"firebase", "database", "crash"}
SPECIFICATION BackOfficeSpec
INVARIANTS
  BackOfficeTypeOK
  OneDefaultAddress OneDefaultMethod SearchBreaksOnlyInCreation
  NoOrphans RunnersReleased NoOverdraft SignInMatchesRow
CHECK_DEADLOCK FALSE
