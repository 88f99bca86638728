SPECIFICATION Spec
CONSTANTS
  Slot = {t1, t2}
  NoTask = NoTask
  MaxOrders = 2
  MaxStops = 1
  HubMailbox = {m1}
  MaxHubOrders = 1
  MaxHubCrashes = 1
  MaxAsked = 2
  BatchMailbox = {a, b}
  StartSlot = {s1, s2}
  MaxFunds = 2
  MaxTopUps = 1
  PartnerCert = {c1}
  Issuer = {i1}
  MaxClock = 4
  ListLife = 2
  PartnerCount = 1
  Target = {z1}
  Exo = exo
  Direct = direkt
  NoRoute = NoRoute
  inside = inside
  outside = outside
  own = own
  foreign = foreign
  Rcpt = {inside, outside}
  Domain = {own, foreign}
  DomainOf <- MCDomainOf
  Own = {own}
  Tenant = {org1}
  Saver = {s1, s2}
  MaxRouteChanges = 3
  Device = {d1}
  Exchange = {}
  InRange = {d1}
  Identity = {i1}
  Link = {l1}
  NoEntry = NoEntry
  MaxLearn = 1
  FarAway = 3
  MaxTime = 2
  MaxAccessChanges = 3
  MessageId = {m1}
  Fork = {f1, f2}
  LoopMax = 2
  Window = 2
  MaxNow = 3
  MaxCopies = 3
  MaxRestarts = 1
INVARIANTS TypesOK EachOrderOnce KeyKept PartnersKept WaysHold
PROPERTY NothingOverruled
SYMMETRY Tasks
CHECK_DEADLOCK FALSE
