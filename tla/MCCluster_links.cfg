\* One connection that is lost and comes back any number of times, and what the
\* panels and the graphs point at meanwhile, under the fairness of the event loop.
SPECIFICATION FairSpec
CONSTANTS
  n1 = n1
  n2 = n2
  a1 = a1
  a2 = a2
  m1 = m1
  m2 = m2
  s1 = s1
  s2 = s2
  h1 = h1
  UserNames = {n1}
  Addresses = {a1}
  Hosts = {}
  MachineIds = {m1}
  Systems = {s1}
  Local = Local
  NoSystem = NoSystem
  NoId = NoId
  NoHost = NoHost
  DaemonName = daemon
  DaemonAddress = a1
  SavedList <- OneNewEntry
  Keys = {n1}
  Announced = {}
  NewNames = {n2}
  Clicks = {s1, Local}
  MayRefuse = TRUE
  MayDropEarly = FALSE
  Interval = 2
  MaxRows = 1
  MaxEvents = 2
INVARIANTS
  TypeOK
  LinkShown
  IdentityMatches
  SelectionIsNode
PROPERTIES
  LostIsRetried
  ConnectSettles
CHECK_DEADLOCK FALSE
