\* A Connect that is given no system object.
SPECIFICATION Spec
CONSTANTS
  n1 = n1
  n2 = n2
  a1 = a1
  a2 = a2
  m1 = m1
  m2 = m2
  s1 = s1
  s2 = s2
  h1 = h1
  UserNames = {n1}
  Addresses = {a1}
  Hosts = {}
  MachineIds = {m1}
  Systems = {s1}
  Local = Local
  NoSystem = NoSystem
  NoId = NoId
  NoHost = NoHost
  DaemonName = daemon
  DaemonAddress = a1
  SavedList <- OneEntry
  Keys = {n1}
  Announced = {}
  NewNames = {}
  Clicks = {}
  MayRefuse = TRUE
  MayDropEarly = FALSE
  Interval = 1
  MaxRows = 2
  MaxEvents = 0
INVARIANTS
  NoneIsStranded
CHECK_DEADLOCK FALSE
