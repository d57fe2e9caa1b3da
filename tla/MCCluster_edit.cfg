\* One saved machine, connected by the worker while the user connects to the same
\* entry and to this machine's own daemon, and edits, discovers into and stores
\* the list.
SPECIFICATION Spec
CONSTANTS
  n1 = n1
  n2 = n2
  a1 = a1
  a2 = a2
  m1 = m1
  m2 = m2
  s1 = s1
  s2 = s2
  h1 = h1
  UserNames = {n1}
  Addresses = {a1, a2}
  Hosts = {h1}
  MachineIds = {}
  Systems = {s1, s2}
  Local = Local
  NoSystem = NoSystem
  NoId = NoId
  NoHost = NoHost
  DaemonName = daemon
  DaemonAddress = a1
  SavedList <- OneNewEntry
  Keys = {n1}
  Announced <- Announcement
  NewNames = {n2}
  Clicks = {}
  MayRefuse = TRUE
  MayDropEarly = FALSE
  Interval = 1
  MaxRows = 2
  MaxEvents = 0
INVARIANTS
  RowsHoldNodes
  StateAgrees
  ConnectingHasCaller
  FileFollowsList
  DaemonUnwritten
CHECK_DEADLOCK FALSE
