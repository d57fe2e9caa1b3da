\* Two pids that come and go beside the first process, each of them again and
\* again, while refreshes run.
SPECIFICATION FairSpec
CONSTANTS
  Pids = {1, 2, 3}
  InitPid = 1
  PersistenceTime = 1
  EnableParentRetention = TRUE
  MaxTime = 2
INVARIANTS
  TypeOK
  LiveIsShown
  PidsLeadToEntries
  TreeHasNoCycle
PROPERTIES
  ParentKept
  OnlyEndedLeave
  EndedLeaves
