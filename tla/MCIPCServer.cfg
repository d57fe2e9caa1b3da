\* Two sockets at a time and two addresses, one of which may be at its limit
\* while the other is not, with the global limit one further.
SPECIFICATION FairSpec
CONSTANTS
  Sockets = {s1, s2}
  NoSocket = NoSocket
  Addresses = {a1, a2}
  MaxPerAddress = 1
  MaxGlobal = 2
  Window = 1
  MaxFrames = 2
  MaxReports = 1
INVARIANTS
  TypeOK
  ListedAreLive
  ReaderIsThere
  RecordsAgree
  OvershootBounded
  LimitIsExact
PROPERTIES
  LostIsDeleted
  LimitLifts
