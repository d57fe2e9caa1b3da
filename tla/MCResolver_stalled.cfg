\* One receiver, two names, the second asked for while the idle thread is ending.
SPECIFICATION FairSpec
CONSTANTS
  r1 = r1
  r2 = r2
  Names = {1, 2}
  Receivers = {r1}
  Questions <- Pair
  MaxIdle = 0
PROPERTIES
  LookupsFinish
CHECK_DEADLOCK FALSE
