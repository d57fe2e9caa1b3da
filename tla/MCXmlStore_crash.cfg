\* The two threads that store the list, ended and restarted at any step.
SPECIFICATION Spec
CONSTANTS
  Threads = {t1, t2}
  Docs = {d1, d2}
  Inodes = {i1, i2, i3, i4}
  NoFile = NoFile
  MayCrash = TRUE
INVARIANTS
  TypeOK
  SomeCopyIsWhole
  WriteTakesEffect
