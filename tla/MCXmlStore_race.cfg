\* The GUI thread and the worker, both storing the list.
SPECIFICATION Spec
CONSTANTS
  Threads = {t1, t2}
  Docs = {d1, d2}
  Inodes = {i1, i2, i3, i4}
  NoFile = NoFile
  MayCrash = FALSE
INVARIANTS
  FileIsThere
