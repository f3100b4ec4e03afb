CONSTANTS
  t1 = t1
  t2 = t2
  Threads = {t1, t2}
  MaxWrites = 3
  MaxTime = 3
  MaxCrashes = 2
SPECIFICATION Spec
CHECK_DEADLOCK FALSE
SYMMETRY AnyThread
INVARIANTS
  RagTypeOK
  SearchesOneVersion
PROPERTIES
  LoadsAllOlderWrites
