SPECIFICATION Spec
CONSTANTS
  t1 = t1
  t2 = t2
  Tasks = {t1, t2}
  Ids <- MCIds
  Initially <- MCInitially
  NumShards = 2
  Unknown = {1}
  Ops = {"gen", "update", "create", "delete"}
  MaxLoads = 3
  MaxVersion = 2
  MaxLoaders = 2
  MaxFaults = 1
CHECK_DEADLOCK FALSE
SYMMETRY Symmetry
INVARIANTS TypeOK LocalWritesSeen PendingIsQueued
