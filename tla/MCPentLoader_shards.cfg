SPECIFICATION Spec
CONSTANTS
  t1 = t1
  t2 = t2
  Tasks = {t1, t2}
  Ids <- ThreeIds
  Initially <- AllThree
  NumShards = 2
  Unknown = {}
  Ops = {"gen"}
  MaxLoads = 3
  MaxVersion = 1
  MaxLoaders = 1
  MaxFaults = 0
CHECK_DEADLOCK FALSE
INVARIANTS AnswersRequested
