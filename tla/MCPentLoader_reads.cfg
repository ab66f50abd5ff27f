SPECIFICATION FairSpec
CONSTANTS
  t1 = t1
  t2 = t2
  Tasks = {t1, t2}
  Ids <- MCIds
  Initially <- MCInitially
  NumShards = 1
  Unknown = {}
  Ops = {"gen"}
  MaxLoads = 3
  MaxVersion = 1
  MaxLoaders = 2
  MaxFaults = 1
CHECK_DEADLOCK FALSE
INVARIANTS AnswersRequested OnlyFaultsFail
PROPERTIES LoadsAnswered
