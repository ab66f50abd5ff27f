SPECIFICATION Spec
CONSTANTS
  p1 = p1
  p2 = p2
  absent = absent
  falsy = falsy
  null = null
  work = work
  home = home
  Procs = {p1}
  Ids <- MCIds
  NumShards = 1
  Types = {"TodoUser", "TodoList"}
  Attrs = {"owner_id", "parent_id", "name"}
  Values <- MCValues
  Absent = absent
  Falsy = falsy
  Null = null
  EdgeDefs <- MCEdgeDefs
  IndexDefs <- MCIndexDefs
  Hashes <- StableHash
  InsertObjs <- ListObjs
  Patches <- ReownPatches
  Calls = {"insert", "update", "delete"}
  MaxBulk = 1
  MaxFaults = 0
CHECK_DEADLOCK FALSE
INVARIANTS EdgesFollowCanonicalData
