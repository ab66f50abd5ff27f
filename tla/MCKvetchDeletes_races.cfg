SPECIFICATION DSpec
CONSTANTS
  p1 = p1
  p2 = p2
  absent = absent
  falsy = falsy
  null = null
  work = work
  home = home
  Procs = {p1, p2}
  Ids <- MCIds
  NumShards = 2
  Types = {"TodoUser", "TodoList"}
  Attrs = {"owner_id", "parent_id", "name"}
  Values <- MCValues
  Absent = absent
  Falsy = falsy
  Null = null
  EdgeDefs <- MCEdgeDefs
  IndexDefs <- MCIndexDefs
  Hashes <- SeededHashes
  InsertObjs <- RaceObjs
  Patches <- RacePatches
  Calls = {"insert", "update", "delete"}
  MaxBulk = 1
  MaxFaults = 1
CHECK_DEADLOCK FALSE
SYMMETRY Symmetry
INVARIANTS TypeOK Placement DerivedFromCanonical EdgesComplete IndexesComplete CleanDeletes
PROPERTIES NoResurrection ImplementsStore
