SPECIFICATION QSpec
CONSTANTS
  p1 = p1
  p2 = p2
  absent = absent
  falsy = falsy
  null = null
  work = work
  Procs = {p1, p2}
  Readers = {p1}
  Queries = {"scan", "assoc", "lookup"}
  Ids <- MCIds
  NumShards = 2
  Types = {"TodoUser", "TodoList"}
  Attrs = {"owner_id", "name"}
  Values <- MCValues
  Absent = absent
  Falsy = falsy
  Null = null
  EdgeDefs <- MCEdgeDefs
  IndexDefs <- MCIndexDefs
  Hashes <- SeededHashes
  InsertObjs <- MCInsertObjs
  Patches <- MCPatches
  Calls = {"insert", "update", "delete"}
  MaxBulk = 1
  MaxFaults = 1
CHECK_DEADLOCK FALSE
INVARIANTS QueryTypeOK ScanFindsAll AssociationFindsAll
