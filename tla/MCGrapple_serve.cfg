SPECIFICATION Spec
CONSTANTS
  None = None
  MaxObjects = 2
  Documents <- MCDocuments
INVARIANTS GrappleTypeOK RequestsBind ReadsBack EdgesMirrorStoredIds
CHECK_DEADLOCK FALSE
