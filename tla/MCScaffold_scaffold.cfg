SPECIFICATION Spec
CONSTANTS
  small = small
  large = large
  broken = broken
  MaxEdits = 2
  MaxInterrupts = 2
  Documents <- MCDocuments
  Printable <- MCPrintable
  PentsOf <- MCPentsOf
INVARIANTS ScaffoldTypeOK NoClassTwice FinishedMatches GeneratedTogether
PROPERTIES HandWorkKept
