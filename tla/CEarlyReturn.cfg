CONSTANTS
  MaxStatements = 0
  Programs <- EarlyReturn
SPECIFICATION Spec
INVARIANTS PrintsWhatCPrints
CHECK_DEADLOCK FALSE
