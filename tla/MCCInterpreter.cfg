CONSTANTS
  MaxStatements = 2
  Programs <- MCPrograms
SPECIFICATION FairSpec
INVARIANTS TypeOK PrintsWhatCPrints NothingFails FramesMatchCalls NothingStale
PROPERTIES ImplementsVisitor EventuallyEnds
CHECK_DEADLOCK FALSE
