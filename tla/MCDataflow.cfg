CONSTANTS
  b1 = b1
  b2 = b2
  b3 = b3
  b4 = b4
  b5 = b5
  b6 = b6
  x = x
  y = y
  Block <- MCBlock
  Edge <- MCEdge
  Fact <- MCFact
  Transfer <- MCTransfer
  Given <- MCGiven
SPECIFICATION Spec
INVARIANTS TypeOK Settled BelowEverySolution
PROPERTIES EveryVisitAdvances Termination ImplementsSolution
CHECK_DEADLOCK FALSE
