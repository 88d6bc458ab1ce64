CONSTANTS
  NonPtr = NonPtr
  NoValue = NoValue
  Programs <- TestPrograms

SPECIFICATION Spec

INVARIANTS
  TypeOK
  ReachableIsPath
  AnnotatesAsDocumented
  SolvedAtRest

PROPERTIES
  TaintIsKept
  Termination

\* the pass returns
CHECK_DEADLOCK FALSE
