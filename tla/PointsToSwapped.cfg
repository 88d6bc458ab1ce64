CONSTANTS
  NonPtr = NonPtr
  NoValue = NoValue
  Null = Null
  None = None
  Programs <- SwappedRecursionProgram
SPECIFICATION Spec
INVARIANT PrintsExpectedCallGraph
CHECK_DEADLOCK FALSE
