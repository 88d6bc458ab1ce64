CONSTANTS
  NonPtr = NonPtr
  NoValue = NoValue
  Null = Null
  None = None
  Programs <- GetterProgram
SPECIFICATION Spec
INVARIANT ReturnsReachCalls
CHECK_DEADLOCK FALSE
