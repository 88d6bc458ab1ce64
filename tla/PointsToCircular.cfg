CONSTANTS
  NonPtr = NonPtr
  NoValue = NoValue
  Null = Null
  None = None
  Programs <- CircularListProgram
SPECIFICATION Spec
PROPERTY EventuallyPrinted
CHECK_DEADLOCK FALSE
