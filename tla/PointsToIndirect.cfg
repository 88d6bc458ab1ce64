CONSTANTS
  NonPtr = NonPtr
  NoValue = NoValue
  Null = Null
  None = None
  Programs <- IndirectLibraryCallProgram
SPECIFICATION Spec
INVARIANT DeclaredCalleesPassFactsThrough
CHECK_DEADLOCK FALSE
