CONSTANTS
  NonPtr = NonPtr
  NoValue = NoValue
  Null = Null
  None = None
  Programs <- TestCases
SPECIFICATION Spec
INVARIANTS TypeOK FormalsExist FunctionsAtRestAreSolved ArgumentsArrive PrintsExpectedCallGraph
PROPERTIES CalleesAreKept WorklistsDrain
CHECK_DEADLOCK FALSE
