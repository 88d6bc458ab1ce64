CONSTANTS
  NonPtr = NonPtr
  NoValue = NoValue
  Programs <- MixOnly

SPECIFICATION Spec

PROPERTY
  Termination

\* the pass returns
CHECK_DEADLOCK FALSE
