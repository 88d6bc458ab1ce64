CONSTANTS
  MaxLength = 6
  MemorySize = 2
  CellSize = 3
  SizeTSpace = 32
  Int32Space = 16
  Programs <- MCPrograms
SPECIFICATION Spec
INVARIANTS TypeOK BracketsPairUp FunctionIsWellFormed EnginesAgree
PROPERTIES EnginesEndTogether InterpreterImplementsMachine JitImplementsMachine
CHECK_DEADLOCK FALSE
