CONSTANTS
  cast = cast
  gep = gep
  sum = sum
  global = global
  b1 = b1
  b2 = b2
  b3 = b3
  Exprs = {cast, gep, sum}
  Leaves = {global}
  Blocks = {b1, b2, b3}
  Operands <- MCOperands
  Modules <- MCModules
SPECIFICATION FairSpec
INVARIANTS TypeOK SameValues DefinedBeforeUse PhisAgree NoExprLeft ModifiedIsRight
PROPERTIES Termination
CHECK_DEADLOCK FALSE
