SPECIFICATION FairSpec
CONSTANTS
  MaxNode = 12
  Node <- MCNode
  Root = 1
  Decls = {0}
  Deduced = Deduced
  MaxStack = 30
  Programs <- BreakAtOnce
INVARIANTS
  LoopNotFoundIsTrue
