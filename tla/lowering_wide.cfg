SPECIFICATION FairSpec
CONSTANTS
  MaxNode = 16
  Node <- MCNode
  Root = 1
  Decls = {0}
  Deduced = Deduced
  MaxStack = 30
  Programs <- Wide
INVARIANTS
  EntryStaysFirst
  PlacedOnce
  ScopeExitAfterCodegen
PROPERTIES
  Ends
