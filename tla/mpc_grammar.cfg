SPECIFICATION FairSpec
CONSTANTS
  Given <- MCGiven
  Sources <- MCSources
INVARIANTS
  OwnedOnce
  CleansUp
  ParsesAsWritten
  TreesAsWritten
  EndsExplained
PROPERTIES
  Finishes
