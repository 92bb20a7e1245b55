SPECIFICATION SoundSpec
CONSTANTS
  MaxNode = 29
  Node <- MCNode
  Root = 1
  Decls = {0, 1, Deduced}
  Deduced = Deduced
  MaxStack = 30
  Programs <- Sound
INVARIANTS
  TypeOK
  WellFormed
  SupportedIsLowered
  JumpsBelongInside
  DefersRunOnce
  OnlyRightIsLowered
