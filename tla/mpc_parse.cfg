SPECIFICATION Spec
CONSTANTS
  Char = {"a", "b", "/"}
  Newline = "/"
  NUL = NUL
  EOF = EOF
  NoBuffer = NoBuffer
  MarksMin = 1
  PoolCells = 2
  PoolFits = 3
  MaxNode = 20
  Node <- MCNode
  Root = 1
  Grammars <- MCGrammars
  Texts <- MCTexts
  InputKinds = {"string", "file", "pipe"}
  StackMin = 2
  MaxDepth = 12
  MaxResults = 5
  NoFailure = NoFailure
  Unread = Unread
INVARIANTS
  RunsAsMeant
  MarksBelong
  ValuesOnce
  ErrorIsFurthest
  StopsUnlessIllFounded
PROPERTIES
  FailureRestores
  IsCursor
