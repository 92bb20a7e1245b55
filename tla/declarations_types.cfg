SPECIFICATION Spec
CONSTANTS
  A = A
  B = B
  M = M
  N = N
  Name = {A, B, M, N, "int"}
  Member = {M, N}
  Elements <- Typing
  MaxElements = 4
  Asserts = TRUE
INVARIANTS
  TypeOK
  OnlyEarlierTypes
  EmittedIsWhole
  FieldsFit
  AliasesAreFound
  ClassesAreComplete
PROPERTIES
  MeaningsAreStable
