SPECIFICATION Spec
CONSTANTS
  A = A
  B = B
  M = M
  N = N
  Name = {A, B, M, N}
  Member = {M, N}
  Elements <- Inheriting
  MaxElements = 3
  Asserts = FALSE
INVARIANT
  InterfacesHoldTheirFunctions
