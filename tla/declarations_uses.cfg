SPECIFICATION Spec
CONSTANTS
  A = A
  B = B
  M = M
  N = N
  Name = {A, B, M, N}
  Member = {M, N}
  Elements <- Using
  MaxElements = 5
  Asserts = FALSE
INVARIANTS
  CrashesExplained
