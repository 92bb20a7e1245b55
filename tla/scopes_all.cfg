SPECIFICATION Spec
CONSTANTS
  Var = {"x", "y", "m", "p", "f", "entry", "then", "for", "cont"}
  Struct = {"S", "T"}
  Constructed = {"S"}
  Field = {"m"}
  Params <- Arguments
  Globals = {"f"}
  Statements <- Common
  MaxStatements = 4
  MaxCode = 14
INVARIANTS
  TypeOK
  ScopesAreExact
  ConstructedAsMeant
PROPERTIES
  NamesAreKept
