SPECIFICATION Spec
CONSTANTS
  Var = {"x", "y", "m", "p", "f", "entry", "then", "for", "cont"}
  Struct = {"S", "T"}
  Constructed = {"S"}
  Field = {"m"}
  Params <- Arguments
  Globals = {"f"}
  Statements <- Lost
  MaxStatements = 3
  MaxCode = 8
INVARIANT NewsAreConstructed
