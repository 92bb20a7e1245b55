SPECIFICATION Spec
CONSTANTS
  Names = {"x", "y"}
  Functions <- ModuleFunctions
  Statements <- Program
  MaxStatements = 3
INVARIANTS
  NamesMeanTheirVariables
  ValuesUnlessAddressed
  CompilesAsMeant
  CallsReachParameters
  PartialApplications
