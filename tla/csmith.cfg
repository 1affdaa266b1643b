SPECIFICATION MCSpec
CONSTANTS
  Programs <- FlatPrograms
  GlobalVariables = {"g"}
  PointerVariables = {"q", "p"}
  Fuel = 4
  CheckedParts = {"divergence", "loops", "special", "vectors", "builtins", "facts", "arith", "types", "binaries", "kernels", "effects", "variables", "qualifiers", "unions", "text"}
INVARIANTS
  DivergenceSound
  LoopsStayInside
  EverySummandOnce
  VectorsFill
  ArgumentsFitCalls
  FactsSound
  OperationsSafe
  TypesWellFormed
  AlternativesSound
  KernelsExchange
  EvaluationSound
  VariablesInPlace
  QualifiersSound
  UnionReadsDefined
  ProgramComplete
