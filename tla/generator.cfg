SPECIFICATION MCSpec
CONSTANTS
  MaxExhaustiveDepth = 3
  Requests <- MCRequests
  MaxRuns = 1
  MaxThreads = 18
  MaxPerDim = 6
  MaxPerGroup = 6
  Numbers <- MCNumbers
  Key <- MCKeyArguments
  MaxLine = 3
  CheckedParts = {"emi", "params", "launcher", "unused", "globals", "sections", "choices", "probabilities", "enumeration", "reduction", "options"}
INVARIANTS
  PruningSound
  ParametersFit
  ProgramLaunched
  UnusedOnlyDropped
  GlobalsInStruct
  SectionsSound
  ChoicesReplay
  DrawsFollowProbabilities
  StructsEnumerated
  ReducedCompiles
  OptionsConsistent
