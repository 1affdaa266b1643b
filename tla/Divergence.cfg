SPECIFICATION Spec
CONSTANTS
  Programs <- NestedPrograms
  GlobalVariables = {"g"}
  PointerVariables = {"q", "p"}
  Fuel = 4
INVARIANTS DivergentPointsFound
