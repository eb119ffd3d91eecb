SPECIFICATION Spec
CONSTANTS
  plain = plain
  weights = weights
  clocked = clocked
  Versions <- ThreeVersions
  Code <- ThreeCode
  Declared <- ThreeDeclared
  Default = 1
  Nothing = Nothing
  MaxClock = 3
  MaxRecipe = 1
  MaxAttempts = 2
  MaxEdits = 1
INVARIANT AchievedIsClosed
CHECK_DEADLOCK FALSE
