SPECIFICATION Spec
CONSTANTS
  plain = plain
  weights = weights
  clocked = clocked
  Versions <- ThreeVersions
  Code <- ThreeCode
  Declared <- ThreeDeclared
  Default = 1
  Nothing = Nothing
  MaxClock = 3
  MaxRecipe = 1
  MaxAttempts = 3
  MaxEdits = 2
INVARIANT LayoutIsFresh
INVARIANT VerifiedCode
INVARIANT SlowOnlyWhenLate
INVARIANT TuneIsResumed
CHECK_DEADLOCK FALSE
