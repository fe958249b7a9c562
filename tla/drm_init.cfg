CONSTANTS
  MaxObjs = 2
  FailingCalls <- AllCalls
  ShortPitchPossible = TRUE
SPECIFICATION Spec
INVARIANT ChosenObjectsQualify OnlyChosenHeld
