CONSTANTS
  MaxObjs = 2
  FailingCalls <- UncheckedCalls
  ShortPitchPossible = FALSE
SPECIFICATION Spec
INVARIANT CallFailuresAreFatal
