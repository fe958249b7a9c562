CONSTANTS
  f1 = f1  f2 = f2  f3 = f3  f4 = f4
  Frames = {f1, f2, f3, f4}
  Console = Console
  None = None
  VBlankBeforeNextShow = TRUE
SPECIFICATION FairSpec
INVARIANT TypeOK
PROPERTY ImplementsDisplay
