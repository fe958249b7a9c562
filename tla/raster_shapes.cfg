CONSTANTS
  Bits = 4
  CW = 6
  CH = 5
  Pitch = 24
  Kinds = {"bgra"}
  Rects <- OnCanvasRects
  Circles <- OnCanvasCircles
SPECIFICATION FairSpec
INVARIANT WritesInBounds CircleShape
PROPERTY CircleReturns
