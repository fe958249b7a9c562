CONSTANTS
  Bits = 4
  CW = 6
  CH = 5
  Pitch = 24
  Kinds = {"drm"}
  Rects <- NoRects
  Circles <- NoCircles
SPECIFICATION Spec
INVARIANT WritesInBounds
