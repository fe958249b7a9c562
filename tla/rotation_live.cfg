\* A client that never removes "root" and allocations that succeed: the
\* rotation must keep showing every pane that stays, and shutdown must finish.
CONSTANTS
  r = r  a = a  b = b  d = d  c1 = c1  c2 = c2  c3 = c3
  None = None
  Names = {r, a, b}
  Root = r
  RemovableNames = {a, b}
  Canvases = {c1, c2, c3}
  MaxPanes = 3
  RotPeriod = 6
  AllocMayFail = FALSE
SPECIFICATION FairSpec
INVARIANT RotationCountNonZero
PROPERTY RotationFairness
PROPERTY ShutdownCompletes
