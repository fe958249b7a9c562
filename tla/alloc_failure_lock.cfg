CONSTANTS
  r = r  a = a  b = b  d = d  c1 = c1  c2 = c2  c3 = c3
  None = None
  Names = {r, a, b}
  Root = r
  RemovableNames = {a,b}
  Canvases = {c1, c2, c3}
  MaxPanes = 3
  RotPeriod = 6
  AllocMayFail = TRUE
SPECIFICATION Spec
INVARIANT LockNeverLeaked
CHECK_DEADLOCK FALSE
