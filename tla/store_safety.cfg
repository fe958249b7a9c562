\* Any client: every name may be created, drawn and removed (root too),
\* allocations may fail, and a fourth name pushes create into the assert.
CONSTANTS
  r = r  a = a  b = b  d = d  c1 = c1  c2 = c2  c3 = c3
  None = None
  Names = {r, a, b, d}
  Root = r
  RemovableNames = {r, a, b, d}
  Canvases = {c1, c2, c3}
  MaxPanes = 3
  RotPeriod = 6
  AllocMayFail = TRUE
SPECIFICATION Spec
SYMMETRY Symmetry
INVARIANT StoreInv
PROPERTY ShowsLiveCanvas
\* A leaked pane lock really does hang the process.
CHECK_DEADLOCK FALSE
