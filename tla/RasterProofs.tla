---------------------------- MODULE RasterProofs ----------------------------
(***************************************************************************)
(* Proofs about the rasterizer (Raster), for every coordinate width and    *)
(* canvas size: on a BGRA canvas, rectangles whose rows stay on the canvas *)
(* and circles of radius at least 1 that lie on it never make draw_point   *)
(* write past the buffer.  TLC shows each hypothesis is needed:           *)
(* drm_canvas_stride, TallRects and DotCircle.                             *)
(***************************************************************************)
EXTENDS Raster, TLAPS

(* The hypotheses about the caller.                                        *)
\* Every canvas is made by canvas_init_bgra (ui_pane_create's own call).
BgraOnly == Kinds = {"bgra"}
\* Every rectangle's rows end inside the canvas.
RectsInRows == \A r \in Rects : r.y + r.h <= CH
\* Every circle has a radius of at least 1 and lies inside the canvas.
CirclesInside ==
  \A c \in Circles : /\ 1 <= c.r
                     /\ c.r <= c.x /\ c.x + c.r < CW
                     /\ c.r <= c.y /\ c.y + c.r < CH

\* The pixels of the canvas.
Pixels == (0..(CW - 1)) \X (0..(CH - 1))

TypeOK ==
  /\ pc \in {"idle", "circle"}
  /\ x \in Int /\ y \in Int /\ t1 \in Int
  /\ oob \in BOOLEAN

(* Inside the circle loop: the circle is one the caller passed, x has gone *)
(* down from r by at most one per iteration while y went up by one, so    *)
(* x + y >= r; hence x never reaches 0 while the loop test x >= y holds.  *)
LoopBounds ==
  pc = "circle" =>
    /\ circ \in Circles
    /\ x \in 0..circ.r
    /\ y \in Nat
    /\ circ.r <= x + y

IInv == TypeOK /\ canvas = BgraCanvas /\ LoopBounds /\ WritesInBounds

-----------------------------------------------------------------------------
(* The coordinate range holds the canvas: 2^Bits is a positive integer     *)
(* above the canvas width and height.                                       *)
LEMMA CoordRange == M \in Nat /\ CW < M /\ CH < M
BY PowerAssumption, CanvasAssumption

(* Storing a value of the coordinate range into a uint16_t keeps it.       *)
LEMMA UKeeps == ASSUME NEW n \in 0..(M - 1) PROVE U(n) = n
BY CoordRange DEF U

(* Every pixel of the canvas lies inside a BGRA canvas buffer.             *)
LEMMA PixelInBuffer ==
  ASSUME canvas = BgraCanvas, NEW p \in Pixels
  PROVE  InBuffer(p)
<1>1. PICK px \in 0..(CW - 1), py \in 0..(CH - 1) : p = <<px, py>>
  BY DEF Pixels
<1>2. py * CW + px + 1 <= CW * CH
  <2>1. py * CW <= (CH - 1) * CW
    BY CanvasAssumption
  <2>2. (CH - 1) * CW + CW = CW * CH
    BY CanvasAssumption
  <2>3. QED
    BY <2>1, <2>2, CanvasAssumption
<1>3. (py * CW + px) * 4 + 4 <= CW * CH * 4
  BY <1>2, CanvasAssumption
<1>4. QED
  BY <1>1, <1>3 DEF InBuffer, ByteIdx, BgraCanvas, BufferSize

(* A row of columns and a row index on the canvas is on the canvas.        *)
LEMMA RowOnCanvas ==
  ASSUME NEW S \in SUBSET (0..(CW - 1)), NEW ey \in 0..(CH - 1)
  PROVE  Row(S, ey) \subseteq Pixels
BY DEF Row, Pixels

(* A span loop running down to the centre column from a column on the     *)
(* canvas, or up from anywhere to a centre column on it, stays on it.      *)
LEMMA SpansOnCanvas ==
  ASSUME NEW from \in 0..(CW - 1), NEW cx \in 0..(CW - 1)
  PROVE  /\ DownSpan(from, cx) \in SUBSET (0..(CW - 1))
         /\ UpSpan(from, cx) \in SUBSET (0..(CW - 1))
BY CoordRange, CanvasAssumption DEF DownSpan, UpSpan, Coord

(* One iteration of the circle loop, for a circle inside the canvas and    *)
(* loop variables 0 <= y <= x <= r, draws only pixels of the canvas.       *)
LEMMA IterationOnCanvas ==
  ASSUME CirclesInside, NEW c \in Circles,
         NEW sx \in 0..c.r, NEW sy \in 0..sx
  PROVE  Spans(c, sx, sy) \subseteq Pixels
<1>1. c \in [x : Coord, y : Coord, r : Coord]
  BY ShapeAssumption
<1>2. /\ 1 <= c.r /\ c.r <= c.x /\ c.x + c.r < CW
      /\ c.r <= c.y /\ c.y + c.r < CH
  BY DEF CirclesInside
<1>3. /\ c.x + sx \in 0..(CW - 1) /\ c.x - sx \in 0..(CW - 1)
      /\ c.x + sy \in 0..(CW - 1) /\ c.x - sy \in 0..(CW - 1)
      /\ c.y + sx \in 0..(CH - 1) /\ c.y - sx \in 0..(CH - 1)
      /\ c.y + sy \in 0..(CH - 1) /\ c.y - sy \in 0..(CH - 1)
      /\ c.x \in 0..(CW - 1)
  BY <1>1, <1>2, CanvasAssumption, CoordRange DEF Coord
<1>4. /\ U(c.x + sx) = c.x + sx /\ U(c.x - sx) = c.x - sx
      /\ U(c.x + sy) = c.x + sy /\ U(c.x - sy) = c.x - sy
      /\ U(c.y + sx) = c.y + sx /\ U(c.y - sx) = c.y - sx
      /\ U(c.y + sy) = c.y + sy /\ U(c.y - sy) = c.y - sy
  BY <1>1, <1>2, <1>3, CoordRange, CanvasAssumption, UKeeps DEF Coord
<1>5. QED
  BY <1>3, <1>4, SpansOnCanvas, RowOnCanvas DEF Spans

-----------------------------------------------------------------------------
(* The hypotheses of the bounds theorem.                                    *)
InBoundsHyp == BgraOnly /\ RectsInRows /\ CirclesInside

(* A call that passes only pixels of the canvas to draw_point keeps every *)
(* write inside a BGRA buffer.                                              *)
LEMMA PlotOnCanvas ==
  ASSUME canvas = BgraCanvas, ~oob, NEW S \in SUBSET Pixels, Plot(S)
  PROVE  ~oob'
BY PixelInBuffer DEF Plot

(* A fill or a rectangle whose rows end on the canvas draws on the canvas.  *)
LEMMA FillRectOnCanvas ==
  ASSUME canvas = BgraCanvas, RectsInRows
  PROVE  /\ {<<px, py>> : px \in 0..(canvas.w - 1), py \in 0..(canvas.h - 1)}
               \subseteq Pixels
         /\ \A r \in Rects :
               {<<px, py>> : px \in RectCols(r), py \in RectRows(r)} \subseteq Pixels
<1>1. {<<px, py>> : px \in 0..(canvas.w - 1), py \in 0..(canvas.h - 1)} \subseteq Pixels
  BY DEF BgraCanvas, Pixels
<1>2. ASSUME NEW r \in Rects
      PROVE  {<<px, py>> : px \in RectCols(r), py \in RectRows(r)} \subseteq Pixels
  <2>1. r \in [x : Coord, y : Coord, w : Coord, h : Coord] /\ r.y + r.h <= CH
    BY ShapeAssumption DEF RectsInRows
  <2>2. U(r.y + r.h) = r.y + r.h
    BY <2>1, UKeeps, CoordRange, CanvasAssumption DEF Coord
  <2>3. RectCols(r) \subseteq 0..(CW - 1)
    BY CoordRange, CanvasAssumption DEF RectCols, BgraCanvas, Coord
  <2>4. RectRows(r) \subseteq 0..(CH - 1)
    BY <2>1, <2>2, CoordRange, CanvasAssumption DEF RectRows, Coord
  <2>5. QED
    BY <2>3, <2>4 DEF Pixels
<1>3. QED
  BY <1>1, <1>2

(* One iteration of the circle loop keeps the loop bounds: y grows by one  *)
(* without wrapping, and x is only decremented when it is at least 1.      *)
LEMMA CircleStepBounds ==
  ASSUME CirclesInside, TypeOK, LoopBounds, CircleStep
  PROVE  LoopBounds'
<1>1. /\ pc = "circle" /\ pc' = "circle" /\ circ' = circ /\ circ \in Circles
      /\ x \in 0..circ.r /\ y \in Nat /\ circ.r <= x + y /\ x >= y
  BY DEF CircleStep, LoopBounds
<1>2. circ \in [x : Coord, y : Coord, r : Coord]
      /\ 1 <= circ.r /\ circ.r <= circ.x /\ circ.x + circ.r < CW
  BY <1>1, ShapeAssumption DEF CirclesInside
<1>3. circ.x # 0
  BY <1>2 DEF Coord
<1>4. NextY = y + 1
  BY <1>1, <1>2, UKeeps, CoordRange, CanvasAssumption DEF NextY, Coord
<1>5. x >= 1
  BY <1>1, <1>2 DEF Coord
<1>6. U(x - 1) = x - 1
  BY <1>1, <1>2, <1>5, UKeeps, CoordRange, CanvasAssumption DEF Coord
<1>7. /\ y' = y + 1
      /\ x' \in {x, x - 1}
  BY <1>3, <1>4, <1>6 DEF CircleStep
<1>8. QED
  BY <1>1, <1>2, <1>5, <1>7 DEF LoopBounds, Coord

(* Under the hypotheses, no step of the rasterizer writes out of bounds    *)
(* and the loop bounds are kept.                                            *)
LEMMA InBoundsStep ==
  ASSUME InBoundsHyp, IInv, [Next]_vars
  PROVE  IInv'
<1>0. canvas = BgraCanvas /\ ~oob /\ TypeOK /\ LoopBounds
  BY DEF IInv, WritesInBounds
<1>1. CASE Fill
  <2> DEFINE S == {<<px, py>> : px \in 0..(canvas.w - 1), py \in 0..(canvas.h - 1)}
  <2>1. Plot(S) /\ UNCHANGED <<canvas, pc, circ, x, y, t1>>
    BY <1>1 DEF Fill
  <2>2. S \in SUBSET Pixels
    BY <1>0, FillRectOnCanvas DEF InBoundsHyp
  <2>3. ~oob'
    BY <1>0, <2>1, <2>2, PlotOnCanvas
  <2>4. QED
    BY <1>0, <2>1, <2>3 DEF IInv, TypeOK, LoopBounds, WritesInBounds, Plot
<1>2. ASSUME NEW r \in Rects, DrawRect(r) PROVE IInv'
  <2> DEFINE S == {<<px, py>> : px \in RectCols(r), py \in RectRows(r)}
  <2>1. Plot(S) /\ UNCHANGED <<canvas, pc, circ, x, y, t1>>
    BY <1>2 DEF DrawRect
  <2>2. S \in SUBSET Pixels
    BY <1>0, FillRectOnCanvas DEF InBoundsHyp
  <2>3. ~oob'
    BY <1>0, <2>1, <2>2, PlotOnCanvas
  <2>4. QED
    BY <1>0, <2>1, <2>3 DEF IInv, TypeOK, LoopBounds, WritesInBounds, Plot
<1>3. ASSUME NEW c \in Circles, DrawCircle(c) PROVE IInv'
  <2>1. c \in [x : Coord, y : Coord, r : Coord]
    BY ShapeAssumption
  <2>2. QED
    BY <1>0, <1>3, <2>1, CoordRange
       DEF DrawCircle, IInv, TypeOK, LoopBounds, WritesInBounds, Coord
<1>4. CASE CircleStep
  <2>1. LoopBounds'
    BY <1>0, <1>4, CircleStepBounds DEF InBoundsHyp
  <2>2. /\ circ \in Circles /\ x \in 0..circ.r /\ y \in 0..x /\ circ.x # 0
    BY <1>0, <1>4, ShapeAssumption DEF CircleStep, LoopBounds, InBoundsHyp, CirclesInside, Coord
  <2>3. Spans(circ, x, y) \subseteq Pixels
    BY <2>2, IterationOnCanvas DEF InBoundsHyp
  <2>4. ~oob'
    BY <1>0, <1>4, <2>2, <2>3, PlotOnCanvas DEF CircleStep
  <2>5. TypeOK'
    BY <1>0, <1>4, <2>1, <2>2, CoordRange DEF CircleStep, TypeOK, LoopBounds, U, NextY, Plot
  <2>6. QED
    BY <1>4, <2>1, <2>4, <2>5 DEF CircleStep, IInv, WritesInBounds
<1>5. CASE CircleDone
  BY <1>0, <1>5 DEF CircleDone, IInv, TypeOK, LoopBounds, WritesInBounds
<1>6. CASE UNCHANGED vars
  BY <1>0, <1>6 DEF vars, IInv, TypeOK, LoopBounds, WritesInBounds
<1>7. QED
  BY <1>1, <1>2, <1>3, <1>4, <1>5, <1>6 DEF Next

(* On a BGRA canvas, with rectangles whose rows end on the canvas and      *)
(* circles of radius at least 1 inside it, draw_point never writes past    *)
(* the buffer, for every coordinate width and canvas size.                 *)
THEOREM DrawsStayInBuffer == InBoundsHyp => (Spec => []WritesInBounds)
<1> SUFFICES ASSUME InBoundsHyp PROVE Spec => []WritesInBounds
  OBVIOUS
<1>1. Init => IInv
  <2> SUFFICES ASSUME Init PROVE IInv
    OBVIOUS
  <2>1. canvas = BgraCanvas
    <3>1. PICK k \in Kinds : canvas = IF k = "bgra" THEN BgraCanvas ELSE DrmCanvas
      BY DEF Init
    <3>2. QED
      BY <3>1 DEF InBoundsHyp, BgraOnly
  <2>2. pc = "idle" /\ x = 0 /\ y = 0 /\ t1 = 0 /\ oob = FALSE
    BY DEF Init
  <2>3. TypeOK
    <3>1. pc \in {"idle", "circle"} /\ x \in Int /\ y \in Int /\ t1 \in Int
      BY <2>2
    <3>2. oob \in BOOLEAN
      BY <2>2
    <3>3. QED
      BY <3>1, <3>2 DEF TypeOK
  <2>4. LoopBounds
    BY <2>2 DEF LoopBounds
  <2>5. QED
    BY <2>1, <2>2, <2>3, <2>4 DEF IInv, WritesInBounds
<1>2. IInv /\ [Next]_vars => IInv'
  BY InBoundsStep
<1>3. IInv => WritesInBounds
  BY DEF IInv
<1>4. QED
  BY <1>1, <1>2, <1>3, PTL DEF Spec
=============================================================================
