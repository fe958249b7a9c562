----------------------------- MODULE MC_Raster ------------------------------
(* Model-checking instances of the rasterizer: 4-bit coordinates on a 6x5  *)
(* canvas, so that coordinates can leave the canvas and wrap around.        *)
EXTENDS Raster

\* Rectangles inside the rows of the canvas whose right edge does not wrap,
\* some of them running past the right edge and some of zero size.
OnCanvasRects ==
    {r \in [x : {0, 2, 5}, y : {0, 2, 4}, w : {0, 1, 3, 9}, h : {0, 1, 3}] :
        r.y + r.h <= CH /\ r.x + r.w < M}
\* Rectangles whose rows run past the bottom of the canvas.
TallRects == [x : {1}, y : {2, 4}, w : {2}, h : {2, 4}]
\* Rectangles whose right edge x + w wraps around 2^Bits.
WideRects == [x : {3}, y : {1}, w : {M - 2}, h : {1}]
\* Circles of radius at least 1 that lie fully on the canvas.
OnCanvasCircles ==
    {c \in [x : 0..(CW - 1), y : 0..(CH - 1), r : 1..2] :
        c.x - c.r >= 0 /\ c.x + c.r < CW /\ c.y - c.r >= 0 /\ c.y + c.r < CH}
\* A single-pixel circle inside the canvas.
DotCircle == {[x |-> 2, y |-> 2, r |-> 0]}
\* A single-pixel circle in the leftmost column.
LeftDotCircle == {[x |-> 0, y |-> 2, r |-> 0]}

\* No shapes: only rendering_fill is called (as ui_pane_create does).
NoRects == {}
NoCircles == {}
=============================================================================
