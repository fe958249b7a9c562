------------------------------- MODULE Raster -------------------------------
(***************************************************************************)
(* The rasterizer of rendering.c (src/unnamed/part_000): draw_point,       *)
(* rendering_fill, rendering_draw_rect and rendering_draw_circle, on a     *)
(* canvas made either by canvas_init_bgra or by drm_canvas_init.           *)
(*                                                                         *)
(* Coordinates are unsigned integers of Bits bits (uint16_t in the code,   *)
(* so Bits = 16); every store into a coordinate variable is taken modulo   *)
(* 2^Bits, which keeps the wraparound the code relies on.  A fill or a     *)
(* rectangle is one step; the midpoint-circle loop takes one step per      *)
(* iteration of its while loop, whose eight span loops are computed as     *)
(* sets of pixels.  A byte offset past the canvas buffer is recorded in    *)
(* oob: draw_point writes there without a check.                           *)
(***************************************************************************)
EXTENDS Integers

CONSTANTS
    Bits,        \* width of the coordinate type
    CW, CH,      \* canvas width and height in pixels
    Pitch,       \* row pitch of the DRM dumb buffer, in bytes
    Kinds,       \* the canvas constructors in use: "bgra", "drm"
    Rects,       \* rectangles the caller passes to rendering_draw_rect
    Circles      \* circles the caller passes to rendering_draw_circle

M == 2 ^ Bits
Coord == 0..(M - 1)

ASSUME BitsAssumption == Bits \in Nat \ {0}
\* A fact of arithmetic the provers lack (they treat ^ as opaque); TLC
\* evaluates it for the Bits of each run.
ASSUME PowerAssumption == M \in Nat \ {0}
ASSUME CanvasAssumption == CW \in 1..(M - 1) /\ CH \in 1..(M - 1) /\ Pitch >= CW * 4
ASSUME KindsAssumption == Kinds \subseteq {"bgra", "drm"} /\ Kinds # {}
ASSUME ShapeAssumption ==
    /\ Rects \subseteq [x : Coord, y : Coord, w : Coord, h : Coord]
    /\ Circles \subseteq [x : Coord, y : Coord, r : Coord]

\* Storing an int into a uint16_t.
U(n) == n % M

\* canvas_buffer_size: width * height * stride.
BufferSize(w, h, stride) == w * h * stride

\* canvas_init_bgra: stride is 4 bytes per pixel.
BgraCanvas == [w |-> CW, h |-> CH, stride |-> 4, size |-> BufferSize(CW, CH, 4)]

\* drm_canvas_init: stride is the front buffer's pitch and the buffer is as
\* large as the dumb buffer, pitch * height bytes.
DrmCanvas == [w |-> CW, h |-> CH, stride |-> Pitch, size |-> Pitch * CH]

VARIABLES
    canvas,   \* the struct canvas drawn on
    pc,       \* "idle" between calls, "circle" inside draw_circle
    circ,     \* the circle being drawn
    x, y, t1, \* the locals of rendering_draw_circle
    drawn,    \* the pixels the current or last call passed to draw_point
    last,     \* the last call: its operation and its argument
    oob       \* some draw_point wrote outside the buffer

vars == <<canvas, pc, circ, x, y, t1, drawn, last, oob>>

\* draw_point: byte offset (y * width + x) * stride, 4 bytes written.
ByteIdx(p) == (p[2] * canvas.w + p[1]) * canvas.stride
InBuffer(p) == ByteIdx(p) + 4 <= canvas.size

\* A call passes the pixels S to draw_point.
Plot(S) == /\ oob' = (oob \/ \E p \in S : ~InBuffer(p))

Row(S, ey) == {<<ex, ey>> : ex \in S}

NoCircle == [x |-> 0, y |-> 0, r |-> 0]

Init == /\ canvas \in {IF k = "bgra" THEN BgraCanvas ELSE DrmCanvas : k \in Kinds}
        /\ pc = "idle"
        /\ circ = NoCircle
        /\ x = 0 /\ y = 0 /\ t1 = 0
        /\ drawn = {}
        /\ last = [op |-> "none", arg |-> NoCircle]
        /\ oob = FALSE

\* rendering_fill: every x < width, every y < height.
Fill ==
    LET S == {<<px, py>> : px \in 0..(canvas.w - 1), py \in 0..(canvas.h - 1)}
    IN  /\ pc = "idle"
        /\ Plot(S) /\ drawn' = S
        /\ last' = [op |-> "fill", arg |-> NoCircle]
        /\ UNCHANGED <<canvas, pc, circ, x, y, t1>>

\* The rows of rendering_draw_rect: y from rect->y while y < bottom_edge
\* (the second test of the condition repeats the first).
RectRows(r) == {py \in Coord : r.y <= py /\ py < U(r.y + r.h)}

\* The columns: x from rect->x while x < right_edge and x < c->width.
RectColsUnclamped(r) == {px \in Coord : r.x <= px /\ px < U(r.x + r.w)}
RectCols(r) == {px \in Coord : r.x <= px /\ px < U(r.x + r.w) /\ px < canvas.w}

\* rendering_draw_rect.
DrawRect(r) ==
    LET S == {<<px, py>> : px \in RectCols(r), py \in RectRows(r)}
    IN  /\ pc = "idle"
        /\ Plot(S) /\ drawn' = S
        /\ last' = [op |-> "rect", arg |-> r]
        /\ UNCHANGED <<canvas, pc, circ, x, y, t1>>

\* rendering_draw_circle, its declarations: x = r, y = 0, t1 = r / 16.
DrawCircle(c) ==
    /\ pc = "idle"
    /\ pc' = "circle" /\ circ' = c
    /\ x' = c.r /\ y' = 0 /\ t1' = c.r \div 16
    /\ drawn' = {}
    /\ last' = [op |-> "circle", arg |-> c]
    /\ UNCHANGED <<canvas, oob>>

\* for (eff_x = from; eff_x >= cx; eff_x--), for cx > 0.
DownSpanFromAbove(from, cx) == {ex \in Coord : cx < ex /\ ex <= from}
DownSpan(from, cx) == {ex \in Coord : cx <= ex /\ ex <= from}

\* for (eff_x = from; eff_x < cx; eff_x++).
UpSpan(from, cx) == {ex \in Coord : from <= ex /\ ex < cx}

\* The eight span loops of one iteration of the while loop.
Spans(c, sx, sy) ==
       Row(DownSpan(U(c.x + sx), c.x), U(c.y + sy))
    \cup Row(DownSpan(U(c.x + sx), c.x), U(c.y - sy))
    \cup Row(UpSpan(U(c.x - sx), c.x), U(c.y - sy))
    \cup Row(UpSpan(U(c.x - sx), c.x), U(c.y + sy))
    \cup Row(DownSpan(U(c.x + sy), c.x), U(c.y + sx))
    \cup Row(DownSpan(U(c.x + sy), c.x), U(c.y - sx))
    \cup Row(UpSpan(U(c.x - sy), c.x), U(c.y - sx))
    \cup Row(UpSpan(U(c.x - sy), c.x), U(c.y + sx))

\* The increment of y at the end of an iteration.
NextYStuck == y
NextY == U(y + 1)

\* One iteration of "while (x >= y)": the spans, then y++, t1 += y,
\* t2 = t1 - x, and x-- with t1 = t2 when t2 >= 0.  With circle->x = 0 the
\* first span loop's test eff_x >= 0 always holds on a uint16_t: eff_x wraps
\* and the loop sweeps its row for ever, so the iteration never completes.
CircleStep ==
    LET ny == NextY
        t2 == t1 + ny - x
        S  == IF circ.x = 0 THEN Row(Coord, U(circ.y + y))
                            ELSE Spans(circ, x, y)
    IN  /\ pc = "circle" /\ x >= y
        /\ Plot(S) /\ drawn' = drawn \cup S
        /\ IF circ.x = 0
             THEN UNCHANGED <<x, y, t1>>
             ELSE /\ y' = ny
                  /\ t1' = IF t2 >= 0 THEN t2 ELSE t1 + ny
                  /\ x' = IF t2 >= 0 THEN U(x - 1) ELSE x
        /\ UNCHANGED <<canvas, pc, circ, last>>

\* The while loop exits and rendering_draw_circle returns.
CircleDone ==
    /\ pc = "circle" /\ x < y
    /\ pc' = "idle"
    /\ UNCHANGED <<canvas, circ, x, y, t1, drawn, last, oob>>

Next == \/ Fill
        \/ \E r \in Rects : DrawRect(r)
        \/ \E c \in Circles : DrawCircle(c)
        \/ CircleStep \/ CircleDone

Spec == Init /\ [][Next]_vars

\* The drawing thread keeps running the loop it is in.
FairSpec == Spec /\ WF_vars(CircleStep \/ CircleDone)

-----------------------------------------------------------------------------
\* Spec 4.2: draw_point has no bounds check, so every primitive must keep
\* its writes inside the canvas buffer; no fill, rectangle or circle ever
\* makes draw_point write past the buffer.
WritesInBounds == ~oob

\* Spec 4.2: a finished draw_rect has drawn exactly the box [x, x+w) x
\* [y, y+h) with columns clamped to the canvas width, in unbounded integer
\* arithmetic (and nothing when w or h is 0, spec 8).
RectMatchesSpec ==
    (pc = "idle" /\ last.op = "rect") =>
        LET r == last.arg
        IN  drawn = {p \in Coord \X Coord :
                        /\ r.x <= p[1] /\ p[1] < r.x + r.w /\ p[1] < canvas.w
                        /\ r.y <= p[2] /\ p[2] < r.y + r.h}

\* Spec 4.2 and 8: a finished draw_circle has drawn an eight-way symmetric
\* figure inside the circle's bounding box that reaches the four extreme
\* points, and exactly the centre pixel when the radius is 0.
CircleShape ==
    (pc = "idle" /\ last.op = "circle") =>
        LET c == last.arg
        IN  /\ c.r = 0 => drawn = {<<c.x, c.y>>}
            /\ \A p \in drawn : /\ c.x - c.r <= p[1] /\ p[1] <= c.x + c.r
                                /\ c.y - c.r <= p[2] /\ p[2] <= c.y + c.r
            /\ {<<c.x + c.r, c.y>>, <<c.x - c.r, c.y>>,
                <<c.x, c.y + c.r>>, <<c.x, c.y - c.r>>} \subseteq drawn
            /\ \A p \in drawn :
                  /\ <<2 * c.x - p[1], p[2]>> \in drawn
                  /\ <<p[1], 2 * c.y - p[2]>> \in drawn
                  /\ <<c.x + p[2] - c.y, c.y + p[1] - c.x>> \in drawn

\* Spec 8: for a circle inside the canvas the midpoint loop terminates, so
\* every call of rendering_draw_circle returns.
CircleReturns == (pc = "circle") ~> (pc = "idle")
=============================================================================
