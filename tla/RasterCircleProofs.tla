------------------------- MODULE RasterCircleProofs -------------------------
(***************************************************************************)
(* Proof that rendering_draw_circle draws the shape spec 4.2 asks for:    *)
(* for every circle of radius at least 1 inside the canvas, the finished   *)
(* figure lies in the circle's bounding box, reaches its four extreme      *)
(* points, and is symmetric under both mirrors and the diagonal swap.      *)
(* Each iteration of the midpoint loop is mirror-symmetric on its own, but *)
(* not diagonal-symmetric: the swap of a pixel drawn on row y may only be *)
(* drawn in a later iteration, once x has come down to its column.  The    *)
(* invariant says which pixels may still be waiting for their swap.        *)
(***************************************************************************)
EXTENDS RasterProofs

(* The pixels one iteration with loop variables sx, sy draws: rows        *)
(* cy +- sy from cx - sx to cx + sx, and rows cy +- sx from cx - sy to     *)
(* cx + sy.                                                                 *)
InIter(c, sx, sy, q) ==
  /\ q \in Int \X Int
  /\ \/ /\ q[2] = c.y + sy \/ q[2] = c.y - sy
        /\ c.x - sx <= q[1] /\ q[1] <= c.x + sx
     \/ /\ q[2] = c.y + sx \/ q[2] = c.y - sx
        /\ c.x - sy <= q[1] /\ q[1] <= c.x + sy

(* The three symmetries of a circle centred on c.                          *)
MirrorX(c, q) == <<2 * c.x - q[1], q[2]>>
MirrorY(c, q) == <<q[1], 2 * c.y - q[2]>>
Swap(c, q) == <<c.x + q[2] - c.y, c.y + q[1] - c.x>>

(* The four extreme points of the circle c.                                *)
Extremes(c) == {<<c.x + c.r, c.y>>, <<c.x - c.r, c.y>>,
                <<c.x, c.y + c.r>>, <<c.x, c.y - c.r>>}

(* A drawn pixel whose swap the loop has yet to draw: its column is y..x  *)
(* away from the centre and its row less than y away.                      *)
Pending(q) ==
  /\ \/ y <= q[1] - circ.x /\ q[1] - circ.x <= x
     \/ y <= circ.x - q[1] /\ circ.x - q[1] <= x
  /\ circ.y - y < q[2] /\ q[2] < circ.y + y

(* Inside the loop: the rows less than y from the centre are drawn at      *)
(* least x to each side, the figure is in the box and mirror-symmetric,    *)
(* every pixel has its swap or is pending, and the extreme points are      *)
(* drawn from the first iteration on.                                       *)
ShapeInv ==
  pc = "circle" =>
    /\ last = [op |-> "circle", arg |-> circ]
    /\ drawn \subseteq Int \X Int
    /\ y = 0 => x = circ.r
    /\ \A a \in (circ.x - x)..(circ.x + x), b \in (circ.y - y + 1)..(circ.y + y - 1) :
          <<a, b>> \in drawn
    /\ \A q \in drawn :
          /\ circ.x - circ.r <= q[1] /\ q[1] <= circ.x + circ.r
          /\ circ.y - circ.r <= q[2] /\ q[2] <= circ.y + circ.r
          /\ MirrorX(circ, q) \in drawn /\ MirrorY(circ, q) \in drawn
          /\ Swap(circ, q) \in drawn \/ Pending(q)
    /\ 1 <= y => Extremes(circ) \subseteq drawn

CInv == TypeOK /\ LoopBounds /\ ShapeInv /\ CircleShape
-----------------------------------------------------------------------------
(* A pixel is on the row Row(S, ey) when its column is in S.               *)
LEMMA RowMember ==
  ASSUME NEW S \in SUBSET Int, NEW ey \in Int, NEW q
  PROVE  q \in Row(S, ey) <=> (q \in Int \X Int /\ q[1] \in S /\ q[2] = ey)
BY DEF Row

(* A span loop down from cx + w to cx and one up from cx - w to cx cover  *)
(* the columns cx - w .. cx + w of their row, when both ends are coords.   *)
LEMMA RowPair ==
  ASSUME NEW cx \in Coord, NEW w \in Nat, cx - w \in Coord, cx + w \in Coord,
         NEW ey \in Int, NEW q
  PROVE  q \in Row(DownSpan(cx + w, cx), ey) \cup Row(UpSpan(cx - w, cx), ey)
           <=> (q \in Int \X Int /\ q[2] = ey /\ cx - w <= q[1] /\ q[1] <= cx + w)
<1>1. DownSpan(cx + w, cx) \in SUBSET Int /\ UpSpan(cx - w, cx) \in SUBSET Int
  BY DEF DownSpan, UpSpan, Coord
<1>2. q \in Row(DownSpan(cx + w, cx), ey)
        <=> (q \in Int \X Int /\ q[1] \in DownSpan(cx + w, cx) /\ q[2] = ey)
  BY <1>1, RowMember
<1>3. q \in Row(UpSpan(cx - w, cx), ey)
        <=> (q \in Int \X Int /\ q[1] \in UpSpan(cx - w, cx) /\ q[2] = ey)
  BY <1>1, RowMember
<1>4. ASSUME NEW e \in Int
      PROVE  (e \in DownSpan(cx + w, cx) \/ e \in UpSpan(cx - w, cx))
               <=> (cx - w <= e /\ e <= cx + w)
  BY PowerAssumption DEF DownSpan, UpSpan, Coord
<1>5. QED
  BY <1>2, <1>3, <1>4

(* The eight span loops of one iteration, for a circle inside the canvas  *)
(* and 0 <= sy <= sx <= r, draw exactly the pixels InIter describes: no   *)
(* coordinate wraps, and each pair of loops covers its row without a gap.  *)
LEMMA SpansChar ==
  ASSUME CirclesInside, NEW c \in Circles, NEW sx \in 0..c.r, NEW sy \in 0..sx, NEW q
  PROVE  q \in Spans(c, sx, sy) <=> InIter(c, sx, sy, q)
<1>1. c \in [x : Coord, y : Coord, r : Coord]
  BY ShapeAssumption
<1>2. /\ 1 <= c.r /\ c.r <= c.x /\ c.x + c.r < CW
      /\ c.r <= c.y /\ c.y + c.r < CH
  BY DEF CirclesInside
<1>3. /\ c.x + sx \in Coord /\ c.x - sx \in Coord
      /\ c.x + sy \in Coord /\ c.x - sy \in Coord
      /\ c.y + sx \in Coord /\ c.y - sx \in Coord
      /\ c.y + sy \in Coord /\ c.y - sy \in Coord
  BY <1>1, <1>2, CanvasAssumption, CoordRange DEF Coord
<1>4. /\ U(c.x + sx) = c.x + sx /\ U(c.x - sx) = c.x - sx
      /\ U(c.x + sy) = c.x + sy /\ U(c.x - sy) = c.x - sy
      /\ U(c.y + sx) = c.y + sx /\ U(c.y - sx) = c.y - sx
      /\ U(c.y + sy) = c.y + sy /\ U(c.y - sy) = c.y - sy
  BY <1>3, UKeeps DEF Coord
<1>5. Spans(c, sx, sy) =
         (Row(DownSpan(c.x + sx, c.x), c.y + sy) \cup Row(UpSpan(c.x - sx, c.x), c.y + sy))
    \cup (Row(DownSpan(c.x + sx, c.x), c.y - sy) \cup Row(UpSpan(c.x - sx, c.x), c.y - sy))
    \cup (Row(DownSpan(c.x + sy, c.x), c.y + sx) \cup Row(UpSpan(c.x - sy, c.x), c.y + sx))
    \cup (Row(DownSpan(c.x + sy, c.x), c.y - sx) \cup Row(UpSpan(c.x - sy, c.x), c.y - sx))
  BY <1>4 DEF Spans
<1>6. sx \in Nat /\ sy \in Nat /\ c.x \in Coord /\ c.y \in Int
  BY <1>1 DEF Coord
<1>7. QED
  BY <1>3, <1>5, <1>6, RowPair DEF InIter

(* The swap of a pending pixel is drawn by this iteration when its column *)
(* is y or x away from the centre; otherwise it stays pending.             *)
LEMMA PendingStep ==
  ASSUME NEW c \in [x : Int, y : Int, r : Int], NEW sx \in Int, NEW sy \in Nat,
         sy <= sx, NEW nx \in {sx, sx - 1}, NEW q \in Int \X Int,
         \/ sy <= q[1] - c.x /\ q[1] - c.x <= sx
         \/ sy <= c.x - q[1] /\ c.x - q[1] <= sx,
         c.y - sy < q[2], q[2] < c.y + sy
  PROVE  \/ InIter(c, sx, sy, Swap(c, q))
         \/ /\ \/ sy + 1 <= q[1] - c.x /\ q[1] - c.x <= nx
               \/ sy + 1 <= c.x - q[1] /\ c.x - q[1] <= nx
            /\ c.y - (sy + 1) < q[2] /\ q[2] < c.y + (sy + 1)
BY DEF InIter, Swap

(* The swap of a pixel this iteration draws is drawn already (a row less   *)
(* than y from the centre), drawn by this iteration, or pending after it.  *)
LEMMA IterSwap ==
  ASSUME NEW c \in [x : Int, y : Int, r : Int], NEW sx \in Int, NEW sy \in Nat,
         sy <= sx, NEW nx \in {sx, sx - 1}, NEW q, InIter(c, sx, sy, q)
  PROVE  \/ /\ c.x - sx <= Swap(c, q)[1] /\ Swap(c, q)[1] <= c.x + sx
            /\ c.y - sy + 1 <= Swap(c, q)[2] /\ Swap(c, q)[2] <= c.y + sy - 1
         \/ InIter(c, sx, sy, Swap(c, q))
         \/ /\ \/ sy + 1 <= q[1] - c.x /\ q[1] - c.x <= nx
               \/ sy + 1 <= c.x - q[1] /\ c.x - q[1] <= nx
            /\ c.y - (sy + 1) < q[2] /\ q[2] < c.y + (sy + 1)
BY DEF InIter, Swap

(* One iteration's pixels lie in the box of radius sx and are symmetric   *)
(* under both mirrors.                                                      *)
LEMMA IterMirror ==
  ASSUME NEW c \in [x : Int, y : Int, r : Int], NEW sx \in Int, NEW sy \in Nat,
         sy <= sx, NEW q, InIter(c, sx, sy, q)
  PROVE  /\ c.x - sx <= q[1] /\ q[1] <= c.x + sx
         /\ c.y - sx <= q[2] /\ q[2] <= c.y + sx
         /\ InIter(c, sx, sy, MirrorX(c, q))
         /\ InIter(c, sx, sy, MirrorY(c, q))
BY DEF InIter, MirrorX, MirrorY

(* One iteration of the midpoint loop keeps ShapeInv: the rows cy +- y are *)
(* filled to x, and every swap still missing is pending for the new x, y. *)
LEMMA CircleStepShape ==
  ASSUME CirclesInside, TypeOK, LoopBounds, ShapeInv, CircleStep
  PROVE  ShapeInv'
<1> DEFINE c == circ
<1>1. /\ pc = "circle" /\ pc' = "circle" /\ circ' = c /\ last' = last
      /\ c \in Circles /\ x \in 0..c.r /\ y \in Nat /\ y <= x /\ c.r <= x + y
  BY DEF CircleStep, LoopBounds
<1>2. /\ c \in [x : Coord, y : Coord, r : Coord]
      /\ 1 <= c.r /\ c.r <= c.x /\ c.x + c.r < CW /\ c.x # 0
  BY <1>1, ShapeAssumption DEF CirclesInside, Coord
<1>3. c \in [x : Int, y : Int, r : Int]
  BY <1>2 DEF Coord
<1>4. /\ y' = y + 1
      /\ x' \in {x, x - 1}
  <2>1. NextY = y + 1
    BY <1>1, <1>2, UKeeps, CoordRange, CanvasAssumption DEF NextY, Coord
  <2>2. U(x - 1) = x - 1
    BY <1>1, <1>2, UKeeps, CoordRange, CanvasAssumption DEF Coord
  <2>3. QED
    BY <1>2, <2>1, <2>2 DEF CircleStep
<1>5. drawn' = drawn \cup Spans(c, x, y)
  BY <1>2 DEF CircleStep
<1>6. ASSUME NEW q PROVE q \in drawn' <=> (q \in drawn \/ InIter(c, x, y, q))
  BY <1>1, <1>5, SpansChar
<1>7. /\ last = [op |-> "circle", arg |-> c]
      /\ drawn \subseteq Int \X Int
      /\ y = 0 => x = c.r
      /\ \A a \in (c.x - x)..(c.x + x), b \in (c.y - y + 1)..(c.y + y - 1) :
            <<a, b>> \in drawn
      /\ \A q \in drawn :
            /\ c.x - c.r <= q[1] /\ q[1] <= c.x + c.r
            /\ c.y - c.r <= q[2] /\ q[2] <= c.y + c.r
            /\ MirrorX(c, q) \in drawn /\ MirrorY(c, q) \in drawn
            /\ Swap(c, q) \in drawn \/ Pending(q)
      /\ 1 <= y => Extremes(c) \subseteq drawn
  BY <1>1 DEF ShapeInv
<1>8. drawn' \subseteq Int \X Int
  BY <1>6, <1>7 DEF InIter
<1>9. ASSUME NEW a \in (c.x - x')..(c.x + x'), NEW b \in (c.y - y' + 1)..(c.y + y' - 1)
      PROVE  <<a, b>> \in drawn'
  <2>1. CASE c.y - y + 1 <= b /\ b <= c.y + y - 1
    <3>1. a \in (c.x - x)..(c.x + x)
      BY <1>1, <1>3, <1>4
    <3>2. QED
      BY <1>6, <1>7, <2>1, <3>1
  <2>2. CASE ~(c.y - y + 1 <= b /\ b <= c.y + y - 1)
    <3>1. InIter(c, x, y, <<a, b>>)
      BY <1>1, <1>3, <1>4, <2>2 DEF InIter
    <3>2. QED
      BY <1>6, <3>1
  <2>3. QED
    BY <2>1, <2>2
<1>10. ASSUME NEW q \in drawn'
       PROVE  /\ c.x - c.r <= q[1] /\ q[1] <= c.x + c.r
              /\ c.y - c.r <= q[2] /\ q[2] <= c.y + c.r
              /\ MirrorX(c, q) \in drawn' /\ MirrorY(c, q) \in drawn'
              /\ Swap(c, q) \in drawn' \/ Pending(q)'
  <2>1. Pending(q)' <=>
          /\ \/ y + 1 <= q[1] - c.x /\ q[1] - c.x <= x'
             \/ y + 1 <= c.x - q[1] /\ c.x - q[1] <= x'
          /\ c.y - (y + 1) < q[2] /\ q[2] < c.y + (y + 1)
    BY <1>1, <1>4 DEF Pending
  <2>2. CASE q \in drawn
    <3>1. /\ c.x - c.r <= q[1] /\ q[1] <= c.x + c.r
          /\ c.y - c.r <= q[2] /\ q[2] <= c.y + c.r
          /\ MirrorX(c, q) \in drawn' /\ MirrorY(c, q) \in drawn'
      BY <1>6, <1>7, <2>2
    <3>2. CASE Swap(c, q) \in drawn
      BY <1>6, <3>1, <3>2
    <3>3. CASE Pending(q)
      <4>1. q \in Int \X Int
        BY <1>7, <2>2
      <4>2. \/ InIter(c, x, y, Swap(c, q))
            \/ /\ \/ y + 1 <= q[1] - c.x /\ q[1] - c.x <= x'
                  \/ y + 1 <= c.x - q[1] /\ c.x - q[1] <= x'
               /\ c.y - (y + 1) < q[2] /\ q[2] < c.y + (y + 1)
        BY <1>1, <1>3, <1>4, <3>3, <4>1, PendingStep DEF Pending
      <4>3. QED
        BY <1>6, <2>1, <3>1, <4>2
    <3>4. QED
      BY <1>7, <2>2, <3>2, <3>3
  <2>3. CASE InIter(c, x, y, q)
    <3>1. /\ c.x - c.r <= q[1] /\ q[1] <= c.x + c.r
          /\ c.y - c.r <= q[2] /\ q[2] <= c.y + c.r
          /\ MirrorX(c, q) \in drawn' /\ MirrorY(c, q) \in drawn'
      <4>1. /\ c.x - x <= q[1] /\ q[1] <= c.x + x
            /\ c.y - x <= q[2] /\ q[2] <= c.y + x
            /\ InIter(c, x, y, MirrorX(c, q))
            /\ InIter(c, x, y, MirrorY(c, q))
        BY <1>1, <1>3, <2>3, IterMirror
      <4>2. c.x - c.r <= q[1] /\ q[1] <= c.x + c.r /\ c.y - c.r <= q[2] /\ q[2] <= c.y + c.r
        BY <1>1, <1>3, <2>3, <4>1 DEF InIter
      <4>3. MirrorX(c, q) \in drawn' /\ MirrorY(c, q) \in drawn'
        BY <1>6, <4>1
      <4>4. QED
        BY <4>2, <4>3
    <3>2. \/ /\ c.x - x <= Swap(c, q)[1] /\ Swap(c, q)[1] <= c.x + x
             /\ c.y - y + 1 <= Swap(c, q)[2] /\ Swap(c, q)[2] <= c.y + y - 1
          \/ InIter(c, x, y, Swap(c, q))
          \/ /\ \/ y + 1 <= q[1] - c.x /\ q[1] - c.x <= x'
                \/ y + 1 <= c.x - q[1] /\ c.x - q[1] <= x'
             /\ c.y - (y + 1) < q[2] /\ q[2] < c.y + (y + 1)
      <4>1. x \in Int /\ y \in Nat /\ y <= x /\ x' \in {x, x - 1}
        BY <1>1, <1>4
      <4>2. QED
        BY <1>3, <2>3, <4>1, IterSwap, Zenon
    <3>3. /\ Swap(c, q) = <<Swap(c, q)[1], Swap(c, q)[2]>>
          /\ Swap(c, q)[1] \in Int /\ Swap(c, q)[2] \in Int
      BY <1>3, <2>3 DEF Swap, InIter
    <3>4. (/\ c.x - x <= Swap(c, q)[1] /\ Swap(c, q)[1] <= c.x + x
           /\ c.y - y + 1 <= Swap(c, q)[2] /\ Swap(c, q)[2] <= c.y + y - 1)
          => Swap(c, q) \in drawn
      BY <1>7, <3>3
    <3>5. QED
      BY <1>6, <2>1, <3>1, <3>2, <3>4
  <2>4. QED
    BY <1>6, <2>2, <2>3
<1>11. 1 <= y' => Extremes(c) \subseteq drawn'
  <2>1. CASE 1 <= y
    BY <1>6, <1>7, <2>1
  <2>2. CASE y = 0
    <3>1. x = c.r
      BY <1>7, <2>2
    <3>2. \A q \in Extremes(c) : InIter(c, x, y, q)
      BY <1>2, <1>3, <2>2, <3>1 DEF Extremes, InIter
    <3>3. QED
      BY <1>6, <3>2
  <2>3. QED
    BY <1>1, <2>1, <2>2
<1>12. QED
  BY <1>1, <1>4, <1>7, <1>8, <1>9, <1>10, <1>11 DEF ShapeInv

(* Leaving the loop (x < y) leaves no pixel pending, so the finished      *)
(* circle has every property CircleShape asks for.                          *)
LEMMA CircleDoneShape ==
  ASSUME CirclesInside, LoopBounds, ShapeInv, CircleDone
  PROVE  CircleShape'
<1> DEFINE c == circ
<1>1. /\ pc = "circle" /\ pc' = "idle" /\ x < y
      /\ UNCHANGED <<circ, x, y, drawn, last>>
      /\ c \in Circles /\ x \in 0..c.r /\ y \in Nat
  BY DEF CircleDone, LoopBounds
<1>2. c \in [x : Coord, y : Coord, r : Coord] /\ 1 <= c.r
  BY <1>1, ShapeAssumption DEF CirclesInside
<1>3. /\ last = [op |-> "circle", arg |-> c]
      /\ drawn \subseteq Int \X Int
      /\ \A q \in drawn :
            /\ c.x - c.r <= q[1] /\ q[1] <= c.x + c.r
            /\ c.y - c.r <= q[2] /\ q[2] <= c.y + c.r
            /\ MirrorX(c, q) \in drawn /\ MirrorY(c, q) \in drawn
            /\ Swap(c, q) \in drawn \/ Pending(q)
      /\ 1 <= y => Extremes(c) \subseteq drawn
  BY <1>1 DEF ShapeInv
<1>4. Extremes(c) \subseteq drawn
  BY <1>1, <1>3
<1>5. \A q \in drawn : ~Pending(q)
  BY <1>1, <1>2, <1>3 DEF Pending, Coord
<1>6. \A q \in drawn : Swap(c, q) \in drawn
  BY <1>3, <1>5
<1>7. /\ c.r = 0 => drawn = {<<c.x, c.y>>}
      /\ \A p \in drawn : /\ c.x - c.r <= p[1] /\ p[1] <= c.x + c.r
                          /\ c.y - c.r <= p[2] /\ p[2] <= c.y + c.r
      /\ {<<c.x + c.r, c.y>>, <<c.x - c.r, c.y>>,
          <<c.x, c.y + c.r>>, <<c.x, c.y - c.r>>} \subseteq drawn
      /\ \A p \in drawn :
            /\ <<2 * c.x - p[1], p[2]>> \in drawn
            /\ <<p[1], 2 * c.y - p[2]>> \in drawn
            /\ <<c.x + p[2] - c.y, c.y + p[1] - c.x>> \in drawn
  <2>1. c.r = 0 => drawn = {<<c.x, c.y>>}
    BY <1>2 DEF Coord
  <2>2. \A p \in drawn : /\ c.x - c.r <= p[1] /\ p[1] <= c.x + c.r
                         /\ c.y - c.r <= p[2] /\ p[2] <= c.y + c.r
    BY <1>3
  <2>3. {<<c.x + c.r, c.y>>, <<c.x - c.r, c.y>>,
         <<c.x, c.y + c.r>>, <<c.x, c.y - c.r>>} \subseteq drawn
    BY <1>4 DEF Extremes
  <2>4. \A p \in drawn :
            /\ <<2 * c.x - p[1], p[2]>> \in drawn
            /\ <<p[1], 2 * c.y - p[2]>> \in drawn
            /\ <<c.x + p[2] - c.y, c.y + p[1] - c.x>> \in drawn
    BY <1>3, <1>6 DEF MirrorX, MirrorY, Swap
  <2>5. QED
    BY <2>1, <2>2, <2>3, <2>4
<1>8. QED
  BY <1>1, <1>3, <1>7 DEF CircleShape

(* The type and the loop bounds hold after a fill or a rectangle.          *)
LEMMA IdleCallKeeps ==
  ASSUME TypeOK, LoopBounds,
         \/ Fill
         \/ \E r \in Rects : DrawRect(r)
  PROVE  /\ TypeOK' /\ LoopBounds' /\ ShapeInv' /\ CircleShape'
         /\ last'.op \in {"fill", "rect"}
<1>1. /\ pc = "idle" /\ pc' = pc /\ x' = x /\ y' = y /\ t1' = t1
      /\ last'.op \in {"fill", "rect"}
      /\ oob' \in BOOLEAN
  <2>1. CASE Fill
    BY <2>1 DEF Fill, Plot
  <2>2. ASSUME NEW r \in Rects, DrawRect(r) PROVE
          /\ pc = "idle" /\ pc' = pc /\ x' = x /\ y' = y /\ t1' = t1
          /\ last'.op \in {"fill", "rect"}
          /\ oob' \in BOOLEAN
    BY <2>2 DEF DrawRect, Plot
  <2>3. QED
    BY <2>1, <2>2
<1>2. pc' \in {"idle", "circle"} /\ x' \in Int /\ y' \in Int /\ t1' \in Int
  BY <1>1 DEF TypeOK
<1>3. QED
  BY <1>1, <1>2 DEF TypeOK, LoopBounds, ShapeInv, CircleShape

(* Every step of the rasterizer keeps CInv for circles inside the canvas. *)
LEMMA ShapeStep ==
  ASSUME CirclesInside, CInv, [Next]_vars
  PROVE  CInv'
<1>0. TypeOK /\ LoopBounds /\ ShapeInv /\ CircleShape
  BY DEF CInv
<1>1. CASE Fill \/ \E r \in Rects : DrawRect(r)
  BY <1>0, <1>1, IdleCallKeeps DEF CInv
<1>2. ASSUME NEW c \in Circles, DrawCircle(c) PROVE CInv'
  <2>1. c \in [x : Coord, y : Coord, r : Coord]
    BY ShapeAssumption
  <2>2. /\ pc' = "circle" /\ circ' = c /\ x' = c.r /\ y' = 0 /\ drawn' = {}
        /\ last' = [op |-> "circle", arg |-> c] /\ t1' = c.r \div 16
        /\ oob' = oob
    BY <1>2 DEF DrawCircle
  <2>3. TypeOK'
    BY <1>0, <2>1, <2>2 DEF TypeOK, Coord
  <2>4. LoopBounds'
    BY <2>1, <2>2 DEF LoopBounds, Coord
  <2>5. ShapeInv'
    BY <2>1, <2>2 DEF ShapeInv, Coord
  <2>6. CircleShape'
    BY <2>2 DEF CircleShape
  <2>7. QED
    BY <2>3, <2>4, <2>5, <2>6 DEF CInv
<1>3. CASE CircleStep
  <2>1. LoopBounds'
    BY <1>0, <1>3, CircleStepBounds
  <2>2. ShapeInv'
    BY <1>0, <1>3, CircleStepShape
  <2>3. pc' \in {"idle", "circle"} /\ x' \in Int /\ y' \in Int /\ t1' \in Int
    <3>1. circ \in Circles /\ x \in 0..circ.r /\ y \in Nat /\ x >= y /\ t1 \in Int
      BY <1>0, <1>3 DEF CircleStep, LoopBounds, TypeOK
    <3>2. circ.r \in Coord
      BY <3>1, ShapeAssumption
    <3>3. QED
      BY <1>0, <1>3, <3>1, <3>2, CoordRange DEF CircleStep, TypeOK, U, NextY, Coord
  <2>4. oob' \in BOOLEAN
    BY <1>3 DEF CircleStep, Plot
  <2>5. CircleShape'
    BY <1>3 DEF CircleStep, CircleShape
  <2>6. QED
    BY <2>1, <2>2, <2>3, <2>4, <2>5 DEF CInv, TypeOK
<1>4. CASE CircleDone
  <2>1. CircleShape'
    BY <1>0, <1>4, CircleDoneShape
  <2>2. TypeOK' /\ LoopBounds' /\ ShapeInv'
    BY <1>0, <1>4 DEF CircleDone, TypeOK, LoopBounds, ShapeInv
  <2>3. QED
    BY <2>1, <2>2 DEF CInv
<1>5. CASE UNCHANGED vars
  <2>1. UNCHANGED <<canvas, pc, circ, x, y, t1, drawn, last, oob>>
    BY <1>5 DEF vars
  <2>2. TypeOK'
    BY <1>0, <2>1, Zenon DEF TypeOK
  <2>3. LoopBounds' /\ CircleShape'
    BY <1>0, <2>1 DEF LoopBounds, CircleShape
  <2>4. ShapeInv'
    BY <1>0, <2>1 DEF ShapeInv, Pending
  <2>5. QED
    BY <2>2, <2>3, <2>4 DEF CInv
<1>6. QED
  BY <1>1, <1>2, <1>3, <1>4, <1>5 DEF Next

(* For every coordinate width and canvas size, and every circle of radius *)
(* at least 1 inside the canvas, each finished rendering_draw_circle has   *)
(* drawn a figure inside the circle's box that reaches its four extreme    *)
(* points and is symmetric under both mirrors and the diagonal swap.       *)
THEOREM CircleDrawsItsShape == CirclesInside => (Spec => []CircleShape)
<1> SUFFICES ASSUME CirclesInside PROVE Spec => []CircleShape
  OBVIOUS
<1>1. Init => CInv
  <2> SUFFICES ASSUME Init PROVE CInv
    OBVIOUS
  <2>1. pc = "idle" /\ x = 0 /\ y = 0 /\ t1 = 0 /\ last.op = "none"
    BY DEF Init
  <2>2. oob \in BOOLEAN
    BY DEF Init
  <2>3. QED
    BY <2>1, <2>2 DEF CInv, TypeOK, LoopBounds, ShapeInv, CircleShape
<1>2. CInv /\ [Next]_vars => CInv'
  BY ShapeStep
<1>3. QED
  BY <1>1, <1>2, PTL DEF Spec, CInv
=============================================================================
