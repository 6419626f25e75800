------------------------------- MODULE Raster -------------------------------
(***************************************************************************)
(* Drawing on the surface of a window.  Each call draws twice: at once on  *)
(* the pixels of the CPU, inside the clip of the DC, and a second time, as *)
(* operations for the GPU, on the texture that shows the window.           *)
(*                                                                         *)
(* Lines are not clipped on the GPU, the sides of a rectangle without      *)
(* points are left out there, a blit whose source lies partly outside its  *)
(* bitmap is scaled, and what StretchBlt scales is filtered: after these   *)
(* the texture only comes near the pixels, until the whole bitmap is       *)
(* uploaded when the DC is released (module Surface).                      *)
(***************************************************************************)
EXTENDS Integers, Sequences

CONSTANTS
  Width, Height,
  Dcs,      \* the DCs of the window: clip rectangles and origin
  Rects,    \* bound: the rectangles of the calls, <<left, top, right, bottom>>
  Ends,     \* bound: the points of the calls
  Colours,
  Source,   \* a memory bitmap: its rows of pixels
  MaxDraws  \* bound: calls

\* A clip is a list of rectangles; a rectangle has four coordinates, a point two.
ASSUME RasterAssumption ==
  /\ Width \in Nat /\ Height \in Nat
  /\ Rects \subseteq Int \X Int \X Int \X Int
  /\ Ends \subseteq Int \X Int
  /\ \A d \in Dcs : /\ d.ox \in Int /\ d.oy \in Int
                    /\ d.clip \in Seq(Int \X Int \X Int \X Int)

VARIABLES
  dc,      \* the DC of the calls
  current, \* where its next line begins
  pixels,  \* the bitmap of the CPU
  tex,     \* the texture after the operations queued so far
  approx,  \* the GPU was given something it repeats approximately
  unclipped, \* the last call takes no notice of the clip
  draws    \* calls so far

rasterVars == <<dc, current, pixels, tex, approx, unclipped, draws>>

Cells == (0 .. Width - 1) \X (0 .. Height - 1)
NoColour == -1

Inside(p, r) == r[1] <= p[1] /\ p[1] < r[3] /\ r[2] <= p[2] /\ p[2] < r[4]
InClip(p)    == \E i \in DOMAIN dc.clip : Inside(p, dc.clip[i])
OnSurface(r) == <<r[1] + dc.ox, r[2] + dc.oy, r[3] + dc.ox, r[4] + dc.oy>>

Highest(a, b) == IF a < b THEN b ELSE a
Lowest(a, b)  == IF a < b THEN a ELSE b
Abs(a)        == Highest(a, -a)

----------------------------------------------------------------------------
(* What GdiRenderer does to pixels. *)

Painted(p, cells, c) == [q \in Cells |-> IF q \in cells THEN c ELSE p[q]]

\* intersect_rect_with_clip_rects, then draw_rect without a pen for each of them.
Clipped(r) ==
  {<<Highest(r[1], k[1]), Highest(r[2], k[2]), Lowest(r[3], k[3]), Lowest(r[4], k[4])>> :
     k \in {dc.clip[i] : i \in DOMAIN dc.clip}}
CellsOf(rects) == {q \in Cells : \E r \in rects : Inside(q, r)}
FillClipped(p, r, c) == Painted(p, CellsOf(Clipped(r)), c)

\* The points of draw_line: one turn of its loop, and all of them.
Ahead(s, dx, dy, sx, sy) ==
  LET across == 2 * s.err > -dy
      down   == 2 * s.err < dx
  IN [at  |-> <<IF across THEN s.at[1] + sx ELSE s.at[1],
                IF down THEN s.at[2] + sy ELSE s.at[2]>>,
      err |-> s.err - (IF across THEN dy ELSE 0) + (IF down THEN dx ELSE 0)]

Walk(a, dx, dy, sx, sy) ==
  LET walk[i \in 0 .. Highest(dx, dy)] ==
        IF i = 0 THEN [at |-> a, err |-> dx - dy] ELSE Ahead(walk[i - 1], dx, dy, sx, sy)
  IN walk

Line(a, b) ==
  LET dx == Abs(b[1] - a[1])
      dy == Abs(b[2] - a[2])
      sx == IF a[1] < b[1] THEN 1 ELSE -1
      sy == IF a[2] < b[2] THEN 1 ELSE -1
  IN {Walk(a, dx, dy, sx, sy)[i].at : i \in 0 .. Highest(dx, dy)}

\* draw_line_clipped
LineClipped(p, a, b, c) == Painted(p, {q \in Line(a, b) : InClip(q)}, c)

\* draw_rect_clipped: the brush, then the pen along the four sides.
RectClipped(p, r, pen, brush) ==
  LET filled == IF brush = NoColour THEN p ELSE FillClipped(p, r, brush)
      side(q, a, b) == LineClipped(q, a, b, pen)
      x == r[3] - 1
      y == r[4] - 1
  IN
    IF pen = NoColour THEN filled
    ELSE side(side(side(side(filled, <<r[1], r[2]>>, <<x, r[2]>>), <<r[1], y>>, <<x, y>>),
                   <<r[1], r[2]>>, <<r[1], y>>), <<x, r[2]>>, <<x, y>>)

\* The sides as rectangles, for the GPU.
Sides(r) ==
  {<<r[1], r[2], r[3], r[2] + 1>>, <<r[1], r[4] - 1, r[3], r[4]>>,
   <<r[1], r[2], r[1] + 1, r[4]>>, <<r[3] - 1, r[2], r[3], r[4]>>}

\* Mutant: the right and the lower side are one too far out.
OuterSides(r) ==
  {<<r[1], r[2], r[3], r[2] + 1>>, <<r[1], r[4], r[3], r[4] + 1>>,
   <<r[1], r[2], r[1] + 1, r[4]>>, <<r[3], r[2], r[3] + 1, r[4]>>}

GpuSides(r) == Sides(r)

\* queue_surface_bitmap_rect_upload: the pixels of the CPU in this rectangle.
Upload(r, new) == [q \in Cells |-> IF Inside(q, r) THEN new[q] ELSE tex[q]]

----------------------------------------------------------------------------
(* The calls. *)

RasterInit ==
  /\ dc \in Dcs /\ current = <<0, 0>>
  /\ pixels = [q \in Cells |-> 0] /\ tex = pixels
  /\ approx = FALSE /\ unclipped = FALSE /\ draws = 0

Drew(newPixels, newTex, near) ==
  /\ draws < MaxDraws
  /\ draws' = draws + 1
  /\ pixels' = newPixels /\ tex' = newTex
  /\ approx' = (approx \/ near)
  /\ UNCHANGED dc

\* FillRect, and PatBlt with the brush, black or white.
FillRect(r, c) ==
  /\ Drew(FillClipped(pixels, OnSurface(r), c), FillClipped(tex, OnSurface(r), c), FALSE)
  /\ unclipped' = FALSE /\ UNCHANGED current

PatBlt(r, c) == FillRect(r, c)

\* The lines of a rectangle without points are drawn, running backwards; those of
\* its sides that have no points themselves are not queued.
HasPoints(r) == r[1] < r[3] /\ r[2] < r[4]

Rectangle(rect, pen, brush) ==
  LET r      == OnSurface(rect)
      filled == IF brush = NoColour THEN tex ELSE FillClipped(tex, r, brush)
      sides  == UNION {Clipped(s) : s \in GpuSides(r)}
  IN
    /\ Drew(RectClipped(pixels, r, pen, brush),
            IF pen = NoColour THEN filled ELSE Painted(filled, CellsOf(sides), pen),
            pen # NoColour /\ ~HasPoints(rect))
    /\ unclipped' = FALSE /\ UNCHANGED current

MoveToEx(p) ==
  /\ current' = p
  /\ UNCHANGED <<dc, pixels, tex, approx, unclipped, draws>>

LineTo(p, c) ==
  LET a == <<current[1] + dc.ox, current[2] + dc.oy>>
      b == <<p[1] + dc.ox, p[2] + dc.oy>>
  IN
    /\ Drew(LineClipped(pixels, a, b, c), Painted(tex, Line(a, b), c), TRUE)
    /\ current' = p /\ unclipped' = FALSE

\* SetPixel does not ask for the clip, here or there.
SetPixel(p, c) ==
  LET cell == {<<p[1] + dc.ox, p[2] + dc.oy>>}
  IN
    /\ Drew(Painted(pixels, cell, c), Painted(tex, cell, c), FALSE)
    /\ unclipped' = TRUE /\ UNCHANGED current

\* BitBlt with SRCCOPY, or with another operation, for which the GPU gets the result.
SourceAt(x, y) ==
  IF y + 1 \in DOMAIN Source /\ x + 1 \in DOMAIN Source[1] THEN Source[y + 1][x + 1]
  ELSE NoColour

Blitted(p, r, x, y) ==
  [q \in Cells |->
     LET c == SourceAt(x + q[1] - r[1], y + q[2] - r[2])
     IN IF Inside(q, r) /\ InClip(q) /\ c # NoColour THEN c ELSE p[q]]

BitBlt(rect, x, y, copies) ==
  LET r   == OnSurface(rect)
      new == Blitted(pixels, r, x, y)
      cut == \E q \in Cells :
               Inside(q, r) /\ SourceAt(x + q[1] - r[1], y + q[2] - r[2]) = NoColour
  IN
    /\ Drew(new, IF copies THEN Blitted(tex, r, x, y) ELSE Upload(r, new), copies /\ cut)
    /\ unclipped' = FALSE /\ UNCHANGED current

\* BitBlt that only fills uploads what it filled.
BitBltFills(rect, c) ==
  LET new == FillClipped(pixels, OnSurface(rect), c)
  IN
    /\ Drew(new, Upload(OnSurface(rect), new), FALSE)
    /\ unclipped' = FALSE /\ UNCHANGED current

\* StretchBlt and StretchDIBits: the nearest pixel of the source, also mirrored; a
\* picture without points is left alone.
Scaled(i, dst, src) ==
  IF dst > 0 THEN (i * src) \div dst ELSE ((Abs(dst) - 1 - i) * src) \div Abs(dst)
Held(i, n) == Highest(0, Lowest(i, n - 1))

Stretched(p, r, w, h) ==
  [q \in Cells |->
     LET x == Held(Scaled(q[1] - r[1], w, Len(Source[1])), Len(Source[1]))
         y == Held(Scaled(q[2] - r[2], h, Len(Source)), Len(Source))
     IN IF Inside(q, r) /\ InClip(q) THEN SourceAt(x, y) ELSE p[q]]

\* Mutant: only the rectangle is asked, not the clip.
Unclipped(p, r, w, h) ==
  [q \in Cells |->
     LET x == Held(Scaled(q[1] - r[1], w, Len(Source[1])), Len(Source[1]))
         y == Held(Scaled(q[2] - r[2], h, Len(Source)), Len(Source))
     IN IF Inside(q, r) THEN SourceAt(x, y) ELSE p[q]]

Stretch(p, r, w, h) == Stretched(p, r, w, h)

StretchBlt(rect, flip) ==
  LET r == OnSurface(rect)
      w == IF flip THEN r[1] - r[3] ELSE r[3] - r[1]
      new == Stretch(pixels, r, w, r[4] - r[2])
  IN
    /\ HasPoints(rect)
    /\ Drew(new, Upload(r, new), TRUE)
    /\ unclipped' = FALSE /\ UNCHANGED current

\* A rectangle given from right to left.
Turned(r) == <<r[3], r[2], r[1], r[4]>>

RasterNext ==
  \/ \E r \in Rects, c \in Colours :
       \/ FillRect(r, c) \/ PatBlt(r, c) \/ BitBltFills(r, c)
       \/ \E s \in {r, Turned(r)}, brush \in {NoColour, 0} : Rectangle(s, c, brush)
       \/ Rectangle(r, NoColour, c)
  \/ \E p \in Ends, c \in Colours : LineTo(p, c) \/ SetPixel(p, c)
  \/ \E p \in Ends : MoveToEx(p)
  \/ \E r \in Rects, x, y \in {-1, 0}, copies \in BOOLEAN : BitBlt(r, x, y, copies)
  \/ \E r \in Rects, flip \in BOOLEAN : StretchBlt(r, flip)

RasterSpec == RasterInit /\ [][RasterNext]_rasterVars

----------------------------------------------------------------------------
(* Properties. *)

\* Fills, frames and copies come out on the GPU as they did on the CPU, those of empty
\* and of reversed rectangles included: the texture has the pixels of the bitmap unless
\* something was drawn that it only approximates, which is a line, a scaled blit, one
\* from partly outside its source, or the frame of an empty or reversed rectangle.
GpuRepeats == ~approx => tex = pixels

\* No call draws outside the clip of its DC, wherever its rectangle, line or picture
\* lies and however it is scaled; SetPixel, which never asks for the clip, excepted.
StaysInClip     == ~unclipped' => \A q \in Cells : InClip(q) \/ pixels'[q] = pixels[q]
DrawsInsideClip == [][StaysInClip]_rasterVars
============================================================================
