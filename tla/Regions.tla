------------------------------ MODULE Regions ------------------------------
(***************************************************************************)
(* Regions are lists of rectangles.  Whether two lists are the same region *)
(* is a question of the points they cover, while the code only works with  *)
(* the rectangles: it intersects them, cuts them up and brings them into   *)
(* bands.  Beside every list stands here the set of points it should be.   *)
(*                                                                         *)
(* The frame a guest draws around its window is not told to the emulator;  *)
(* it is guessed from the region the guest clips its border to, or from    *)
(* the shape it gives to the window.                                       *)
(***************************************************************************)
EXTENDS Integers, Sequences, SequencesExt, FiniteSetsExt

CONSTANTS
  RegionHandles, \* the regions of the guest
  WindowWidth, WindowHeight,
  Margin,     \* bound: how far regions may reach beyond the window
  DrawnRects, \* bound: the rectangles regions are made of
  Coverings,  \* bound: the windows that lie on the client area, children before siblings
  MaxOps      \* bound: calls after the regions were made

\* A rectangle is <<left, top, right, bottom>>.
RectOf(S, T) == S \X T \X S \X T
Rect == RectOf(Int, Int)

ASSUME RegionsAssumption ==
  /\ {WindowWidth, WindowHeight, Margin, MaxOps} \subseteq Nat
  /\ DrawnRects \subseteq RectOf(-Margin .. WindowWidth + Margin, -Margin .. WindowHeight + Margin)
  /\ \A wins \in Coverings :
       wins \in Seq([kind : {"child", "sibling"}, above : BOOLEAN, visible : BOOLEAN, rect : Rect])

VARIABLES
  region, \* GdiObject::Region of a handle: its rectangles
  pts,    \* the points it should cover
  frame,  \* guest_frame_left, _top, _right and _bottom, and guest_frame_exact
  border, \* the points of the region the frame was inferred from
  rgnOps  \* calls so far

regionVars == <<region, pts, frame, border, rgnOps>>

Plane == (-Margin .. WindowWidth + Margin - 1) \X (-Margin .. WindowHeight + Margin - 1)
HasPoint(r, x, y) == r[1] <= x /\ x < r[3] /\ r[2] <= y /\ y < r[4]
PointsOf(rects)    == {p \in Plane : \E r \in ToSet(rects) : HasPoint(r, p[1], p[2])}
Pieces(rects)      == \A i, j \in DOMAIN rects :
                        i # j => PointsOf(<<rects[i]>>) \cap PointsOf(<<rects[j]>>) = {}

----------------------------------------------------------------------------
(* Rectangles. *)

Greater(a, b) == IF a < b THEN b ELSE a
Lesser(a, b)  == IF a < b THEN a ELSE b

\* normalize_rect: no rectangle or one, as a list.
HasArea(r) == r[1] < r[3] /\ r[2] < r[4]
Normal(r)  == IF HasArea(r) THEN <<r>> ELSE <<>>

Common(a, b) ==
  <<Greater(a[1], b[1]), Greater(a[2], b[2]), Lesser(a[3], b[3]), Lesser(a[4], b[4])>>
IntersectRect(a, b) == Normal(Common(a, b))

\* Above and below over the whole width, left and right of the intersection.
SubtractRect(a, b) ==
  LET i == Common(a, b)
  IN IF ~HasArea(i) THEN <<a>>
     ELSE Normal(<<a[1], a[2], a[3], i[2]>>) \o Normal(<<a[1], i[4], a[3], a[4]>>)
            \o Normal(<<a[1], i[2], i[1], i[4]>>) \o Normal(<<i[3], i[2], a[3], i[4]>>)

CutOut(rects, b) == FlattenSeq([i \in DOMAIN rects |-> SubtractRect(rects[i], b)])

\* One rectangle after the other is cut out of what is left.
SubtractRegion(rects, subs) ==
  LET left[k \in 0 .. Len(subs)] == IF k = 0 THEN rects ELSE CutOut(left[k - 1], subs[k])
  IN left[Len(subs)]

\* The elements of a set in an order, a set of pairs; a list at some of its indices.
Ordered(S, order) ==
  [k \in 1 .. Cardinality(S) |->
     CHOOSE x \in S : Cardinality({y \in S : <<y, x>> \in order}) = k - 1]
LessIn(S)    == {p \in S \X S : p[1] < p[2]}
LexLessIn(S) ==
  {p \in S \X S : p[1][1] < p[2][1] \/ (p[1][1] = p[2][1] /\ p[1][2] < p[2][2])}
Kept(list, S) == LET is == Ordered(S, LessIn(S)) IN [k \in DOMAIN is |-> list[is[k]]]

\* An interval, or a band with its intervals xs.
Span(from, to, xs) == [from |-> from, to |-> to, xs |-> xs]

\* The loops that merge the intervals of a band, and the bands: sorted ones that touch or
\* overlap and have the same in them become one.  Bands never overlap.
WithSpan(done, s) ==
  LET last == done[Len(done)]
  IN IF done # <<>> /\ last.to >= s.from /\ last.xs = s.xs
     THEN [done EXCEPT ![Len(done)] = Span(last.from, Greater(last.to, s.to), s.xs)]
     ELSE Append(done, s)
Merged(spans) ==
  LET done[k \in 0 .. Len(spans)] == IF k = 0 THEN <<>> ELSE WithSpan(done[k - 1], spans[k])
  IN done[Len(spans)]

\* What a set of rectangles covers of a row that crosses them.
Intervals(rects) ==
  LET all  == {<<r[1], r[3]>> : r \in rects}
      ends == Ordered(all, LexLessIn(all))
  IN Merged([i \in DOMAIN ends |-> Span(ends[i][1], ends[i][2], <<>>)])

\* A band lies between two neighbouring horizontal edges.
Crossing(rects, y0, y1) == {r \in rects : r[2] <= y0 /\ y1 <= r[4]}
Bands(rects) ==
  LET edges == {r[2] : r \in rects} \cup {r[4] : r \in rects}
      ys == Ordered(edges, LessIn(edges))
      crossing(k) == Crossing(rects, ys[k], ys[k + 1])
      band == [k \in 1 .. Len(ys) - 1 |-> Span(ys[k], ys[k + 1], Intervals(crossing(k)))]
  IN Kept(band, {k \in 1 .. Len(ys) - 1 : crossing(k) # {}})

\* canonicalize_rects; CreateRectRgn and the copies may hold rectangles without points.
BandsOf(rects) == Merged(Bands({r \in ToSet(rects) : HasArea(r)}))
RectsOf(band) ==
  [i \in DOMAIN band.xs |-> <<band.xs[i].from, band.from, band.xs[i].to, band.to>>]
Canonical(rects) ==
  LET bands == BandsOf(rects) IN FlattenSeq([k \in DOMAIN bands |-> RectsOf(bands[k])])

EqualRgn(a, b) == Canonical(region[a]) = Canonical(region[b])

----------------------------------------------------------------------------
(* The calls. *)

NoFrame == [left |-> 0, top |-> 0, right |-> 0, bottom |-> 0, exact |-> FALSE]

CreateRectRgn(rect) == <<rect>>

RegionsInit ==
  /\ \E f \in [RegionHandles -> DrawnRects] :
       /\ region = [h \in RegionHandles |-> CreateRectRgn(f[h])]
       /\ pts = [h \in RegionHandles |-> PointsOf(<<f[h]>>)]
  /\ frame = NoFrame /\ border = {} /\ rgnOps = 0

OneMore == rgnOps < MaxOps /\ rgnOps' = rgnOps + 1

Modes == {"and", "or", "xor", "diff", "copy"}

\* What CombineRgn makes of the two lists; a copy is left as it is.  A mode that is
\* none of GDI's gives a rectangle around both in the code, and is left out.
Combined(r, s, mode) ==
  CASE mode = "and"  -> Canonical(FlattenSeq([i \in DOMAIN r |->
                          FlattenSeq([j \in DOMAIN s |-> IntersectRect(r[i], s[j])])]))
    [] mode = "or"   -> Canonical(r \o s)
    [] mode = "xor"  -> Canonical(SubtractRegion(r, s) \o SubtractRegion(s, r))
    [] mode = "diff" -> Canonical(SubtractRegion(r, s))
    [] mode = "copy" -> r

CombinedPoints(p, q, mode) ==
  CASE mode = "and" -> p \cap q
    [] mode = "or"  -> p \cup q
    [] mode = "xor" -> (p \ q) \cup (q \ p)
    [] mode = "diff" -> p \ q
    [] mode = "copy" -> p

CombineRgn(dst, a, b, mode) ==
  /\ OneMore
  /\ region' = [region EXCEPT ![dst] = Combined(region[a], region[b], mode)]
  /\ pts' = [pts EXCEPT ![dst] = CombinedPoints(pts[a], pts[b], mode)]
  /\ UNCHANGED <<frame, border>>

\* The children and the siblings of the window, in its own coordinates.
Covering(w) == w.visible /\ (w.kind = "child" \/ w.above)

\* build_client_clip_rects: what the base loses, one window after the other.
ClientClip(base, wins) ==
  LET covering == Kept(wins, {i \in DOMAIN wins : Covering(wins[i])})
  IN SubtractRegion(<<base>>, [i \in DOMAIN covering |-> covering[i].rect])

\* Mutant: siblings below the window cut its DC, too.
ClipAll(base, wins) == SubtractRegion(<<base>>, [i \in DOMAIN wins |-> wins[i].rect])

ClipOf(base, wins) == ClientClip(base, wins)

\* GetDC and BeginPaint with WS_CLIPCHILDREN and WS_CLIPSIBLINGS.
WindowRect == <<0, 0, WindowWidth, WindowHeight>>
CreateClientClipRegion(h, wins) ==
  /\ OneMore
  /\ region' = [region EXCEPT ![h] = ClipOf(WindowRect, wins)]
  /\ pts' = [pts EXCEPT ![h] =
               PointsOf(<<WindowRect>>)
                 \ UNION {PointsOf(<<wins[i].rect>>) : i \in {j \in DOMAIN wins : Covering(wins[j])}}]
  /\ UNCHANGED <<frame, border>>

\* longest_empty_interval of a row, the first of them: <<left, right>>, or none.
EmptyRuns(row) ==
  {v \in (0 .. WindowWidth) \X (0 .. WindowWidth) :
     /\ v[1] < v[2] /\ \A x \in v[1] .. v[2] - 1 : x \notin row
     /\ v[1] = 0 \/ v[1] - 1 \in row
     /\ v[2] = WindowWidth \/ v[2] \in row}
LongestEmpty(row) ==
  {v \in EmptyRuns(row) : \A u \in EmptyRuns(row) \ {v} :
     \/ u[2] - u[1] < v[2] - v[1]
     \/ u[2] - u[1] = v[2] - v[1] /\ v[1] < u[1]}

\* infer_guest_frame_from_clip_rects: rows next to each other with the same empty
\* interval, away from the edges, make a hole; the largest is the client area.
Gap(p, y) ==
  {v \in LongestEmpty({x \in 0 .. WindowWidth - 1 : <<x, y>> \in p}) : 0 < v[1] /\ v[2] < WindowWidth}
IsHole(p, top, bottom, v) == \A y \in top .. bottom - 1 : Gap(p, y) = {v}

Holes(p) ==
  {hole \in ((0 .. WindowWidth) \X (0 .. WindowWidth)) \X (0 .. WindowHeight) \X (0 .. WindowHeight) :
     /\ 0 < hole[2] /\ hole[2] < hole[3] /\ hole[3] < WindowHeight
     /\ IsHole(p, hole[2], hole[3], hole[1])
     /\ Gap(p, hole[2] - 1) # {hole[1]} /\ Gap(p, hole[3]) # {hole[1]}}
Area(hole) == (hole[1][2] - hole[1][1]) * (hole[3] - hole[2])
\* The last of the largest.
Largest(holes) ==
  {a \in holes : \A b \in holes \ {a} :
     Area(b) < Area(a) \/ (Area(b) = Area(a) /\ b[2] < a[2])}

InferFrame(rects) ==
  {[left |-> hole[1][1], top |-> hole[2], right |-> WindowWidth - hole[1][2],
    bottom |-> WindowHeight - hole[3], exact |-> TRUE] : hole \in Largest(Holes(PointsOf(rects)))}

\* SelectClipRgn on the DC of the whole window.
SelectWindowClip(h) ==
  /\ OneMore
  /\ LET guess == IF WindowWidth <= 2 \/ WindowHeight <= 2 THEN {} ELSE InferFrame(region[h])
     IN IF guess = {} THEN UNCHANGED <<frame, border>>
        ELSE frame' \in guess /\ border' = pts[h]
  /\ UNCHANGED <<region, pts>>

\* estimate_guest_frame_metrics: the corners of the shape are round, and the rows
\* that go from edge to edge begin below them.
FullRows(p) == {y \in 0 .. WindowHeight - 1 : <<0, y>> \in p /\ <<WindowWidth - 1, y>> \in p}
EstimateFrame(p) ==
  LET top    == Min(FullRows(p))
      bottom == WindowHeight - 1 - Max(FullRows(p))
      inset  == Lesser(top, bottom)
  IN
    IF FullRows(p) = {} \/ top <= 0 \/ bottom <= 0 \/ top - bottom \notin -2 .. 2 THEN NoFrame
    ELSE [left |-> inset, top |-> inset, right |-> inset, bottom |-> inset, exact |-> FALSE]

\* SetWindowRgn; without a region there is no frame, and an inferred one stays.
ShapeWindow(h) ==
  /\ OneMore
  /\ frame' = IF frame.exact THEN frame ELSE EstimateFrame(PointsOf(region[h]))
  /\ UNCHANGED <<region, pts, border>>

ClearWindowShape ==
  /\ OneMore
  /\ frame' = NoFrame /\ border' = {}
  /\ UNCHANGED <<region, pts>>

RegionsNext ==
  \/ \E dst, a, b \in RegionHandles, mode \in Modes : CombineRgn(dst, a, b, mode)
  \/ \E h \in RegionHandles :
       \/ SelectWindowClip(h) \/ ShapeWindow(h)
       \/ \E wins \in Coverings : CreateClientClipRegion(h, wins)
  \/ ClearWindowShape

RegionsSpec == RegionsInit /\ [][RegionsNext]_regionVars

----------------------------------------------------------------------------
(* Properties. *)

\* Whatever is combined, cut out and copied in whatever order, a region covers the
\* points it should, and no point twice: a brush that is not opaque shows twice.
CoversItsPoints ==
  \A h \in RegionHandles : PointsOf(region[h]) = pts[h] /\ Pieces(region[h])

\* Geometrically equal regions have the same canonical form, whatever rectangles they
\* were made of and in which order (drawing.rs:195), and EqualRgn tells the others.
EqualMeansSame ==
  \A a, b \in RegionHandles : EqualRgn(a, b) <=> pts[a] = pts[b]

\* The client area that was inferred from the border of a window is a hole in the
\* border: the guest draws no border where the emulator has its client area.
FrameIsAroundHole ==
  frame.exact =>
    \A x \in frame.left .. WindowWidth - frame.right - 1,
       y \in frame.top .. WindowHeight - frame.bottom - 1 : <<x, y>> \notin border

\* What the regions of the guest contain is what its calls say, EqualRgn tells apart
\* those with different points and no others, and the frame inferred from a region is
\* the hole in it.
RegionsExact == CoversItsPoints /\ EqualMeansSame /\ FrameIsAroundHole
============================================================================
