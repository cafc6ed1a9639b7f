--------------------------- MODULE ReferenceRoute ---------------------------
(***************************************************************************)
(* The immutable polyline of plan_manage/reference_route.cpp, in the plane *)
(* and in whole units: its segments run along the axes, so an arc length   *)
(* and the coordinates it stands for are integers.  A closed route has the *)
(* closing segment and unwrapped arc lengths, one lap after the other.     *)
(* The three trackers that follow such a polyline pay for their progress   *)
(* with the same movement credit.                                          *)
(***************************************************************************)
EXTENDS Integers, Sequences, FiniteSets, SequencesExt

CONSTANTS
  MaxRoutePoints,               \* max_sample_count
  MaxAdvance,                   \* max_projection_advance
  CreditScale, Deadband,        \* movement_credit_scale, movement_deadband
  InitialCredit

ASSUME RouteAssumption ==
  /\ MaxRoutePoints \in Nat \ {0, 1}
  /\ MaxAdvance \in Nat \ {0} /\ CreditScale \in Nat \ {0} /\ Deadband \in Nat
  /\ InitialCredit \in 0..MaxAdvance

Lesser(x, y)  == IF x < y THEN x ELSE y
Greater(x, y) == IF x > y THEN x ELSE y
Bounded(x, l, u) == Greater(l, Lesser(x, u))
Gap(x)        == IF x < 0 THEN -x ELSE x
Minus(p, q)   == <<p[1] - q[1], p[2] - q[2]>>
Dot(u, v)     == u[1] * v[1] + u[2] * v[2]
Square(p, q)  == Dot(Minus(p, q), Minus(p, q))
(* Of a segment along an axis.                                             *)
Leg(p, q)     == Gap(p[1] - q[1]) + Gap(p[2] - q[2])
Unit(n)       == IF n > 0 THEN 1 ELSE IF n < 0 THEN -1 ELSE 0
Direction(p, q) == <<Unit(q[1] - p[1]), Unit(q[2] - p[2])>>

-----------------------------------------------------------------------------
(* The constructor: repeated points go, and the repeated end of a loop.    *)
Distinct(points) ==
  FoldLeft(LAMBDA kept, p : IF kept # <<>> /\ Last(kept) = p THEN kept ELSE Append(kept, p),
           <<>>, points)
Cleaned(points, closed) ==
  IF closed /\ Len(Distinct(points)) >= 2 /\ Head(Distinct(points)) = Last(Distinct(points))
  THEN Front(Distinct(points)) ELSE Distinct(points)

RouteAccepted(points, closed) ==
  /\ Len(points) \in 2..MaxRoutePoints
  /\ Len(Cleaned(points, closed)) >= IF closed THEN 3 ELSE 2

RouteOf(points, closed) ==
  LET pts == Cleaned(points, closed)
      cum[i \in 1..Len(pts)] == IF i = 1 THEN 0 ELSE cum[i - 1] + Leg(pts[i - 1], pts[i])
  IN  [pts |-> pts, cum |-> cum, closed |-> closed,
       total |-> cum[Len(pts)] + IF closed THEN Leg(Last(pts), Head(pts)) ELSE 0]

-----------------------------------------------------------------------------
NormalizeRouteS(r, s) == IF r.closed THEN s % r.total ELSE Bounded(s, 0, r.total)

(* The segments of the first lap: the last of a closed route is its seam.  *)
Segments(r)      == 1..(Len(r.pts) - IF r.closed THEN 0 ELSE 1)
NextVertex(r, i) == r.pts[IF i < Len(r.pts) THEN i + 1 ELSE 1]
SegmentEnd(r, i) == IF i < Len(r.pts) THEN r.cum[i + 1] ELSE r.total

(* The last segment that begins no later than s.                           *)
SegmentIndex(r, s) ==
  CHOOSE i \in Segments(r) : /\ r.cum[i] <= NormalizeRouteS(r, s)
                             /\ i + 1 \in Segments(r) => NormalizeRouteS(r, s) < r.cum[i + 1]

TangentAt(r, s) == LET i == SegmentIndex(r, s) IN Direction(r.pts[i], NextVertex(r, i))
PointAt(r, s) ==
  LET i == SegmentIndex(r, s)
      d == Direction(r.pts[i], NextVertex(r, i))
      a == NormalizeRouteS(r, s) - r.cum[i]
  IN  <<r.pts[i][1] + a * d[1], r.pts[i][2] + a * d[2]>>

(* A stretch of one segment, from arc length a to b, seen from p: the arc  *)
(* length of its nearest point.                                            *)
Nearest(r, a, b, p) ==
  LET d == Direction(PointAt(r, a), PointAt(r, b))
  IN  a + Bounded(Dot(Minus(p, PointAt(r, a)), d), 0, b - a)

-----------------------------------------------------------------------------
(* sampleRange: the raster, the exact end and every vertex of the range.   *)
VerticesWithin(r, start, end) ==
  {s \in start..end : \E i \in DOMAIN r.pts :
     IF r.closed THEN NormalizeRouteS(r, s) = r.cum[i] ELSE s = r.cum[i]}
SampledAt(r, start, end, spacing) ==
  {s \in start..end : (s - start) % spacing = 0} \cup {end} \cup VerticesWithin(r, start, end)

SampleStatus(r, start, end, spacing) ==
  IF end < start THEN "invalid_input"
  ELSE IF ~r.closed /\ (start < 0 \/ end > r.total) THEN "out_of_range"
  ELSE IF \/ (end - start + spacing - 1) \div spacing + 1 > MaxRoutePoints
          \/ Cardinality(VerticesWithin(r, start, end)) > MaxRoutePoints
          \/ Cardinality(SampledAt(r, start, end, spacing)) > MaxRoutePoints
       THEN "resource_limit" ELSE "success"
SampleRange(r, start, end, spacing) ==
  LET samples == SampledAt(r, start, end, spacing)
  IN  [k \in 1..Cardinality(samples) |->
         CHOOSE s \in samples : Cardinality({u \in samples : u < s}) = k - 1]

-----------------------------------------------------------------------------
(* Trackers have fields route, last (the pose credited last), progress and *)
(* credit.  Motion is credited once it exceeds the deadband.               *)
Root(n) == CHOOSE k \in 0..n : k * k <= n /\ n < (k + 1) * (k + 1)
Moved(t, at) == Square(at, t.last) >= Deadband * Deadband /\ at # t.last

(* Faulty variant: the pose that was credited is not remembered.           *)
CreditedAgain(t, at) ==
  IF Moved(t, at)
  THEN [t EXCEPT !.credit = Lesser(MaxAdvance, @ + CreditScale * Root(Square(at, t.last)))]
  ELSE t

Credited(t, at) ==
  IF Moved(t, at)
  THEN [t EXCEPT !.credit = Lesser(MaxAdvance, @ + CreditScale * Root(Square(at, t.last))),
                 !.last = at]
  ELSE t

(* The search of the trackers of an open polyline.  The window is as long  *)
(* as the credit; a later point has to be nearer to the robot than all     *)
(* before.                                                                 *)
WindowEnd(t) == Lesser(t.route.total, t.progress + Lesser(MaxAdvance, t.credit))
InWindow(t)  == {i \in Segments(t.route) : t.route.cum[i] <= WindowEnd(t)
                                           /\ SegmentEnd(t.route, i) >= t.progress}
Projections(t, at) ==
  {t.progress} \cup
  {Nearest(t.route, Greater(t.progress, t.route.cum[i]), Lesser(WindowEnd(t), SegmentEnd(t.route, i)), at)
     : i \in InWindow(t)}
Projection(t, at) ==
  LET ranked == {<<Square(PointAt(t.route, s), at), s>> : s \in Projections(t, at)}
      nearest == CHOOSE r \in ranked : \A q \in ranked :
                   r[1] < q[1] \/ (r[1] = q[1] /\ r[2] <= q[2])
  IN  nearest[2]
Advanced(t, s) == [t EXCEPT !.progress = s, !.credit = Greater(0, @ - (s - t.progress))]

(* update of such a tracker.                                               *)
Projected(t, at) ==
  CHOOSE u \in {Advanced(c, Projection(c, at)) : c \in {Credited(t, at)}} : TRUE
=============================================================================
