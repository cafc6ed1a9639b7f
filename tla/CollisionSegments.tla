------------------------- MODULE CollisionSegments -------------------------
(***************************************************************************)
(* How the spline optimiser (bspline_optimizer.cpp) turns collisions into  *)
(* directions for its control points.  A sweep marks segments of control   *)
(* points with an obstacle between them: initControlPoints sweeps samples  *)
(* between the points, check_collision_and_rebound the points themselves.  *)
(* A path around the obstacle is searched for each segment, and the points *)
(* of a segment take directions from where they meet its path or from      *)
(* their neighbours.                                                       *)
(***************************************************************************)
EXTENDS Integers, Sequences, FiniteSets, FiniteSetsExt, SequencesExt

CONSTANTS Points,       \* control points
          Samples       \* samples from one control point to the next

ASSUME SegmentAssumption == Points \in Nat /\ Points >= 9 /\ Samples \in Nat \ {0}

VARIABLES
  sweep,                \* the sweep of initControlPoints
  segs,                 \* what was found: segments, or obstacles without an end
  paths,                \* the segments that paths were found for, in order
  aimed,                \* control points with a direction
  todo                  \* the stage and the next segment

segVars == <<sweep, segs, paths, aimed, todo>>

Order == 3
EnoughInterval == 2
Ids == 0..(Points - 1)
Blocked == <<-1, -1>>

NoSweep == [read |-> << >>, in |-> -1, out |-> -1, same |-> EnoughInterval + 1,
            start |-> FALSE, maybe |-> FALSE]

(* Either sweep; before a rebound the points may have directions already.  *)
SegInit ==
  /\ sweep = NoSweep /\ segs = << >> /\ paths = << >>
  /\ todo \in [at : {"sweep", "check"}, next : {1}, undefined : {FALSE}, first : BOOLEAN]
  /\ todo.first = (todo.at = "sweep")
  /\ aimed = {}

-----------------------------------------------------------------------------
(* initControlPoints, over the near two thirds of the points.              *)
SweepEnd == Points - Order - (Points - 2 * Order) \div 3
SweepLength == (SweepEnd - Order + 1) * Samples
Interval(n) == Order + (n - 1) \div Samples

(* Faulty variant: a short gap in an obstacle still counts as its end.     *)
LeftForGood(begins, leaves) == sweep.maybe \/ leaves

(* Whether the obstacle may have ended; it has not if it begins again.     *)
MayHaveLeft(begins, leaves) == ~begins /\ (sweep.maybe \/ leaves)

SweepSample(occ) ==
  LET n      == Len(sweep.read) + 1
      i      == Interval(n)
      was    == n > 1 /\ sweep.read[n - 1]
      begins == occ /\ ~was
      leaves == ~occ /\ was
      same   == IF begins \/ leaves THEN 0 ELSE Min({sweep.same + 1, EnoughInterval + 1})
      new    == begins /\ (sweep.same > EnoughInterval \/ i = Order)
      in     == IF new THEN i - 1 ELSE sweep.in
      out    == IF leaves THEN i ELSE sweep.out
      ends   == MayHaveLeft(begins, leaves) /\ (same > EnoughInterval \/ i = Points - Order)
      closes == (sweep.start \/ new) /\ ends
  IN  /\ sweep' = [read |-> Append(sweep.read, occ), in |-> in, out |-> out, same |-> same,
                   start |-> (sweep.start \/ new) /\ ~closes,
                   maybe |-> MayHaveLeft(begins, leaves) /\ ~ends]
      /\ segs' = IF closes /\ in >= 0 /\ out >= in THEN Append(segs, <<in, out>>) ELSE segs

InitControlPointsSweep ==
  /\ todo.at = "sweep"
  /\ \E occ \in BOOLEAN : SweepSample(occ)
  /\ todo' = [todo EXCEPT !.at = IF Len(sweep'.read) = SweepLength THEN "search" ELSE @]
  /\ UNCHANGED <<paths, aimed>>

-----------------------------------------------------------------------------
(* check_collision_and_rebound: an occupied point that its directions do   *)
(* not keep away yet opens a segment from the last free point before it to *)
(* the first free one behind it.                                           *)
CheckEnd == (Points - Order) - (Points - 2 * Order) \div 3

Before(occ, i) == {j \in Ids : j < i /\ j \notin occ}
After(occ, i) == {j \in Ids : j > i /\ j \notin occ}
SegmentAt(occ, i) ==
  <<IF Before(occ, i) = {} THEN 0 ELSE Max(Before(occ, i)), Min(After(occ, i))>>

Found(occ, new) ==
  LET from[i \in (Order - 1)..(Points + 1)] ==
        IF i > CheckEnd THEN << >>
        ELSE IF i \notin new THEN from[i + 1]
        ELSE IF After(occ, i) = {} THEN <<Blocked>>
        ELSE <<SegmentAt(occ, i)>> \o from[Min(After(occ, i)) + 2]
  IN  from[Order - 1]

CheckCollisions ==
  /\ todo.at = "check"
  /\ \E occ \in SUBSET Ids, new \in SUBSET ((Order - 1)..CheckEnd) :
       /\ new \subseteq occ
       /\ segs' = Found(occ, new)
  /\ todo' = [todo EXCEPT !.at = IF Blocked \in ToSet(segs') THEN "failed" ELSE "search"]
  /\ UNCHANGED <<sweep, paths, aimed>>

-----------------------------------------------------------------------------
(* The A* search of each segment.                                          *)
Searching == todo.at = "search" /\ todo.next <= Len(segs)

PathFound ==
  /\ Searching
  /\ paths' = Append(paths, segs[todo.next]) /\ todo' = [todo EXCEPT !.next = @ + 1]
  /\ UNCHANGED <<sweep, segs, aimed>>

(* A path of one cell.                                                     *)
PathTooShort ==
  /\ Searching
  /\ IF todo.first THEN todo' = [todo EXCEPT !.at = "failed"] /\ UNCHANGED segs
     ELSE segs' = RemoveAt(segs, todo.next) /\ UNCHANGED todo
  /\ UNCHANGED <<sweep, paths, aimed>>

(* Faulty variant: the merged segment is not searched.                     *)
MergeAndGoOn ==
  /\ Searching /\ ~todo.first /\ todo.next < Len(segs)
  /\ segs' = RemoveAt([segs EXCEPT ![todo.next][2] = segs[todo.next + 1][2]], todo.next + 1)
  /\ todo' = [todo EXCEPT !.next = @ + 1]
  /\ UNCHANGED <<sweep, paths, aimed>>

(* No way between the ends of this segment: it is merged with the next.    *)
MergeWithNext ==
  /\ Searching /\ ~todo.first /\ todo.next < Len(segs)
  /\ segs' = RemoveAt([segs EXCEPT ![todo.next][2] = segs[todo.next + 1][2]], todo.next + 1)
  /\ UNCHANGED <<sweep, paths, aimed, todo>>

SearchFails ==
  /\ Searching /\ todo' = [todo EXCEPT !.at = "failed"]
  /\ UNCHANGED <<sweep, segs, paths, aimed>>

SearchDone ==
  /\ todo.at = "search" /\ todo.next > Len(segs)
  /\ todo' = [todo EXCEPT !.at = "assign", !.next = 1]
  /\ UNCHANGED <<sweep, segs, paths, aimed>>

-----------------------------------------------------------------------------
(* The points that may meet the path; between neighbours it is the first.  *)
MayMeet(s) ==
  ((s[1] + 1)..(s[2] - 1)) \cup IF todo.first /\ s[2] - s[1] = 1 THEN {s[1]} ELSE {}

(* In this order, a point that did not meet the path takes the last        *)
(* direction of the neighbour before it, which is undefined if it has none.*)
Inherit(r, ids, met, side) ==
  FoldLeft(LAMBDA acc, j : IF j \in met THEN acc
                           ELSE [aimed     |-> acc.aimed \cup {j},
                                 undefined |-> acc.undefined \/ j - side \notin acc.aimed],
           r, ids)

Upwards(a, b)   == [k \in 1..(b - a + 1) |-> a + k - 1]
Downwards(a, b) == [k \in 1..(a - b + 1) |-> a - k + 1]

(* Outwards from the last point that met the path.                         *)
AssignDirections ==
  /\ todo.at = "assign" /\ todo.next <= Len(segs)
  /\ \E met \in SUBSET MayMeet(segs[todo.next]) :
       LET s  == segs[todo.next]
           up == Inherit([aimed |-> aimed \cup met, undefined |-> todo.undefined],
                         Upwards(Max(met) + 1, s[2]), met, 1)
           both == Inherit(up, Downwards(Max(met) - 1, s[1]), met, -1)
       IN  IF met = {} THEN UNCHANGED aimed /\ todo' = [todo EXCEPT !.next = @ + 1]
           ELSE /\ aimed' = both.aimed
                /\ todo' = [todo EXCEPT !.next = @ + 1, !.undefined = both.undefined]
  /\ UNCHANGED <<sweep, segs, paths>>

SegNext ==
  \/ InitControlPointsSweep \/ CheckCollisions
  \/ PathFound \/ PathTooShort \/ MergeWithNext \/ SearchFails \/ SearchDone
  \/ AssignDirections

SegSpec == SegInit /\ [][SegNext]_segVars

-----------------------------------------------------------------------------
(* Properties.                                                             *)

GapFrom(m) ==
  m + EnoughInterval + 1 <= Len(sweep.read)
    /\ \A k \in m..(m + EnoughInterval + 1) : ~sweep.read[k]

(* Every collision the sweep read, once it has read a long enough gap      *)
(* behind it, lies within a segment, however many short gaps and other     *)
(* obstacles came in between.                                              *)
CollisionsAreSegmented ==
  todo.first =>
    \A n \in 1..Len(sweep.read) :
      sweep.read[n] /\ (\E m \in (n + 1)..Len(sweep.read) : GapFrom(m)) =>
        \E s \in ToSet(segs) : s[1] < Interval(n) /\ Interval(n) <= s[2]

(* Directions are taken from the path of the segment they are for, however *)
(* segments were dropped and merged during the search, and never from a    *)
(* neighbour that has none.                                                *)
DirectionsFollowPaths ==
  /\ \A n \in 1..Len(paths) : n <= Len(segs) /\ paths[n] = segs[n]
  /\ todo.at = "assign" => Len(paths) = Len(segs)
  /\ ~todo.undefined

(* Every collision is answered by a direction from a way around it         *)
(* (bspline_optimizer.cpp:130-330, 870-1100).                              *)
CollisionsAnswered == CollisionsAreSegmented /\ DirectionsFollowPaths
=============================================================================
