--------------------------- MODULE MergeReference ---------------------------
(***************************************************************************)
(* MergeReferenceBuilder::build: the seed of a plan that leads the robot   *)
(* from beside its route back to it.  The merge ends clear of the corners  *)
(* of the route; the seed is then sampled, faded and judged, while one     *)
(* deadline of the planning cycle may pass at any time.  What the fade     *)
(* does to the points is left out: it may or may not be too sharp.         *)
(***************************************************************************)
EXTENDS ReferenceRoute

CONSTANTS
  MergeRoutes,          \* [points, closed]
  MinForward, MaxForward, Clearance, Extensions, Spacing, MaxSamples,
  MergeRange            \* the arc lengths between which seeds are asked for

ASSUME MergeAssumption ==                 \* validConfig
  /\ MaxForward \in Nat /\ MinForward \in 1..MaxForward
  /\ {Clearance, Extensions, Spacing} \subseteq Nat \ {0}
  /\ MaxSamples \in Nat \ {0, 1}
  /\ MergeRange \subseteq Int
  /\ \A m \in MergeRoutes : m.points \in Seq(Int \X Int) /\ m.closed \in BOOLEAN

VARIABLE merge          \* the build: its input, how far it is, its result

SideOffsets == {"none", "beside", "too far"}

(* Corners of a route along the axes: where it turns, or turns back.       *)
SharpVertices(r) ==
  {r.cum[i] : i \in {j \in DOMAIN r.pts :
     /\ ~r.closed => j \in 2..Len(r.pts) - 1
     /\ Direction(r.pts[IF j = 1 THEN Len(r.pts) ELSE j - 1], r.pts[j])
          # Direction(r.pts[j], NextVertex(r, j))}}

(* Those of a closed route return on every lap.                            *)
SharpCorners(r, s) ==
  IF r.closed
  THEN {v + lap * r.total : v \in SharpVertices(r),
                            lap \in (s \div r.total) - 1 .. (s \div r.total) + 1}
  ELSE SharpVertices(r)
CornersWithin(r, s, clearance) == {c \in SharpCorners(r, s) : Gap(c - s) <= clearance}
NearestCorner(r, s) ==
  LET near == CornersWithin(r, s, Clearance)
  IN  CHOOSE c \in near : \A d \in near :
        \/ Gap(c - s) < Gap(d - s)
        \/ Gap(c - s) = Gap(d - s) /\ NormalizeRouteS(r, c) <= NormalizeRouteS(r, d)

Done(status) == merge' = [merge EXCEPT !.phase = "done", !.status = status]

MergeInit ==
  \E x \in {y \in MergeRoutes : RouteAccepted(y.points, y.closed)}, aside \in SideOffsets,
     start \in MergeRange, target \in MergeRange :
    merge = [route |-> RouteOf(x.points, x.closed), offset |-> aside,
             start |-> start, target |-> target, end |-> start, tries |-> 0,
             phase |-> "begin", status |-> "none", seed |-> <<>>]

-----------------------------------------------------------------------------
(* The checks before the merge.                                            *)
OutOfRange == ~merge.route.closed /\ (merge.start < 0 \/ merge.target > merge.route.total)
InvalidMerge ==
  /\ merge.phase = "begin"
  /\ \/ merge.target <= merge.start /\ Done("invalid_input")
     \/ merge.target > merge.start /\ OutOfRange /\ Done("out_of_range")
     \/ merge.target > merge.start /\ ~OutOfRange /\ merge.offset = "too far" /\ Done("offset_too_large")

Mergeable == merge.phase = "begin" /\ merge.target > merge.start /\ ~OutOfRange

(* The distance asked for is the largest of a minimum, shares of the       *)
(* offset and of the speed, and what the curvature needs, up to a maximum. *)
BeginMerge ==
  /\ Mergeable /\ merge.offset = "beside"
  /\ IF CornersWithin(merge.route, merge.start, Clearance) # {}
     THEN Done("start_near_unsmoothed_corner")
     ELSE \E forward \in MinForward..MaxForward :
            IF merge.start + forward > merge.target THEN Done("insufficient_lookahead")
            ELSE merge' = [merge EXCEPT !.end = merge.start + forward, !.phase = "extend"]

NoMerge ==
  /\ Mergeable /\ merge.offset = "none"
  /\ merge' = [merge EXCEPT !.phase = "fit"]

(* Faulty variant: the end is moved away from one corner only.             *)
ExtendMergeOnce ==
  /\ merge.phase = "extend"
  /\ IF CornersWithin(merge.route, merge.end, Clearance) = {}
     THEN merge' = [merge EXCEPT !.phase = "fit"]
     ELSE \E further \in {NearestCorner(merge.route, merge.end) + Clearance} :
            IF further - merge.start > MaxForward THEN Done("cannot_avoid_corner")
            ELSE IF further > merge.target THEN Done("insufficient_lookahead")
            ELSE merge' = [merge EXCEPT !.end = further, !.phase = "fit"]

ExtendMerge ==
  /\ merge.phase = "extend"
  /\ IF merge.tries = Extensions THEN Done("cannot_avoid_corner")
     ELSE IF CornersWithin(merge.route, merge.end, Clearance) = {}
     THEN merge' = [merge EXCEPT !.phase = "fit"]
     ELSE \E further \in {NearestCorner(merge.route, merge.end) + Clearance} :
            IF further <= merge.end THEN merge' = [merge EXCEPT !.phase = "fit"]
            ELSE IF further - merge.start > MaxForward THEN Done("cannot_avoid_corner")
            ELSE IF further > merge.target THEN Done("insufficient_lookahead")
            ELSE merge' = [merge EXCEPT !.end = further, !.tries = @ + 1]

-----------------------------------------------------------------------------
(* Faulty variant: the vertices are taken for samples of the raster.       *)
SamplingFitsRaster(r, start, end) == (end - start + Spacing - 1) \div Spacing + 3 <= MaxSamples

SamplingFits(r, start, end) ==
  (end - start + Spacing - 1) \div Spacing + 1 + Cardinality(VerticesWithin(r, start, end)) + 2
    <= MaxSamples

FitSamples ==
  /\ merge.phase = "fit"
  /\ IF SamplingFits(merge.route, merge.start, merge.target)
     THEN merge' = [merge EXCEPT !.phase = "sample"] ELSE Done("resource_limit")

(* The merge and the rest are sampled apart, so that its end is a sample.  *)
Ranges == IF merge.offset = "none" THEN {<<merge.start, merge.target>>}
          ELSE {<<merge.start, merge.end>>, <<merge.end, merge.target>>}
Seed ==
  IF merge.offset = "none" THEN SampleRange(merge.route, merge.start, merge.target, Spacing)
  ELSE LET to   == SampleRange(merge.route, merge.start, merge.end, Spacing)
           from == SampleRange(merge.route, merge.end, merge.target, Spacing)
       IN  to \o Tail(from)
SampleSeed ==
  /\ merge.phase = "sample"
  /\ \E failed \in {{x \in Ranges : SampleStatus(merge.route, x[1], x[2], Spacing) # "success"}},
        seed \in {Seed} :
       IF failed # {} \/ Len(seed) > MaxSamples THEN Done("sampling_failed")
       ELSE merge' = [merge EXCEPT !.seed = seed, !.phase = "fade"]

(* The offset is faded out.  The curvature is only judged up to the end of *)
(* the merge; a tangent that vanishes there is reported as a failure to    *)
(* sample too, here by a name of its own.                                  *)
FadeSeed ==
  /\ merge.phase = "fade"
  /\ \/ Done("success")
     \/ /\ merge.offset # "none"
        /\ \E status \in {"curvature_limit", "no_tangent"} :
             merge' = [merge EXCEPT !.phase = "done", !.status = status, !.seed = <<>>]

(* The deadline is asked between any two of these.                         *)
MergeTooLate ==
  /\ merge.phase # "done"
  /\ merge' = [merge EXCEPT !.phase = "done", !.status = "deadline_exceeded", !.seed = <<>>]

MergeNext ==
  \/ InvalidMerge \/ BeginMerge \/ NoMerge \/ ExtendMerge
  \/ FitSamples \/ SampleSeed \/ FadeSeed \/ MergeTooLate
MergeSpec == MergeInit /\ [][MergeNext]_merge

-----------------------------------------------------------------------------
(* A merge begins and ends clear of every corner, also of those beyond the *)
(* one it was extended past and of those of the next lap, and it is back   *)
(* on the route by the local target (merge_reference_builder.cpp:369-437). *)
EndsClearOfCorners ==
  merge.status = "success" =>
    /\ merge.offset = "beside" =>
         /\ CornersWithin(merge.route, merge.start, Clearance) = {}
         /\ CornersWithin(merge.route, merge.end, Clearance - 1) = {}
         /\ merge.end - merge.start \in MinForward..MaxForward
         /\ merge.end <= merge.target
    /\ {merge.start, merge.end, merge.target} \cup VerticesWithin(merge.route, merge.start, merge.target)
         \subseteq ToSet(merge.seed)

(* What has passed the count before the sampling does not run out of       *)
(* samples in the middle of it (merge_reference_builder.cpp:143-199).      *)
FittingSeedIsSampled == merge.status # "sampling_failed"

(* A merge that the checks admit is built, clear of the corners.           *)
MergeHolds == EndsClearOfCorners /\ FittingSeedIsSampled
=============================================================================
