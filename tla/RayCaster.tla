----------------------------- MODULE RayCaster -----------------------------
(***************************************************************************)
(* The voxel traversal of plan_env/raycast.cpp: setInput and step, from    *)
(* the cell of a measured point to the cell of the sensor.  The start lies *)
(* anywhere in its cell, in parts of a cell; the parametric distances      *)
(* tMaxX_, tMaxY_ and tMaxZ_ are exact fractions here and doubles there.   *)
(***************************************************************************)
EXTENDS Integers, Sequences

CONSTANT Parts            \* the parts a cell edge is divided into

ASSUME PartsAssumption == Parts \in Nat \ {0}

Axis == 1..3
Cell3 == Int \X Int \X Int
Sign(n) == IF n > 0 THEN 1 ELSE IF n < 0 THEN -1 ELSE 0
Dist(n) == IF n < 0 THEN -n ELSE n

(* intbound: the parts to the first boundary in the direction of d; going  *)
(* down from a boundary counts a whole cell.                               *)
IntBound(part, d) == IF d >= 0 THEN Parts - part ELSE Parts - ((Parts - part) % Parts)

(* setInput: tmax counts parts of a cell, to be divided by |d|.            *)
SetInput(start, part, end) ==
  [cell |-> start, end |-> end, d |-> [i \in Axis |-> end[i] - start[i]],
   tmax |-> [i \in Axis |-> IntBound(part[i], end[i] - start[i])]]

(* tMax of axis i below tMax of axis j; an axis that does not move has its *)
(* next boundary at infinity.                                              *)
Sooner(r, i, j) ==
  /\ r.d[i] # 0
  /\ r.d[j] # 0 => r.tmax[i] * Dist(r.d[j]) < r.tmax[j] * Dist(r.d[i])

NextAxis(r) ==
  IF Sooner(r, 1, 2) THEN IF Sooner(r, 1, 3) THEN 1 ELSE 3
                     ELSE IF Sooner(r, 2, 3) THEN 2 ELSE 3

(* Faulty variant: the sign of the direction is left out of the step.      *)
RayStepUpwards(r) ==
  LET i == NextAxis(r)
  IN  [r EXCEPT !.cell[i] = @ + 1, !.tmax[i] = @ + Parts]

RayStep(r) ==
  LET i == NextAxis(r)
  IN  [r EXCEPT !.cell[i] = @ + Sign(r.d[i]), !.tmax[i] = @ + Parts]

RayDone(r) == r.cell = r.end
Length(r)  == Dist(r.d[1]) + Dist(r.d[2]) + Dist(r.d[3])

(* The cells step() hands out: all but the last.                           *)
RayCells(start, part, end) ==
  LET r    == SetInput(start, part, end)
      walk[n \in 0..Length(r)] ==
        IF n = 0 THEN r ELSE IF RayDone(walk[n - 1]) THEN walk[n - 1] ELSE RayStep(walk[n - 1])
  IN  [n \in 1..Length(r) |-> walk[n - 1].cell]
=============================================================================
