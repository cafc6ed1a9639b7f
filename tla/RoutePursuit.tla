---------------------------- MODULE RoutePursuit ----------------------------
(***************************************************************************)
(* How the replanning state machine pursues a reference route (navi_mode 3 *)
(* of scan_replan_fsm.cpp): the cleaning of the route it is given, the     *)
(* ReferencePathTracker that measures the progress along it, the choice of *)
(* the next local target, and the test that ends the route.  The robot is  *)
(* either obedient, driving along the route to one local target after the  *)
(* other, or goes where it likes.                                          *)
(***************************************************************************)
EXTENDS ReferenceRoute

CONSTANTS
  RouteMessages,        \* the point sequences a client sends
  ClosedTolerance, PointSpacing, MinLength,     \* reference_path_*, squared distances apart
  Departure, MinRatio, FinishDistance, FinishRemaining,
  Horizon, MinTarget,   \* planning_horizon, minimum_local_target_distance
  Obstacles,            \* sets of occupied places
  Field, MaxWay         \* where the robot may be; a bound of its recorded way

ASSUME PursuitAssumption ==
  /\ {PointSpacing, MinLength, Departure} \subseteq Nat \ {0} /\ MinRatio \in 0..100
  /\ {FinishDistance, FinishRemaining} \subseteq Nat /\ FinishDistance >= PointSpacing
  /\ FinishRemaining >= PointSpacing
  /\ RouteMessages \subseteq Seq(Int \X Int) \ {<<>>}
  /\ Field \subseteq Int \X Int /\ MaxWay \in Nat

VARIABLES
  body,         \* the last position of the robot
  pursuit,      \* the tracker and what the state machine keeps with it
  aim,          \* the local target
  along,        \* arc length of the obedient robot
  way           \* the way of the robot since the route was taken over, up to MaxWay

pursuitVars == <<body, pursuit, aim, along, way>>

Astray == -1
NoAim  == [arc |-> 0, start |-> <<0, 0>>, set |-> FALSE]
Near(p, q, d)  == Square(p, q) <= d * d
Apart(p, q, d) == Square(p, q) >= d * d

-----------------------------------------------------------------------------
(* prepareReferenceWaypoints.                                              *)
SpacedOut(points) ==
  FoldLeft(LAMBDA kept, p : IF kept # <<>> /\ Square(p, Last(kept)) < PointSpacing * PointSpacing
                            THEN kept ELSE Append(kept, p), <<>>, points)
Waypoints(points, at) ==
  LET s == SpacedOut(points)
  IN  SubSeq(s, CHOOSE k \in 1..Len(s) :
                  /\ k = Len(s) \/ Square(s[k], at) >= PointSpacing * PointSpacing
                  /\ \A j \in 1..k - 1 : Square(s[j], at) < PointSpacing * PointSpacing,
             Len(s))
IsClosed(points) == Len(points) >= 2 /\ Near(Head(points), Last(points), ClosedTolerance)

AlongAxes(points) ==
  \A i \in 1..Len(points) - 1 : \E k \in {1, 2} : points[i][k] = points[i + 1][k]

(* The tracker keeps the route as an open polyline from the robot on.      *)
NoRoute == [total |-> 0]
Prepare(points, at) ==
  LET wps  == Waypoints(points, at)
      line == <<at>> \o wps
  IN  IF RouteAccepted(line, FALSE) /\ AlongAxes(line) /\ (IsClosed(points) => Len(wps) >= 3)
      THEN RouteOf(line, FALSE) ELSE NoRoute
Prepared == [x \in RouteMessages \X Field |-> CHOOSE r \in {Prepare(x[1], x[2])} : TRUE]
Accepts(points, at) == Prepared[<<points, at>>].total >= MinLength

Pursued(points, at) ==
  [phase |-> "active", closed |-> IsClosed(points), departed |-> ~IsClosed(points),
   route |-> Prepared[<<points, at>>], last |-> at, progress |-> 0, credit |-> InitialCredit]
NotPursuing == [phase |-> "none"]

-----------------------------------------------------------------------------
(* ReferencePathTracker::update, which also notes that a loop was left.    *)
Departs(t, at) ==
  \/ Apart(at, Head(t.route.pts), Departure)
  \/ t.progress >= Lesser(Departure, t.route.total \div 2)

Tracked(t, at) ==
  CHOOSE u \in {[a EXCEPT !.departed = @ \/ Departs(a, at)] : a \in {Projected(t, at)}} : TRUE

-----------------------------------------------------------------------------
(* startFollowRoute: a route that is refused, or that has no global        *)
(* trajectory, ends the pursuit of the one before as well.  The new route  *)
(* begins where the robot is.                                              *)
TakeRoute(points) ==
  /\ pursuit' \in {NotPursuing} \cup IF Accepts(points, body) THEN {Pursued(points, body)} ELSE {}
  /\ along' = IF pursuit'.phase = "active" THEN 0 ELSE Astray
  /\ aim' = NoAim /\ way' = 0 /\ body' = body

(* odometryCallback.                                                       *)
Arrive(at) ==
  /\ body' = at
  /\ pursuit' = IF pursuit.phase = "active" THEN Tracked(pursuit, at) ELSE pursuit
  /\ way' = Lesser(MaxWay, way + Leg(body, at))

RoamTo == \E at \in Field : Leg(body, at) = 1 /\ Arrive(at) /\ along' = Astray /\ aim' = aim

Obey ==
  /\ aim.set /\ along # Astray /\ along < aim.arc
  /\ PointAt(pursuit.route, along + 1) \in Field
  /\ Arrive(PointAt(pursuit.route, along + 1)) /\ along' = along + 1 /\ aim' = aim

-----------------------------------------------------------------------------
(* getLocalTarget.  A loop that fits into the horizon would begin with its *)
(* own start as the target.                                                *)
Remaining(t)     == t.route.total - t.progress
FarthestTarget(t) == Lesser(t.route.total, t.progress + Horizon)
EndIsHere(t) ==
  /\ t.closed /\ ~t.departed /\ FarthestTarget(t) = t.route.total
  /\ Near(PointAt(t.route, t.route.total), body, FinishDistance)
  /\ Remaining(t) > FinishRemaining

FirstTarget(t) ==
  IF EndIsHere(t)
  THEN Lesser(t.route.total - PointSpacing,
              t.progress + Lesser(Horizon, Greater(PointSpacing, Remaining(t) \div 2)))
  ELSE FarthestTarget(t)

(* A target next to the start of the plan is moved back along the route,   *)
(* or else ahead.                                                          *)
Raster(from, to) == {s \in from..to : (s - from) % PointSpacing = 0}

(* Faulty variant: the distance is taken along the route.                  *)
SeparatedAlongRoute(t, arcs, start) == {s \in arcs : s - t.progress >= MinTarget}

Separated(t, arcs, start) == {s \in arcs : Apart(PointAt(t.route, s), start, MinTarget)}
Behind(t, s) == {u \in t.progress + PointSpacing + 1 .. s - 1 : (s - u) % PointSpacing = 0}
SeparatedTarget(t, s, start) ==
  LET back == Separated(t, Behind(t, s), start)
      on   == Separated(t, Raster(s, t.route.total), start)
  IN  IF Remaining(t) <= FinishRemaining \/ Separated(t, {s}, start) # {} THEN s
      ELSE IF back # {} THEN CHOOSE u \in back : \A v \in back : v <= u
      ELSE IF on # {}   THEN CHOOSE u \in on : \A v \in on : u <= v
      ELSE s

(* An occupied target gives way to the nearest free one, ahead first.      *)
FreeTarget(t, s, occupied) ==
  LET free == {u \in t.progress..t.route.total :
                 (u - s) % PointSpacing = 0 /\ PointAt(t.route, u) \notin occupied}
  IN  IF PointAt(t.route, s) \notin occupied \/ free = {} THEN s
      ELSE CHOOSE u \in free : \A v \in free : Gap(u - s) < Gap(v - s) \/ (Gap(u - s) = Gap(v - s) /\ u >= v)

Target(t, occupied) ==
  CHOOSE u \in {FreeTarget(t, s, occupied) : s \in {SeparatedTarget(t, f, body) : f \in {FirstTarget(t)}}} : TRUE

(* updateReferencePathProgress comes first.                                *)
SelectTarget ==
  /\ pursuit.phase = "active"
  /\ \E t \in {Tracked(pursuit, body)}, occupied \in Obstacles :
       /\ along # Astray => occupied = {}
       /\ pursuit' = t
       /\ aim' = [set |-> TRUE, start |-> body, arc |-> Target(t, occupied)]
  /\ UNCHANGED <<body, along, way>>

(* Faulty variant: a loop need not have been left.                         *)
RouteDoneAtStart(t) ==
  /\ Remaining(t) <= FinishRemaining \/ t.closed
  /\ Near(Last(t.route.pts), body, FinishDistance)

(* referencePathComplete.                                                  *)
RouteDone(t) ==
  /\ t.closed => t.departed
  /\ 100 * t.progress >= MinRatio * t.route.total
  /\ Remaining(t) <= FinishRemaining
  /\ Near(Last(t.route.pts), body, FinishDistance)

CheckFinish ==
  /\ pursuit.phase = "active"
  /\ \E t \in {Tracked(pursuit, body)} :
       pursuit' = [t EXCEPT !.phase = IF RouteDone(t) THEN "finished" ELSE @]
  /\ aim' = IF pursuit'.phase = "finished" THEN NoAim ELSE aim
  /\ UNCHANGED <<body, along, way>>

-----------------------------------------------------------------------------
(* A robot at the first point of some route, without a task.               *)
PursuitInit ==
  /\ body \in Field \cap {Head(points) : points \in RouteMessages} /\ pursuit = NotPursuing
  /\ aim = NoAim /\ along = Astray /\ way = 0

PursuitNext ==
  \/ \E points \in RouteMessages : TakeRoute(points)
  \/ RoamTo \/ Obey \/ SelectTarget \/ CheckFinish

PursuitSpec == PursuitInit /\ [][PursuitNext]_pursuitVars

-----------------------------------------------------------------------------
(* A route is only finished after it has been driven: neither a loop whose *)
(* end is its start nor one that crosses or runs next to itself is cut     *)
(* short by standing, jittering or straying (scan_replan_fsm.cpp:623-656). *)
FinishIsEarned ==
  pursuit.phase = "finished" =>
    InitialCredit + CreditScale * way >= pursuit.route.total - FinishRemaining

(* A robot that drives to its local targets is never left standing short   *)
(* of the end: wherever it is on the route, the route is finished or the   *)
(* next target is another place than the one it stands at, also at the     *)
(* start of a loop that fits into the horizon (scan_replan_fsm.cpp:2063-   *)
(* 2133).                                                                  *)
ObedientRobotGoesOn ==
  pursuit.phase = "active" /\ along # Astray =>
    \E t \in {Tracked(pursuit, body)} :
      RouteDone(t) \/ PointAt(t.route, Target(t, {})) # body
=============================================================================
