--------------------------- MODULE RouteProgress ---------------------------
(***************************************************************************)
(* RouteProgressTracker: the confirmed progress of a mission along its     *)
(* reference route, lap by lap, from one pose of the robot to the next.    *)
(* The tracker is driven by a robot that either follows the route from its *)
(* start or wanders about.  Lengths are whole units, rounded down; angles  *)
(* between a segment and the robot are multiples of 90 degrees, of which   *)
(* max_heading_error admits the first.  A mission has a number of laps     *)
(* (loop_count 0, without end, is left out).                               *)
(***************************************************************************)
EXTENDS ReferenceRoute

CONSTANTS
  MissionRoutes,        \* [points, closed]: the missions
  SearchAhead, SearchBehind, MaxLateral, SeamGate, MaxChecks, Laps,
  MaxDriven,
  Yard, Stride          \* where the robot may be, and how far it goes between two poses

ASSUME RouteProgressAssumption ==          \* validConfig
  /\ {SearchAhead, SearchBehind, MaxDriven} \subseteq Nat /\ SearchAhead >= MaxAdvance
  /\ {MaxLateral, SeamGate, MaxChecks, Laps} \subseteq Nat \ {0}
  /\ MissionRoutes \subseteq [points : Seq(Int \X Int), closed : BOOLEAN] /\ Yard \subseteq Int \X Int

VARIABLES
  robot,        \* where it is
  mission,      \* the tracker
  followed,     \* arc length of a robot that has only followed the route
  driven        \* the way of the robot, up to MaxDriven

progressVars == <<robot, mission, followed, driven>>

Wandered == -1
Headings == {<<1, 0>>, <<0, 1>>, <<-1, 0>>, <<0, -1>>}

MissionLength(r) == r.total * IF r.closed THEN Laps ELSE 1

(* reset refuses a loop that its seam gate would fill.                     *)
TrackableRoutes ==
  {r \in {RouteOf(m.points, m.closed) : m \in {x \in MissionRoutes : RouteAccepted(x.points, x.closed)}} :
     r.closed => 2 * SeamGate < r.total}

ResetMission(r, at) ==
  [route |-> r, last |-> at, progress |-> 0, credit |-> InitialCredit,
   completed |-> FALSE, verdict |-> "none"]

ProgressInit ==
  \E r \in TrackableRoutes :
    /\ robot    = PointAt(r, 0)
    /\ mission  = ResetMission(r, PointAt(r, 0))
    /\ followed = 0
    /\ driven   = 0

-----------------------------------------------------------------------------
(* The window of the search.                                               *)
SearchStart(m) ==
  IF m.route.closed THEN m.progress - SearchBehind ELSE Greater(0, m.progress - SearchBehind)
SearchEnd(m) ==
  Lesser(MissionLength(m.route),
         m.progress + IF m.route.closed THEN Lesser(SearchAhead, m.route.total) ELSE SearchAhead)

(* The segments of the window, each with the lap it is seen in.            *)
LapsSeen(m) ==
  IF m.route.closed
  THEN (SearchStart(m) \div m.route.total) .. (SearchEnd(m) \div m.route.total) ELSE {0}
Stretch(m, lap, i) ==
  [i |-> i, from |-> Greater(SearchStart(m), lap * m.route.total + m.route.cum[i]),
            to   |-> Lesser(SearchEnd(m), lap * m.route.total + SegmentEnd(m.route, i))]
Stretches(m) ==
  {x \in {Stretch(m, lap, i) : lap \in LapsSeen(m), i \in Segments(m.route)} :
     x.from <= x.to /\ x.to > SearchStart(m)}

(* The projection onto one stretch, of a robot that heads toward, on the   *)
(* storey of the route (level) or not.                                     *)
Candidate(m, x, toward, level) ==
  LET s == Nearest(m.route, x.from, x.to, robot')
  IN  [s |-> s, lateral |-> Square(PointAt(m.route, s), robot'), level |-> level,
       turn |-> 1 - Dot(toward, Direction(m.route.pts[x.i], NextVertex(m.route, x.i)))]
InLane(c)  == c.lateral <= MaxLateral * MaxLateral
Aligned(c) == InLane(c) /\ c.turn = 0
Valid(c)   == Aligned(c) /\ c.level

(* The score weighs the lateral distance a hundred times the detour; the   *)
(* first of equals is kept.                                                *)
Score(m, c) ==
  100 * c.lateral * Greater(SearchAhead, SearchBehind) * Greater(SearchAhead, SearchBehind)
    + (c.s - m.progress) * (c.s - m.progress) * MaxLateral * MaxLateral
Best(m, cands) ==
  CHOOSE c \in cands : \A d \in cands :
    Score(m, c) < Score(m, d) \/ (Score(m, c) = Score(m, d) /\ c.s <= d.s)

-----------------------------------------------------------------------------
Step(m, c) == Greater(0, c.s - m.progress)
WithinBudget(m, c) == Step(m, c) <= Lesser(MaxAdvance, m.credit)

LapOf(m, s) == s \div m.route.total
MovedForward(old, m) ==
  /\ Moved(old, robot')
  /\ Dot(Minus(robot', old.last), TangentAt(m.route, m.progress)) > 0

(* Faulty variant: both ends of the crossing are measured from the start.  *)
ThroughSeamUnwrapped(old, m, c) ==
  m.route.closed /\ LapOf(m, c.s) > LapOf(m, m.progress) =>
    /\ m.progress >= m.route.total - SeamGate
    /\ c.s <= SeamGate
    /\ MovedForward(old, m)
    /\ LapOf(m, c.s) = LapOf(m, m.progress) + 1

(* A new lap begins within the gate of the seam, on both sides of it, and  *)
(* by a move that led forward.                                             *)
ThroughSeam(old, m, c) ==
  m.route.closed /\ LapOf(m, c.s) > LapOf(m, m.progress) =>
    /\ NormalizeRouteS(m.route, m.progress) >= m.route.total - SeamGate
    /\ NormalizeRouteS(m.route, c.s) <= SeamGate
    /\ MovedForward(old, m)
    /\ LapOf(m, c.s) = LapOf(m, m.progress) + 1

Confirm(m, c) ==
  LET s == Lesser(MissionLength(m.route), m.progress + Step(m, c))
  IN  [m EXCEPT !.progress = s, !.credit = Greater(0, @ - Step(m, c)),
                !.completed = s >= MissionLength(m.route),
                !.verdict = IF s >= MissionLength(m.route) THEN "completed" ELSE "accepted"]

(* The order in which a pose is turned down; the progress is kept.         *)
Judged(old, m, cands) ==
  LET no(v) == [m EXCEPT !.verdict = v]
      c     == Best(m, {x \in cands : Valid(x)})
  IN  IF cands = {} THEN no("no_candidate")
      ELSE IF \A x \in cands : ~InLane(x)  THEN no("lateral_gate")
      ELSE IF \A x \in cands : ~Aligned(x) THEN no("heading_gate")
      ELSE IF \A x \in cands : ~Valid(x)   THEN no("height_gate")
      ELSE IF ~WithinBudget(m, c)          THEN no("movement_budget")
      ELSE IF ~ThroughSeam(old, m, c)      THEN no("seam_gate")
      ELSE Confirm(m, c)

(* update, for the pose of the robot.                                      *)
Update(toward, level) ==
  IF mission.completed
  THEN mission' = [mission EXCEPT !.verdict = "completed"]
  ELSE \E m \in {Credited(mission, robot')} :
         IF Cardinality(Stretches(m)) > MaxChecks
         THEN mission' = [m EXCEPT !.verdict = "resource_limit"]
         ELSE \E cands \in {{Candidate(m, x, toward, level) : x \in Stretches(m)}} :
                mission' = Judged(mission, m, cands)

-----------------------------------------------------------------------------
(* A pose of a robot that follows the route, and one that does not.        *)
Follow ==
  /\ followed # Wandered
  /\ \E s \in followed..Lesser(followed + Stride, MissionLength(mission.route)) :
       /\ followed' = s /\ robot' = PointAt(mission.route, s)
       /\ Update(TangentAt(mission.route, s), TRUE)

Wander ==
  /\ \E at \in Yard, toward \in Headings, level \in BOOLEAN :
       /\ Leg(at, robot) <= Stride /\ robot' = at
       /\ Update(toward, level)
  /\ followed' = Wandered

Drive == driven' = Lesser(MaxDriven, driven + Leg(robot, robot'))

ProgressNext == (Follow \/ Wander) /\ Drive
ProgressSpec == ProgressInit /\ [][ProgressNext]_progressVars

-----------------------------------------------------------------------------
(* The gates never lose a robot that follows its route: its confirmed      *)
(* progress is at most a deadband behind, on every lap and over the seam,  *)
(* and its mission is completed (route_progress_tracker.cpp:426-465).      *)
FollowerIsConfirmed ==
  followed # Wandered =>
    /\ followed - mission.progress \in 0..Deadband
    /\ mission.completed <=> mission.progress = MissionLength(mission.route)

(* Progress has been earned by driving: jitter, a turn on the spot inside  *)
(* a small loop or a pose that jumps to a later lane confirm no more than  *)
(* the way of the robot pays for (route_progress_tracker.cpp:236-247).     *)
ProgressIsEarned == mission.progress <= InitialCredit + CreditScale * driven

(* The confirmed progress neither loses a robot on its route nor runs      *)
(* ahead of one that is not.                                               *)
ProgressIsTrue == FollowerIsConfirmed /\ ProgressIsEarned
=============================================================================
