---------------------------- MODULE LocalProgress ----------------------------
(***************************************************************************)
(* How far the current local trajectory has been driven, as the replanning *)
(* state machine and the controller see it.  Both sample the B-spline and  *)
(* run a LocalTrajectoryTracker over it, each on the body poses that reach *)
(* it; the heartbeat carries the planner's progress to the controller,     *)
(* which may restart and is sent the latched B-spline again.  Samples lie  *)
(* one unit of time apart; the time of an arc length, which rises with it, *)
(* is left out, and an id stands for the traj_id with its start time.      *)
(***************************************************************************)
EXTENDS ReferenceRoute

CONSTANTS
  Trajectories,         \* the sampled trajectories, an emergency hold among them
  EndDistance, EndRemaining,    \* local_finish_*
  Ground, MaxTrajectories, MaxDistance

ASSUME LocalProgressAssumption ==
  /\ EndDistance \in Nat /\ EndRemaining \in Nat /\ MaxDistance \in Nat
  /\ Trajectories \subseteq Seq(Int \X Int) \ {<<>>} /\ Ground \subseteq Int \X Int

VARIABLES
  place,        \* of the robot
  planner,      \* what the state machine knows: [id, at, tracker]
  controller,   \* the same of the controller, and the heartbeat it keeps
  bspline,      \* the latched trajectory
  beat,         \* a heartbeat under way
  distance      \* driven since the trajectory was committed, up to MaxDistance

localVars == <<place, planner, controller, bspline, beat, distance>>

None == [id |-> 0]

-----------------------------------------------------------------------------
(* LocalTrajectoryTracker::reset; a hold has no length and no tracker.     *)
Held == [route |-> [total |-> 0], progress |-> 0]
Tracking(points, at) ==
  IF RouteAccepted(points, FALSE)
  THEN [route |-> RouteOf(points, FALSE), last |-> at, progress |-> 0, credit |-> InitialCredit]
  ELSE Held
IsActive(t)    == t.route.total > 0
Updated(t, at) == IF IsActive(t) THEN Projected(t, at) ELSE t

(* advanceTo only goes forward.                                            *)
AdvancedTo(t, s) ==
  IF IsActive(t) THEN [t EXCEPT !.progress = Greater(@, Bounded(s, 0, t.route.total))] ELSE t

(* Faulty variant: the progress of any trajectory is taken.                *)
MatchesAnyTrajectory(c, h) == h.id # 0 /\ c.id # 0

MatchesTrajectory(c, h) ==
  /\ h.id # 0 /\ c.id = h.id
  /\ IsActive(c.tracker) => h.arc <= c.tracker.route.total

Applied(c) ==
  IF MatchesTrajectory(c, c.beat)
  THEN [c EXCEPT !.tracker = AdvancedTo(@, c.beat.arc)] ELSE c

-----------------------------------------------------------------------------
(* The planner commits a trajectory, and starts over at its last pose.     *)
Commit(points) ==
  /\ planner.id < MaxTrajectories
  /\ planner'  = [planner EXCEPT !.id = @ + 1, !.tracker = Tracking(points, planner.at)]
  /\ bspline'  = [id |-> planner'.id, points |-> points]
  /\ distance' = Lesser(MaxDistance, Leg(place, planner.at))
  /\ UNCHANGED <<place, controller, beat>>

(* odometryCallback; an update at an unchanged pose changes nothing, so    *)
(* those of the timers are left out.                                       *)
PlannerPose ==
  /\ planner.at # place
  /\ planner' = [planner EXCEPT !.at = place, !.tracker = Updated(@, place)]
  /\ UNCHANGED <<place, controller, bspline, beat, distance>>

PublishHeartbeat ==
  /\ planner.id > 0
  /\ beat' = [id |-> planner.id, arc |-> planner.tracker.progress]
  /\ UNCHANGED <<place, planner, controller, bspline, distance>>

(* localTrajectoryComplete, of a robot that stands.                        *)
TrajectoryComplete ==
  /\ planner.id > 0 /\ IsActive(planner.tracker)
  /\ Square(Last(planner.tracker.route.pts), planner.at) <= EndDistance * EndDistance
  /\ planner.tracker.route.total - planner.tracker.progress <= EndRemaining

-----------------------------------------------------------------------------
(* The controller's callbacks.  Without a pose yet it takes the start of   *)
(* the trajectory for it.                                                  *)
SampleControllerPath(c, points) == Tracking(points, IF c.posed THEN c.at ELSE Head(points))

TakeBspline ==
  /\ bspline.id # 0 /\ controller.id # bspline.id
  /\ controller' =
       Applied([controller EXCEPT !.id = bspline.id,
                                       !.tracker = SampleControllerPath(controller, bspline.points)])
  /\ UNCHANGED <<place, planner, bspline, beat, distance>>

TakeHeartbeat ==
  /\ beat.id # 0
  /\ controller' = Applied([controller EXCEPT !.beat = beat])
  /\ beat' = None
  /\ UNCHANGED <<place, planner, bspline, distance>>

(* findClosestPathIndex, in the control cycle.  A pose is taken with the    *)
(* cycle that follows it, since one that sees no cycle is as good as lost. *)
FollowPath ==
  /\ controller.id # 0 /\ controller.posed
  /\ controller' = [controller EXCEPT !.tracker = Updated(@, controller.at)]
  /\ UNCHANGED <<place, planner, bspline, beat, distance>>

TakePose ==
  /\ controller' = [controller EXCEPT !.at = place, !.posed = TRUE, !.tracker = Updated(@, place)]
  /\ UNCHANGED <<place, planner, bspline, beat, distance>>

Restarted == [id |-> 0, at |-> <<0, 0>>, posed |-> FALSE, tracker |-> Held, beat |-> None]
Restart ==
  /\ controller' = Restarted
  /\ UNCHANGED <<place, planner, bspline, beat, distance>>

-----------------------------------------------------------------------------
LoseHeartbeat ==
  /\ beat.id # 0 /\ beat' = None
  /\ UNCHANGED <<place, planner, controller, bspline, distance>>

MoveTo(at) ==
  /\ Leg(place, at) = 1
  /\ place' = at
  /\ distance' = Lesser(MaxDistance, distance + 1)
  /\ UNCHANGED <<planner, controller, bspline, beat>>

LocalInit ==
  /\ place \in {Head(points) : points \in Trajectories}
  /\ planner    = [id |-> 0, at |-> place, tracker |-> Held]
  /\ controller = Restarted
  /\ bspline = None /\ beat = None /\ distance = 0

LocalNext ==
  \/ \E points \in Trajectories : Commit(points)
  \/ PlannerPose \/ PublishHeartbeat
  \/ TakeBspline \/ TakeHeartbeat \/ TakePose \/ FollowPath \/ Restart
  \/ LoseHeartbeat \/ \E at \in Ground : MoveTo(at)
LocalSpec == LocalInit /\ [][LocalNext]_localVars

-----------------------------------------------------------------------------
Earned == InitialCredit + CreditScale * distance

(* Whatever the controller has adopted, from stale, lost or early          *)
(* heartbeats and through restarts, its place on the trajectory is at most *)
(* twice its movement credit ahead of what the robot has driven, once      *)
(* where it last saw the robot and once at the next pose: restarting over  *)
(* and over does not walk it along a trajectory that turns back            *)
(* (local_trajectory_tracker.h:243-249, closed_loop_controller.cpp:401-    *)
(* 431).                                                                   *)
ControllerNotAhead ==
  controller.id # 0 /\ controller.id = planner.id =>
    controller.tracker.progress <= Earned + 2 * MaxAdvance

(* A trajectory that ends next to its start is not taken for driven before *)
(* the robot has gone its way (scan_replan_fsm.cpp:1200-1219).             *)
CompletionIsEarned ==
  TrajectoryComplete => Earned >= planner.tracker.route.total - EndRemaining

(* Neither side believes in more of the trajectory than was driven.        *)
LocalProgressIsEarned == ControllerNotAhead /\ CompletionIsEarned
=============================================================================
