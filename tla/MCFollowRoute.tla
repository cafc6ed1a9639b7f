--------------------------- MODULE MCFollowRoute ---------------------------
(* Instance of FollowRouteServer for TLC: missions and routes are model    *)
(* values, timeouts a few monitor periods.                                 *)
EXTENDS FollowRouteServer, TLC

RouteSymmetry == Permutations(Tasks) \cup Permutations(Missions)

(* What a step can depend on: the planner never reads back the messages it *)
(* published, and its task revision is compared only within one callback.  *)
ReadState == << [fsm EXCEPT !.out = << >>, !.bspline = 0, !.task_revision = 0],
                server >>
=============================================================================
