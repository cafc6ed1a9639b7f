--------------------------- MODULE MCLocalStack ---------------------------
(***************************************************************************)
(* The components of one planning and control cycle, checked one after the *)
(* other in one run: they are called in turn and share no state, so each   *)
(* behaviour works one of them and leaves the others as they began.  The   *)
(* one at work is chosen in the initial state; the others begin in one     *)
(* fixed state each.                                                       *)
(***************************************************************************)
EXTENDS GridMap, DynAStar, LocalPlanning, CollisionSegments, TrackControl,
        RouteProgress, RoutePursuit, LocalProgress, MergeReference

VARIABLE component      \* the one at work

stackVars == <<component, gridVars, starVars, planVars, segVars, trackVars,
               progressVars, pursuitVars, localVars, merge>>

-----------------------------------------------------------------------------
(* Instances.                                                              *)

(* A map of three cells by two, with every place along its long side.      *)
MCSize == <<3, 2, 1>>
MCUpdateRange == <<1, 1, 0>>
MCPositions == {<<x, 0, 0>> : x \in 0..2}
MCStaleMarks == {{}}

(* A pool of seven cells by four by seven, one side of it outside the map; *)
(* a wall as high as the centre, and an obstacle at a start with another   *)
(* beside the way.  Diagonally backwards on the level, up and down by      *)
(* three steps, and within one cell.                                       *)
MCPoolSize == <<7, 4, 7>>
MCMapCells == (1..6) \X (0..3) \X (0..6)
MCWorlds ==
  LET Columns(feet) == {<<c[1], c[2], z>> : c \in feet, z \in 0..6}
  IN  {{c \in Columns({<<4, 1>>, <<4, 2>>}) : c[3] <= 3}, Columns({<<2, 2>>, <<4, 3>>})}
MCRequests == {<<-6, -2, 0>>, <<6, 0, 6>>, <<6, 0, -6>>, <<1, 0, 0>>}

(* Targets on straights and bends, ahead with several headings, at the end *)
(* of the path inside and outside the slowdown, and behind.                *)
MCObservations ==
  LET Ahead == [ahead : {TRUE}, end : {FALSE}, dist : {9}, bearing : {0},
                curvature : {-2, 0, 4}, error : {-36, 0, 10, 20}]
      AtEnd == [ahead : {TRUE}, end : {TRUE}, dist : {3, 5}, bearing : {0},
                curvature : {-2, 0, 4}, error : {0}]
      Rear  == [ahead : {FALSE}, end : {FALSE}, dist : {9}, bearing : {-60},
                curvature : {0}, error : {0}]
  IN  Ahead \cup AtEnd \cup Rear

(* A loop of two units by one, and an open route with a repeated point     *)
(* that comes back beside its start.                                       *)
MCMissionRoutes ==
  {[points |-> <<<<0, 0>>, <<2, 0>>, <<2, 1>>, <<0, 1>>, <<0, 0>>>>, closed |-> TRUE],
   [points |-> <<<<0, 0>>, <<1, 0>>, <<1, 0>>, <<1, 1>>, <<0, 1>>>>, closed |-> FALSE]}
MCYard == (0..2) \X (0..1)

(* The same loop as a message, and a hook; a wall across the far side.     *)
MCRouteMessages == {<<<<0, 0>>, <<2, 0>>, <<2, 1>>, <<0, 1>>, <<0, 0>>>>,
                    <<<<0, 0>>, <<2, 0>>, <<2, 1>>, <<1, 1>>, <<1, 0>>>>}
MCField == (0..2) \X (0..1)
MCObstacles == {{}, {<<1, 1>>, <<2, 1>>}}

(* A trajectory that passes its end before it ends, and a hold.            *)
MCTrajectories ==
  {<<<<0, 0>>, <<1, 0>>, <<0, 0>>, <<1, 0>>, <<0, 0>>, <<1, 0>>, <<0, 0>>>>, <<<<0, 0>>, <<0, 0>>>>}
MCGround == (0..1) \X {0}

(* A loop, and an open route with corners near each other.                 *)
MCMergeRoutes ==
  {[points |-> <<<<0, 0>>, <<3, 0>>, <<3, 2>>, <<0, 2>>, <<0, 0>>>>, closed |-> TRUE],
   [points |-> <<<<0, 0>>, <<3, 0>>, <<6, 0>>, <<6, 1>>, <<9, 1>>>>, closed |-> FALSE]}
MCMergeRange == (-1)..11

-----------------------------------------------------------------------------
Components == {"map", "search", "planning", "segments", "control",
               "progress", "pursuit", "local", "merge"}

StackInit ==
  /\ component \in Components
  /\ GridInit     /\ (component # "map"      => source = "depth")
  /\ nodes \in [Pool -> {NewNode}]   \* StarInit's own, written out for states the view compares
  /\ StarInit     /\ (component # "search"   => (offset = 0 /\ <<2, 2, 3>> \in world))
  /\ PlanInit
  /\ SegInit      /\ (component # "segments" => todo.at = "sweep")
  /\ TrackInit
  /\ ProgressInit /\ (component # "progress" => mission.route.closed)
  /\ PursuitInit
  /\ LocalInit    /\ (component # "local"    => place = <<0, 0>>)
  /\ MergeInit    /\ (component # "merge"    =>
                        (merge.route.closed /\ merge.offset = "none"
                          /\ merge.start = 0 /\ merge.target = 1))

MapAtWork ==
  /\ component = "map" /\ GridNext
  /\ UNCHANGED <<component, starVars, planVars, segVars, trackVars, progressVars,
                 pursuitVars, localVars, merge>>
SearchAtWork ==
  /\ component = "search" /\ StarNext
  /\ UNCHANGED <<component, gridVars, planVars, segVars, trackVars, progressVars,
                 pursuitVars, localVars, merge>>
PlanningAtWork ==
  /\ component = "planning" /\ PlanNext
  /\ UNCHANGED <<component, gridVars, starVars, segVars, trackVars, progressVars,
                 pursuitVars, localVars, merge>>
SegmentsAtWork ==
  /\ component = "segments" /\ SegNext
  /\ UNCHANGED <<component, gridVars, starVars, planVars, trackVars, progressVars,
                 pursuitVars, localVars, merge>>
ControlAtWork ==
  /\ component = "control" /\ TrackNext
  /\ UNCHANGED <<component, gridVars, starVars, planVars, segVars, progressVars,
                 pursuitVars, localVars, merge>>
ProgressAtWork ==
  /\ component = "progress" /\ ProgressNext
  /\ UNCHANGED <<component, gridVars, starVars, planVars, segVars, trackVars,
                 pursuitVars, localVars, merge>>
PursuitAtWork ==
  /\ component = "pursuit" /\ PursuitNext
  /\ UNCHANGED <<component, gridVars, starVars, planVars, segVars, trackVars, progressVars,
                 localVars, merge>>
LocalAtWork ==
  /\ component = "local" /\ LocalNext
  /\ UNCHANGED <<component, gridVars, starVars, planVars, segVars, trackVars, progressVars,
                 pursuitVars, merge>>
MergeAtWork ==
  /\ component = "merge" /\ MergeNext
  /\ UNCHANGED <<component, gridVars, starVars, planVars, segVars, trackVars, progressVars,
                 pursuitVars, localVars>>

StackNext ==
  \/ MapAtWork \/ SearchAtWork \/ PlanningAtWork \/ SegmentsAtWork \/ ControlAtWork
  \/ ProgressAtWork \/ PursuitAtWork \/ LocalAtWork \/ MergeAtWork

StackSpec == StackInit /\ [][StackNext]_stackVars

(* What tells two states apart: the search and its pool are as they began  *)
(* while another component is at work, so they are left out of the view.   *)
AtWork ==
  <<component, gridVars, planVars, segVars, trackVars, progressVars, pursuitVars,
    localVars, merge, IF component = "search" THEN starVars ELSE <<>>>>
=============================================================================
