----------------------------- MODULE ReplanFSM -----------------------------
(***************************************************************************)
(* The planner node's replanning state machine, SCANReplanFSM, with the    *)
(* part of SCANPlannerManager it drives (local_data_, the active local     *)
(* trajectory) and the two topics through which it commands the robot:     *)
(* planning/bspline (latched) and planning/planner_heartbeat.              *)
(*                                                                         *)
(* The node spins on a SingleThreadedExecutor, so one callback is one      *)
(* step.  Inside a callback the code calls helpers that update members and *)
(* publish messages in turn; a helper is an operator from states to states *)
(* here, and a step applies the helpers in the order the code calls them.  *)
(* Geometry, odometry and the optimiser enter as choices of outcome.       *)
(***************************************************************************)
EXTENDS Integers, Sequences

CONSTANTS
  NaviModes,       \* values of fsm.navi_mode the node may be started with
  RequireTf,       \* fsm.require_tf_ready
  FailSafe,        \* fsm.fail_safe
  MaxFail,         \* fsm.max_replan_fail_count
  NumWaypoints,    \* length of fsm.waypoints (mode 2)
  MaxTrajId,       \* INT_MAX in the code: traj_id_ wraps to 1 after it
  RevModulus,      \* 2^64 in the code: width of task_revision_
  Tasks,           \* goals, or routes, that may arrive
  Missions,        \* mission ids of action goals
  TopicTasks,      \* whether a task may arrive on a topic (modes 1 and 3)
  ClockJumps       \* whether ROS time may move backwards

ASSUME FsmAssumption ==
  /\ NaviModes \subseteq 1..3
  /\ {RequireTf, FailSafe, TopicTasks, ClockJumps} \subseteq BOOLEAN
  /\ MaxFail \in Nat \ {0} /\ NumWaypoints \in Nat \ {0}
  /\ MaxTrajId \in Nat /\ MaxTrajId > 1
  /\ RevModulus \in Nat \ {0}

MANUAL_TARGET  == 1
PRESET_TARGET  == 2
REFERENCE_PATH == 3

ExecStates == {"INIT", "WAIT_TARGET", "GEN_NEW_TRAJ", "REPLAN_TRAJ",
               "EXEC_TRAJ", "EMERGENCY_STOP"}
Moving     == {"EXEC_TRAJ", "REPLAN_TRAJ"}
Outcomes   == {"NONE", "SUCCEEDED", "ABORTED", "LOCALIZATION_LOST"}

NoTraj    == -1          \* the id of a trajectory clear, and of no progress
TrajIds   == 1..MaxTrajId
NoTask    == "no task"
NoMission == "no mission"
Here      == "here"      \* end_pt_ set to the robot's own position
Preset    == "preset"    \* the configured waypoint list of mode 2
Targets   == Tasks \cup {NoTask, Here, Preset}

(* A message of the last callback; both topics are kept in one sequence,   *)
(* in the order of the publish calls.                                      *)
Heartbeats == [topic : {"heartbeat"}, id : TrajIds \cup {NoTraj}]
Bsplines   == [topic : {"bspline"},   id : TrajIds \cup {NoTraj}]

VARIABLE fsm

FsmStates ==
  [navi_mode : NaviModes, exec_state : ExecStates, tf_ready : BOOLEAN, have_odom : BOOLEAN,
   odom_timeout_active : BOOLEAN, trigger : BOOLEAN, have_target : BOOLEAN,
   preset_started : BOOLEAN, goal_height_ready : BOOLEAN,
   pending_path : Tasks \cup {NoTask},
   replan_fail_count : Nat, flag_escape_emergency : BOOLEAN,
   need_hover_stop : BOOLEAN, active_waypoints : 0..NumWaypoints,
   current_wp : 0..NumWaypoints, reference_path_active : BOOLEAN,
   cancel_pending : BOOLEAN, route_outcome : Outcomes,
   mission : Missions \cup {NoMission}, end_pt : Targets,
   task_revision : 0..(RevModulus - 1),
   traj_id : 0..MaxTrajId,        \* local_data_.traj_id_
   hold : BOOLEAN,                \* local_data_ is an emergency hold
   target : Targets,              \* what local_data_ was planned towards
   progress_id : TrajIds \cup {NoTraj},   \* local_progress_traj_id_
   bspline : 0..MaxTrajId \cup {NoTraj},  \* last bspline id; 0: none yet
   granted : TrajIds \cup {NoTraj},       \* id in the last heartbeat
   task : Targets,                \* history: the task that last took over
   out : Seq(Heartbeats \cup Bsplines)]   \* messages of the last callback

TypeOK == fsm \in FsmStates

InitState(mode) ==
  [navi_mode |-> mode, exec_state |-> "INIT", tf_ready |-> ~RequireTf, have_odom |-> FALSE,
   odom_timeout_active |-> FALSE, trigger |-> FALSE, have_target |-> FALSE,
   preset_started |-> FALSE, goal_height_ready |-> FALSE,
   pending_path |-> NoTask,
   replan_fail_count |-> 0, flag_escape_emergency |-> TRUE,
   need_hover_stop |-> FALSE, active_waypoints |-> 0, current_wp |-> 0,
   reference_path_active |-> FALSE, cancel_pending |-> FALSE,
   route_outcome |-> "NONE", mission |-> NoMission, end_pt |-> NoTask,
   task_revision |-> 0, traj_id |-> 0, hold |-> FALSE, target |-> NoTask,
   progress_id |-> NoTraj, bspline |-> 0, granted |-> NoTraj, task |-> NoTask,
   out |-> << >>]

Init == \E mode \in NaviModes : fsm = InitState(mode)
-----------------------------------------------------------------------------
(* Helpers: what each one does to the members and what it publishes.       *)

Idle == [fsm EXCEPT !.out = << >>]       \* the state a callback starts from

HeartbeatAllows(s) ==
  /\ s.exec_state \in Moving
  /\ s.traj_id > 0 /\ s.progress_id = s.traj_id

Authority(s) == IF HeartbeatAllows(s) THEN s.traj_id ELSE NoTraj

PublishPlannerHeartbeat(s) ==
  [s EXCEPT !.granted = Authority(s),
            !.out = Append(@, [topic |-> "heartbeat", id |-> Authority(s)])]

PublishBspline(s, id) ==
  [s EXCEPT !.bspline = id, !.out = Append(@, [topic |-> "bspline", id |-> id])]

PublishTrajectoryClear(s) ==
  PublishPlannerHeartbeat([PublishBspline(s, NoTraj) EXCEPT !.progress_id = NoTraj])

(* Faulty variant: a state change waits for the timer to be announced.     *)
ChangeFSMExecStateSilent(s, new) ==
  LET entered == [s EXCEPT !.exec_state = new,
                           !.progress_id = IF new = "EMERGENCY_STOP" THEN NoTraj ELSE @]
  IN  IF new # s.exec_state /\ new = "WAIT_TARGET" THEN PublishTrajectoryClear(entered)
      ELSE entered

ChangeFSMExecState(s, new) ==
  LET entered == [s EXCEPT !.exec_state = new,
                           !.progress_id = IF new = "EMERGENCY_STOP" THEN NoTraj ELSE @]
  IN  IF new = s.exec_state THEN s
      ELSE IF new = "WAIT_TARGET" THEN PublishTrajectoryClear(entered)
      ELSE PublishPlannerHeartbeat(entered)

AdvanceTaskRevision(s) == [s EXCEPT !.task_revision = (@ + 1) % RevModulus]

(* The trigger a newly accepted task gives the state machine.              *)
TriggerPlanning(s) ==
  IF s.exec_state = "WAIT_TARGET" THEN ChangeFSMExecState(s, "GEN_NEW_TRAJ")
  ELSE IF s.exec_state = "EXEC_TRAJ" THEN ChangeFSMExecState(s, "REPLAN_TRAJ")
  ELSE s

(* The route, and the whole task, that a loss of localisation or a jump of *)
(* the clock takes away.                                                   *)
DropRoute(s) ==
  [s EXCEPT !.reference_path_active = FALSE, !.cancel_pending = FALSE,
            !.mission = NoMission]

(* Faulty variant: the state machine is not sent back to INIT.             *)
DropTaskKeepsState(s) ==
  [DropRoute(s) EXCEPT !.trigger = FALSE, !.have_target = FALSE,
                       !.active_waypoints = 0, !.preset_started = FALSE]

DropTask(s) ==
  [DropRoute(s) EXCEPT !.trigger = FALSE, !.have_target = FALSE,
                       !.active_waypoints = 0, !.preset_started = FALSE,
                       !.exec_state = "INIT"]

(* Faulty variants: the hover stop is forgotten; the limit is one too late.*)
FinishProcessNoHover(s) ==
  IF s.replan_fail_count < MaxFail THEN s
  ELSE ChangeFSMExecState(
         AdvanceTaskRevision(
           [s EXCEPT !.replan_fail_count = 0, !.flag_escape_emergency = TRUE,
                     !.route_outcome = IF s.reference_path_active /\ @ = "NONE"
                                       THEN "ABORTED" ELSE @]),
         "EMERGENCY_STOP")
FinishProcessLate(s) ==
  IF s.replan_fail_count <= MaxFail THEN s
  ELSE ChangeFSMExecState(
         AdvanceTaskRevision(
           [s EXCEPT !.replan_fail_count = 0, !.need_hover_stop = TRUE,
                     !.flag_escape_emergency = TRUE]), "EMERGENCY_STOP")

FinishProcess(s) ==
  IF s.replan_fail_count < MaxFail THEN s
  ELSE ChangeFSMExecState(
         AdvanceTaskRevision(
           [s EXCEPT !.replan_fail_count = 0, !.need_hover_stop = TRUE,
                     !.flag_escape_emergency = TRUE,
                     !.route_outcome = IF s.reference_path_active /\ @ = "NONE"
                                       THEN "ABORTED" ELSE @]),
         "EMERGENCY_STOP")

-----------------------------------------------------------------------------
(* Local planning: the outcomes of the optimiser and the commit boundary.  *)

Failed(s) == [ok |-> FALSE, st |-> s]
(* Faulty variant: the id wraps one too late.                              *)
NextTrajIdLate(s) == IF s.traj_id > MaxTrajId THEN 1 ELSE s.traj_id + 1

NextTrajId(s) == IF s.traj_id >= MaxTrajId THEN 1 ELSE s.traj_id + 1

(* commitLocalTrajectory replaces local_data_; the members that follow its *)
(* progress are set by the caller, so they still name the old trajectory.  *)
CommitLocalTrajectory(s) ==
  [s EXCEPT !.traj_id = NextTrajId(s), !.hold = FALSE, !.target = s.end_pt]

(* Faulty variant: the heartbeat is sent before the trajectory.            *)
ReboundOutcomesHeartbeatFirst(s) ==
  LET c == CommitLocalTrajectory(s) IN
  { Failed(s),
    Failed(PublishTrajectoryClear(c)),
    [ok |-> TRUE,
     st |-> PublishBspline(
              PublishPlannerHeartbeat([c EXCEPT !.progress_id = c.traj_id]), c.traj_id)] }

(* callReboundReplan: no candidate is committed; one is committed but its  *)
(* spatial progress cannot be initialised, so it is cleared again; or it   *)
(* is committed, published and announced.                                  *)
ReboundOutcomes(s) ==
  LET c == CommitLocalTrajectory(s) IN
  { Failed(s),
    Failed(PublishTrajectoryClear(c)),
    [ok |-> TRUE,
     st |-> PublishPlannerHeartbeat(
              PublishBspline([c EXCEPT !.progress_id = c.traj_id], c.traj_id))] }

(* planFromCurrentTraj: refuse without matching progress, fail to refresh  *)
(* the global trajectory, or try the optimiser twice.                      *)
ReplanOutcomes(s) ==
  IF s.progress_id # s.traj_id THEN {Failed(s)}
  ELSE UNION {IF r.ok THEN {r} ELSE ReboundOutcomes(r.st) : r \in ReboundOutcomes(s)}

CallEmergencyStop(s) ==
  LET h == [s EXCEPT !.traj_id = NextTrajId(s), !.hold = TRUE, !.target = Here,
                     !.progress_id = NextTrajId(s)]
  IN  PublishPlannerHeartbeat(PublishBspline(h, h.traj_id))

-----------------------------------------------------------------------------
(* Tasks.                                                                  *)

(* planNextWaypoint: end_pt_ moves to the waypoint before planning may     *)
(* fail; have_target_ is set only on success.                              *)
NextWaypointOutcomes(s) ==
  LET aimed == [s EXCEPT !.end_pt = Preset] IN
  { Failed(aimed), [ok |-> TRUE, st |-> [aimed EXCEPT !.have_target = TRUE]] }

PresetOutcomes(s) ==
  LET started == AdvanceTaskRevision(
        [s EXCEPT !.mission = NoMission, !.active_waypoints = NumWaypoints,
                  !.current_wp = 0, !.trigger = TRUE, !.task = Preset])
  IN  {IF r.ok THEN ChangeFSMExecState(r.st, "GEN_NEW_TRAJ") ELSE r.st :
         r \in NextWaypointOutcomes(started)}

(* Faulty variants: the task revision, or the last outcome, is left alone. *)
RouteOutcomesSameRevision(s, r, m) ==
  LET taken   == [s EXCEPT !.trigger = TRUE, !.reference_path_active = FALSE,
                           !.mission = m, !.task = r]
      planned == [taken EXCEPT !.end_pt = r, !.have_target = TRUE,
                               !.reference_path_active = TRUE,
                               !.route_outcome = "NONE"]
  IN  { Failed([taken EXCEPT !.have_target = FALSE, !.mission = NoMission]),
        [ok |-> TRUE, st |-> TriggerPlanning(planned)] }
RouteOutcomesKeepsOutcome(s, r, m) ==
  LET taken   == AdvanceTaskRevision(
                   [s EXCEPT !.trigger = TRUE, !.reference_path_active = FALSE,
                             !.mission = m, !.task = r])
      planned == [taken EXCEPT !.end_pt = r, !.have_target = TRUE,
                               !.reference_path_active = TRUE]
  IN  { [ok |-> TRUE, st |-> TriggerPlanning(planned)] }

(* startFollowRoute once every pose is in the goal frame: the route takes  *)
(* over, then its clean-up, its global plan, or nothing may fail.          *)
RouteOutcomes(s, r, m) ==
  LET taken   == AdvanceTaskRevision(
                   [s EXCEPT !.trigger = TRUE, !.reference_path_active = FALSE,
                             !.mission = m, !.task = r])
      refused == [taken EXCEPT !.mission = NoMission]
      planned == [taken EXCEPT !.end_pt = r, !.have_target = TRUE,
                               !.reference_path_active = TRUE,
                               !.route_outcome = "NONE"]
  IN  { Failed([refused EXCEPT !.have_target = FALSE]),
        Failed([refused EXCEPT !.end_pt = r]),
        [ok |-> TRUE, st |-> TriggerPlanning(planned)] }

CancelFollowRoute(s) ==
  IF s.navi_mode # REFERENCE_PATH \/ ~s.reference_path_active \/ s.cancel_pending
  THEN s
  ELSE [AdvanceTaskRevision(s) EXCEPT !.cancel_pending = TRUE]

ResetFollowRouteCancel(s) == [s EXCEPT !.cancel_pending = FALSE]

-----------------------------------------------------------------------------
(* Subscriptions.                                                          *)

(* A goal: refused for its height, refused by the global planner after     *)
(* end_pt_ has moved to it, or accepted.  (One that cannot be transformed  *)
(* changes nothing.)                                                       *)
WaypointCallback ==
  /\ fsm.navi_mode = MANUAL_TARGET /\ TopicTasks /\ fsm.goal_height_ready
  /\ \E g \in Tasks :
       LET heard == [Idle EXCEPT !.trigger = TRUE]
           aimed == [heard EXCEPT !.end_pt = g]
       IN  \/ fsm' = heard
           \/ fsm' = aimed
           \/ fsm' = TriggerPlanning(AdvanceTaskRevision(
                       [aimed EXCEPT !.mission = NoMission, !.have_target = TRUE,
                                     !.task = g]))

PathCallback ==
  /\ fsm.navi_mode = REFERENCE_PATH /\ TopicTasks
  /\ \E r \in Tasks :
       \/ /\ ~fsm.have_odom
          /\ fsm' = [Idle EXCEPT !.pending_path = r]
       \/ /\ fsm.have_odom
          /\ \E o \in RouteOutcomes(Idle, r, NoMission) : fsm' = o.st

(* What a valid pose does before the task it may start: a receive time     *)
(* before the previous one drops everything first.                         *)
PoseTaken(back) ==
  LET s == IF back THEN DropTask(PublishTrajectoryClear(AdvanceTaskRevision(Idle)))
           ELSE Idle
  IN  [s EXCEPT !.have_odom = TRUE, !.odom_timeout_active = FALSE,
                !.goal_height_ready = @ \/ fsm.navi_mode = MANUAL_TARGET]

OdometryCallback ==
  /\ fsm.tf_ready
  /\ \E back \in {FALSE} \cup {b \in {ClockJumps} : b /\ fsm.have_odom} :
       LET s       == PoseTaken(back)
           pending == fsm.navi_mode = REFERENCE_PATH /\ s.pending_path # NoTask
           preset  == fsm.navi_mode = PRESET_TARGET /\ ~s.preset_started
       IN  \/ /\ pending
              /\ fsm' = [s EXCEPT !.pending_path = NoTask]
           \/ /\ pending
              /\ \E o \in RouteOutcomes([s EXCEPT !.pending_path = NoTask],
                                        s.pending_path, NoMission) : fsm' = o.st
           \/ /\ preset
              /\ fsm' \in PresetOutcomes([s EXCEPT !.preset_started = TRUE])
           \/ /\ ~pending /\ ~preset
              /\ fsm' = s

TfReadyCallback ==
  /\ RequireTf
  /\ \/ fsm' = [Idle EXCEPT !.tf_ready = TRUE]
     \/ LET s == IF fsm.tf_ready \/ fsm.have_odom
                 THEN PublishTrajectoryClear(AdvanceTaskRevision(Idle)) ELSE Idle
        IN  fsm' = [DropTask(s) EXCEPT !.tf_ready = FALSE, !.have_odom = FALSE]

-----------------------------------------------------------------------------
(* Timers.                                                                 *)

(* Faulty variant: the timeout leaves no outcome for the route.            *)
ExecOdomTimeoutSilent ==
  /\ fsm.tf_ready /\ fsm.have_odom
  /\ LET s == IF fsm.odom_timeout_active THEN Idle
              ELSE PublishTrajectoryClear(AdvanceTaskRevision(Idle))
     IN  fsm' = DropTask([s EXCEPT !.odom_timeout_active = TRUE, !.have_odom = FALSE])

ExecOdomTimeout ==
  /\ fsm.tf_ready /\ fsm.have_odom
  /\ LET s == IF fsm.odom_timeout_active THEN Idle
              ELSE PublishTrajectoryClear(AdvanceTaskRevision(Idle))
     IN  fsm' = DropTask(
           [s EXCEPT !.odom_timeout_active = TRUE, !.have_odom = FALSE,
                     !.route_outcome = IF s.reference_path_active /\ @ = "NONE"
                                       THEN "LOCALIZATION_LOST" ELSE @])

ExecIn(state) == fsm.tf_ready /\ fsm.exec_state = state

ExecInit ==
  /\ ExecIn("INIT") /\ fsm.have_odom /\ fsm.trigger
  /\ fsm' = FinishProcess(ChangeFSMExecState(Idle, "WAIT_TARGET"))

ExecWaitTarget ==
  /\ ExecIn("WAIT_TARGET") /\ fsm.have_target
  /\ fsm' = FinishProcess(ChangeFSMExecState(Idle, "GEN_NEW_TRAJ"))

(* Faulty variant: failures are not counted.                               *)
PlannedUncounted(r) ==
  IF r.ok THEN ChangeFSMExecState([r.st EXCEPT !.replan_fail_count = 0], "EXEC_TRAJ")
  ELSE r.st

Planned(r) ==
  IF r.ok THEN ChangeFSMExecState([r.st EXCEPT !.replan_fail_count = 0], "EXEC_TRAJ")
  ELSE [r.st EXCEPT !.replan_fail_count = @ + 1]

(* Faulty variant: success does not arm the next emergency hold.           *)
ExecGenNewTrajUnarmed ==
  /\ ExecIn("GEN_NEW_TRAJ")
  /\ \E r \in ReboundOutcomes(Idle) : fsm' = FinishProcess(Planned(r))

ExecGenNewTraj ==
  /\ ExecIn("GEN_NEW_TRAJ")
  /\ \E r \in ReboundOutcomes(Idle) :
       fsm' = FinishProcess([Planned(r) EXCEPT !.flag_escape_emergency = @ \/ r.ok])

ExecReplanTraj ==
  /\ ExecIn("REPLAN_TRAJ")
  /\ \E r \in ReplanOutcomes(Idle) : fsm' = FinishProcess(Planned(r))

ExecCancel ==
  /\ ExecIn("EXEC_TRAJ") /\ fsm.cancel_pending
  /\ fsm' = ChangeFSMExecState(
       [Idle EXCEPT !.cancel_pending = FALSE, !.end_pt = Here, !.have_target = TRUE,
                    !.reference_path_active = FALSE, !.trigger = TRUE],
       "REPLAN_TRAJ")

(* EXEC_TRAJ first checks that local_data_ still has its progress.  The    *)
(* branch for one that lost it has no action: see ExecKeepsProgress.       *)
Following    == /\ ExecIn("EXEC_TRAJ") /\ ~fsm.cancel_pending
                /\ fsm.progress_id = fsm.traj_id
MoreWaypoints == fsm.navi_mode = PRESET_TARGET /\ fsm.current_wp + 1 < fsm.active_waypoints
OnRoute       == fsm.navi_mode = REFERENCE_PATH /\ fsm.reference_path_active

(* Near the current waypoint, or at the end of the local trajectory.       *)
ExecNextWaypoint ==
  /\ Following /\ MoreWaypoints
  /\ \E r \in NextWaypointOutcomes([Idle EXCEPT !.current_wp = @ + 1]) :
       fsm' = ChangeFSMExecState(
                IF r.ok THEN r.st ELSE [r.st EXCEPT !.replan_fail_count = @ + 1],
                "GEN_NEW_TRAJ")

ExecRouteContinue ==
  /\ Following /\ fsm.have_odom /\ OnRoute
  /\ fsm' = ChangeFSMExecState(Idle, "GEN_NEW_TRAJ")

ExecRouteDone ==
  /\ Following /\ fsm.have_odom /\ OnRoute
  /\ fsm' = ChangeFSMExecState(
       AdvanceTaskRevision(
         [Idle EXCEPT !.reference_path_active = FALSE, !.have_target = FALSE,
                      !.route_outcome = "SUCCEEDED", !.mission = NoMission]),
       "WAIT_TARGET")

ExecTaskDone ==
  /\ Following /\ fsm.have_odom /\ ~OnRoute /\ ~MoreWaypoints
  /\ fsm' = ChangeFSMExecState(
       AdvanceTaskRevision(
         [Idle EXCEPT !.active_waypoints = IF fsm.navi_mode = PRESET_TARGET THEN 0 ELSE @,
                      !.current_wp = IF fsm.navi_mode = PRESET_TARGET THEN 0 ELSE @,
                      !.have_target = FALSE, !.mission = NoMission]),
       "WAIT_TARGET")

ExecReplanDue ==
  /\ Following
  /\ fsm' = FinishProcess(ChangeFSMExecState(Idle, "REPLAN_TRAJ"))

(* Faulty variant: the request for a hold is never withdrawn.              *)
ExecEmergencyHoldAgain ==
  /\ ExecIn("EMERGENCY_STOP") /\ fsm.flag_escape_emergency
  /\ fsm' = FinishProcess(CallEmergencyStop(Idle))

ExecEmergencyHold ==
  /\ ExecIn("EMERGENCY_STOP") /\ fsm.flag_escape_emergency
  /\ fsm' = FinishProcess([CallEmergencyStop(Idle) EXCEPT !.flag_escape_emergency = FALSE])

(* The hold has been published and the robot reports (almost) no speed.    *)
ExecEmergencyRecover ==
  /\ ExecIn("EMERGENCY_STOP") /\ ~fsm.flag_escape_emergency
  /\ FailSafe /\ ~fsm.need_hover_stop
  /\ fsm' = FinishProcess(ChangeFSMExecState(Idle, "GEN_NEW_TRAJ"))

(* Faulty variants: the abandoned route, or the whole task, is kept.       *)
ExecEmergencyExitKeepsRoute ==
  /\ ExecIn("EMERGENCY_STOP") /\ ~fsm.flag_escape_emergency
  /\ FailSafe /\ fsm.need_hover_stop
  /\ fsm' = FinishProcess(ChangeFSMExecState(
       [Idle EXCEPT !.need_hover_stop = FALSE, !.have_target = FALSE,
                    !.trigger = FALSE], "WAIT_TARGET"))
ExecEmergencyExitKeepsTask ==
  /\ ExecIn("EMERGENCY_STOP") /\ ~fsm.flag_escape_emergency
  /\ FailSafe /\ fsm.need_hover_stop
  /\ fsm' = FinishProcess(ChangeFSMExecState(
       [Idle EXCEPT !.need_hover_stop = FALSE], "WAIT_TARGET"))

ExecEmergencyExit ==
  /\ ExecIn("EMERGENCY_STOP") /\ ~fsm.flag_escape_emergency
  /\ FailSafe /\ fsm.need_hover_stop
  /\ fsm' = FinishProcess(ChangeFSMExecState(
       [Idle EXCEPT !.need_hover_stop = FALSE, !.have_target = FALSE,
                    !.trigger = FALSE, !.reference_path_active = FALSE],
       "WAIT_TARGET"))

(* Faulty variant: the safety timer acts in every state.                   *)
SafetyChecksAnyState == fsm.have_odom /\ fsm.progress_id = fsm.traj_id

SafetyChecks == /\ fsm.have_odom /\ fsm.exec_state \in Moving
                /\ fsm.progress_id = fsm.traj_id

(* Off the path, recovery sweep unbounded or occupied, obstacle close by.  *)
SafetyStop ==
  /\ SafetyChecks
  /\ fsm' = ChangeFSMExecState(Idle, "EMERGENCY_STOP")

(* Faulty variant: a failed replan leaves the state as it is.              *)
SafetyReplanStays ==
  /\ SafetyChecks
  /\ \E r \in ReplanOutcomes(Idle) :
       fsm' = IF r.ok THEN ChangeFSMExecState(r.st, "EXEC_TRAJ") ELSE r.st

(* A far obstacle: replan while still executing.                           *)
SafetyReplan ==
  /\ SafetyChecks
  /\ \E r \in ReplanOutcomes(Idle) :
       fsm' = ChangeFSMExecState(r.st, IF r.ok THEN "EXEC_TRAJ" ELSE "REPLAN_TRAJ")

HeartbeatTimer == fsm' = PublishPlannerHeartbeat(Idle)

-----------------------------------------------------------------------------
ExecFSMCallback ==
  \/ ExecOdomTimeout \/ ExecInit \/ ExecWaitTarget \/ ExecGenNewTraj
  \/ ExecReplanTraj \/ ExecCancel \/ ExecNextWaypoint
  \/ ExecRouteContinue \/ ExecRouteDone \/ ExecTaskDone \/ ExecReplanDue
  \/ ExecEmergencyHold \/ ExecEmergencyRecover \/ ExecEmergencyExit

CheckCollisionCallback == SafetyStop \/ SafetyReplan

Subscriptions ==
  WaypointCallback \/ PathCallback \/ OdometryCallback \/ TfReadyCallback

Callbacks ==
  ExecFSMCallback \/ CheckCollisionCallback \/ HeartbeatTimer \/ Subscriptions

(* What the action server (FollowRouteServer) may call, in callbacks of    *)
(* its own: a route of a mission, once the cancel of the last one has been *)
(* reset; a cancel; the reset of a cancel.                                 *)
StartCall ==
  /\ fsm.navi_mode = REFERENCE_PATH /\ fsm.have_odom /\ ~fsm.cancel_pending
  /\ \E r \in Tasks, m \in Missions :
       \E o \in RouteOutcomes(Idle, r, m) : fsm' = o.st

CancelCall == fsm' = CancelFollowRoute(Idle)

ResetCall == fsm' = ResetFollowRouteCancel(Idle)

ServerCalls == StartCall \/ CancelCall \/ ResetCall

Next == Callbacks \/ ServerCalls

Spec == Init /\ [][Next]_fsm

(* The executor keeps serving the 10 ms timer.  A callback that finds      *)
(* nothing to do is a stuttering step, so weak fairness also says that a   *)
(* robot under an emergency hold at last reports that it stands.  The pose *)
(* may time out in this timer, and need not.                               *)
ExecServed == ExecFSMCallback /\ fsm'.have_odom = fsm.have_odom

FairSpec == Spec /\ WF_fsm(ExecServed)

-----------------------------------------------------------------------------
(* Properties.                                                             *)

(* Every state change that alters the right to move is announced in the    *)
(* callback that makes it: the last heartbeat always says what a heartbeat *)
(* sent now would say, and never waits for the 20 Hz timer (the promise of *)
(* changeFSMExecState and publishTrajectoryClear).                         *)
AuthorityCurrent == fsm.granted = Authority(fsm)

(* A trajectory under execution never loses its spatial progress, whatever *)
(* failed replans, clears and localisation losses come between: the error  *)
(* branch of EXEC_TRAJ for a lost "spatial-progress identity" is dead.     *)
ExecKeepsProgress ==
  fsm.exec_state = "EXEC_TRAJ" => fsm.progress_id = fsm.traj_id

(* A hold must be published for every emergency: once the FSM has stopped  *)
(* asking for one, the controller's latched trajectory is that hold.  The  *)
(* flag that asks for it is armed far away, on success in GEN_NEW_TRAJ.    *)
EmergencyHeld ==
  /\ fsm.exec_state \in Moving => fsm.flag_escape_emergency
  /\ fsm.exec_state = "EMERGENCY_STOP" /\ ~fsm.flag_escape_emergency =>
       fsm.hold /\ fsm.bspline = fsm.traj_id

(* The FSM leaves INIT only with a ready transform tree and a pose, and    *)
(* any loss of either, from any state, brings it back.  A pose that is     *)
(* counted as present is never one whose timeout is already being served.  *)
LocalisedOutsideInit ==
  /\ fsm.exec_state # "INIT" => fsm.tf_ready /\ fsm.have_odom
  /\ fsm.have_odom => ~fsm.odom_timeout_active

(* An active reference route is the task the planner is pursuing: it has a *)
(* target and the planner aims at the end of that very route.              *)
ActiveRoutePursued ==
  fsm.reference_path_active =>
    fsm.have_target /\ fsm.trigger /\ fsm.end_pt = fsm.task

(* A route whose outcome is already decided is never driven again: after   *)
(* ABORTED it stays active only until the emergency stop is left.          *)
TerminalRouteNotDriven ==
  fsm.reference_path_active /\ fsm.route_outcome # "NONE" =>
    /\ fsm.route_outcome = "ABORTED"
    /\ fsm.exec_state = "EMERGENCY_STOP" /\ fsm.need_hover_stop

(* Failures are counted across callbacks that skip finishProcess, yet the  *)
(* count never passes the limit, and no motion is allowed at the limit.    *)
FailureLimit ==
  /\ fsm.replan_fail_count <= MaxFail
  /\ fsm.exec_state \in Moving => fsm.replan_fail_count < MaxFail

(* The id of the last bspline message before message i of a callback.      *)
LatestBspline(before, msgs, i) ==
  LET earlier == {j \in 1..(i - 1) : msgs[j].topic = "bspline"}
  IN  IF earlier = {} THEN before
      ELSE msgs[CHOOSE j \in earlier : \A k \in earlier : k <= j].id

(* A heartbeat that authorises a trajectory never overtakes it: the        *)
(* trajectory is what the bspline topic holds when the heartbeat is sent.  *)
AuthorityFollowsBspline ==
  [][\A i \in DOMAIN fsm'.out :
       fsm'.out[i].topic = "heartbeat" /\ fsm'.out[i].id # NoTraj =>
         fsm'.out[i].id = LatestBspline(fsm.bspline, fsm'.out, i)]_fsm

(* The state machine is a MotionAuthority, which is what the controller    *)
(* relies on: the latched bspline is what the last heartbeat may grant,    *)
(* and authority once revoked or replaced is never given back to an old    *)
(* trajectory (no timer or state change resurrects the one that INIT,      *)
(* GEN_NEW_TRAJ and EMERGENCY_STOP keep in local_data_).                   *)
Abstract == INSTANCE MotionAuthority
  WITH Trajs <- TrajIds, latched <- IF fsm.bspline = 0 THEN NoTraj ELSE fsm.bspline,
       granted <- fsm.granted
ServesAsAuthority == Abstract!Spec

(* Whatever takes the robot's task over, or takes its route away, makes    *)
(* earlier candidates stale.  (Two are excepted, whose revision advanced   *)
(* when they began: leaving EMERGENCY_STOP after the failure limit, and    *)
(* the controlled stop of a route whose cancel had been requested.)        *)
TakeoverAdvancesRevision ==
  [][\/ fsm'.task # fsm.task
     \/ /\ fsm.reference_path_active /\ ~fsm'.reference_path_active
        /\ fsm.exec_state # "EMERGENCY_STOP" /\ ~fsm.cancel_pending
     => fsm'.task_revision # fsm.task_revision]_fsm

(* Planning never goes on for ever without a verdict: it succeeds, reaches *)
(* the failure limit, or localisation is lost.  This covers a replan whose *)
(* trajectory lost its progress and can never succeed.                     *)
PlanningDecides ==
  fsm.exec_state \in {"GEN_NEW_TRAJ", "REPLAN_TRAJ"} ~>
    fsm.exec_state \in {"EXEC_TRAJ", "EMERGENCY_STOP", "INIT"}

(* With the fail-safe enabled an emergency stop is always left.            *)
EmergencyLeft == fsm.exec_state = "EMERGENCY_STOP" ~> fsm.exec_state # "EMERGENCY_STOP"

(* startFollowRoute: "A syntactically valid new route supersedes the       *)
(* previous task even when geometry cleanup or global planning later       *)
(* fails."  So motion authorised afterwards is not motion along a fresh    *)
(* trajectory towards the superseded task.                                 *)
GrantServesCurrentTask ==
  [][fsm'.granted \notin {NoTraj, fsm.granted} => fsm'.target \in {Here, fsm'.task}]_fsm
=============================================================================
