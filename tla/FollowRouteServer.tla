------------------------- MODULE FollowRouteServer -------------------------
(***************************************************************************)
(* The /omni/navigation/follow_route action server, composed with the      *)
(* state machine it drives.  Both live in the planner node and share its   *)
(* single-threaded executor: goal, cancel and monitor callbacks interleave *)
(* with the callbacks of ReplanFSM, one at a time.                         *)
(*                                                                         *)
(* Time is counted in periods of the monitor timer.  A cancel that races   *)
(* the accept cannot happen on a single-threaded executor (the goal and    *)
(* accepted callbacks run in one dispatch), so that branch has no action.  *)
(***************************************************************************)
EXTENDS ReplanFSM, FiniteSets

CONSTANTS
  CancelStopTimeout,   \* kCancelStopTimeoutSec, in monitor periods
  StuckTimeout,        \* stuck_timeout_sec_, in monitor periods
  MaxFinished          \* MAX_FINISHED_MISSION_IDS

ASSUME ServerAssumption ==
  /\ {CancelStopTimeout, StuckTimeout, MaxFinished} \subseteq Nat \ {0}
  /\ NoMission \notin Missions       \* a goal with an empty id is rejected

Never == -1            \* a time stamp that is not set
Reasons == {"NONE", "OK", "USER_CANCELED", "ABORTED", "GOAL_REJECTED",
            "LOCALIZATION_LOST"}

VARIABLES
  mission,     \* mission_: id, flags, and the age of its two time stamps
  finished,    \* finished_mission_ids_
  result,      \* history: the last result sent
  completed    \* history: missions whose own route ran to its end

server == << mission, finished, result, completed >>
vars   == << fsm, server >>

NoActiveMission ==
  [active |-> FALSE, id |-> NoMission, cancel_requested |-> FALSE,
   cancel_age |-> Never, emergency_age |-> Never,
   cancel_from |-> "INIT", hover |-> FALSE]   \* history of cancel and accept
NoResult ==
  [id |-> NoMission, reason |-> "NONE", text |-> "", cancel_from |-> "INIT"]

ServerTypeOK ==
  /\ TypeOK
  /\ mission \in [active : BOOLEAN, id : Missions \cup {NoMission},
                  cancel_requested : BOOLEAN,
                  cancel_age : Never..(CancelStopTimeout + 1),
                  emergency_age : Never..(StuckTimeout + 1),
                  cancel_from : ExecStates, hover : BOOLEAN]
  /\ finished \subseteq Missions /\ Cardinality(finished) <= MaxFinished
  /\ completed \subseteq Missions
  /\ result.reason \in Reasons /\ result.id \in Missions \cup {NoMission}

ServerInit ==
  /\ Init
  /\ mission = NoActiveMission /\ result = NoResult
  /\ finished = {} /\ completed = {}

-----------------------------------------------------------------------------
(* Faulty variant: the cancel of the mission is not withdrawn.             *)
FinishKeepsCancel(m, s, reason, text) ==
  /\ mission' = [m EXCEPT !.active = FALSE]
  /\ finished' = finished \cup {m.id}
  /\ fsm' = s
  /\ result' = [id |-> m.id, reason |-> reason, text |-> text,
                cancel_from |-> m.cancel_from]
  /\ UNCHANGED completed

(* finish() for the mission record m, with the planner in state s.         *)
Finish(m, s, reason, text) ==
  /\ mission' = [m EXCEPT !.active = FALSE]
  /\ finished' = IF Cardinality(finished) >= MaxFinished THEN {m.id}
                 ELSE finished \cup {m.id}
  /\ fsm' = ResetFollowRouteCancel(s)
  /\ result' = [id |-> m.id, reason |-> reason, text |-> text,
                cancel_from |-> m.cancel_from]
  /\ UNCHANGED completed

(* handleGoal accepts, and handleAccepted starts the route; a pose that    *)
(* cannot be transformed refuses it before the planner changes anything.   *)
HandleGoal ==
  /\ fsm.navi_mode = REFERENCE_PATH /\ ~mission.active /\ fsm.have_odom
  /\ \E id \in Missions \ finished, r \in Tasks :
       LET m == [NoActiveMission EXCEPT !.active = TRUE, !.id = id,
                                        !.hover = fsm.need_hover_stop]
       IN  \E o \in RouteOutcomes(Idle, r, id) \cup {Failed(Idle)} :
             \/ /\ o.ok
                /\ mission' = m /\ fsm' = o.st
                /\ UNCHANGED << finished, result, completed >>
             \/ /\ ~o.ok
                /\ Finish(m, o.st, "GOAL_REJECTED", "not accepted")

(* A goal already canceling is not canceled again by the action library.   *)
HandleCancel ==
  /\ mission.active /\ ~mission.cancel_requested
  /\ mission' = [mission EXCEPT !.cancel_requested = TRUE, !.cancel_age = 0,
                                !.cancel_from = fsm.exec_state]
  /\ fsm' = CancelFollowRoute(Idle)
  /\ UNCHANGED << finished, result, completed >>

(* Faulty variants: the cancel clock runs without a cancel; a clock is     *)
(* started again in every period.                                          *)
AgedWithoutCancel == [mission EXCEPT
  !.cancel_age = @ + 1,
  !.emergency_age = IF fsm.exec_state = "EMERGENCY_STOP" THEN @ + 1 ELSE Never]
AgedCancelRestarts == [mission EXCEPT
  !.cancel_age = IF mission.cancel_requested THEN 0 ELSE @,
  !.emergency_age = IF fsm.exec_state = "EMERGENCY_STOP" THEN @ + 1 ELSE Never]
AgedStuckRestarts == [mission EXCEPT
  !.cancel_age = IF mission.cancel_requested THEN @ + 1 ELSE @,
  !.emergency_age = IF fsm.exec_state = "EMERGENCY_STOP" THEN 0 ELSE Never]

(* The time stamps as the monitor sees them: one period older, the stuck   *)
(* clock started on the first sight of an emergency and stopped after it.  *)
Aged == [mission EXCEPT
  !.cancel_age = IF mission.cancel_requested THEN @ + 1 ELSE @,
  !.emergency_age = IF fsm.exec_state = "EMERGENCY_STOP" THEN @ + 1 ELSE Never]

MonitorVerdict(m) ==
  LET lost == fsm.route_outcome = "LOCALIZATION_LOST" IN
  IF fsm.route_outcome = "SUCCEEDED" THEN << "OK", "completed" >>
  ELSE IF m.cancel_requested /\ (~fsm.have_odom \/ lost)
       THEN << "LOCALIZATION_LOST", "while canceling" >>
  ELSE IF m.cancel_requested /\ fsm.exec_state \in {"WAIT_TARGET", "INIT"}
       THEN << "USER_CANCELED", "stopped" >>
  ELSE IF m.cancel_requested /\ m.cancel_age > CancelStopTimeout
       THEN << "USER_CANCELED", "timed out" >>
  ELSE IF fsm.route_outcome = "ABORTED" THEN << "ABORTED", "planner" >>
  ELSE IF lost THEN << "LOCALIZATION_LOST", "interrupted" >>
  ELSE IF m.emergency_age > StuckTimeout THEN << "ABORTED", "stuck" >>
  ELSE << "NONE", "" >>

MonitorCallback ==
  /\ mission.active
  /\ LET v == MonitorVerdict(Aged) IN
       \/ /\ v[1] # "NONE"
          /\ Finish(Aged, Idle, v[1], v[2])
       \/ /\ v[1] = "NONE"
          /\ mission' = Aged /\ fsm' = Idle
          /\ UNCHANGED << finished, result, completed >>

(* A callback of the state machine.  A mission's route ends when it leaves *)
(* the active state with the outcome SUCCEEDED.                            *)
FsmStep ==
  /\ Callbacks
  /\ completed' = IF /\ fsm.reference_path_active /\ ~fsm'.reference_path_active
                     /\ fsm'.route_outcome = "SUCCEEDED"
                  THEN completed \cup ({fsm.mission} \ {NoMission}) ELSE completed
  /\ UNCHANGED << mission, finished, result >>

ServerNext == FsmStep \/ HandleGoal \/ HandleCancel \/ MonitorCallback

ServerSpec == ServerInit /\ [][ServerNext]_vars

(* The executor keeps serving the monitor timer; nothing is asked of the   *)
(* planner, which may stay in any state it is in.                          *)
ServerFairSpec == ServerSpec /\ WF_vars(MonitorCallback)

(* The exec timer is served too, and the robot stops when it is told to.   *)
ExecutorFairSpec == ServerFairSpec /\ WF_vars(FsmStep /\ ExecServed)

-----------------------------------------------------------------------------
(* The server uses the state machine only in the way ReplanFSM is checked  *)
(* and proved for: it has always reset the cancel of one mission when it   *)
(* starts the next, though several callbacks set and reset it, and a goal  *)
(* may be refused, time out or lose its route between.                     *)
DrivesPlanner == Spec

Driving(id) == fsm.reference_path_active /\ fsm.mission = id

(* A goal succeeds only if its own route was followed to its end: the      *)
(* outcome the monitor polls is left by no earlier route.                  *)
SuccessIsEarned == result.reason = "OK" => result.id \in completed

(* Once the client has been told that its mission is over because it was   *)
(* completed, aborted by the planner, lost or stopped, the planner does    *)
(* not follow that mission's route with the right to move.  (Excluded are  *)
(* the two results that say the robot did not stop, and the cancel that    *)
(* arrived before planning began: see CancelBeforeStartIsFinal.)           *)
DecidedMissionNotDriven ==
  /\ result.text \notin {"", "timed out", "stuck"}
  /\ result.text = "stopped" => result.cancel_from \notin {"INIT", "WAIT_TARGET"}
  => ~(Driving(result.id) /\ fsm.granted # NoTraj)

(* Every cancel request gets a result, whatever the planner does.          *)
CancelAnswered == mission.active /\ mission.cancel_requested ~> ~mission.active

(* No mission waits for ever on a planner that cannot leave EMERGENCY_STOP.*)
EmergencyAnswered ==
  mission.active /\ fsm.exec_state = "EMERGENCY_STOP" ~>
    ~mission.active \/ fsm.exec_state # "EMERGENCY_STOP"

(* However the route of a mission ends, by completion, by the failure      *)
(* limit or with the pose, it leaves an outcome for the monitor to report. *)
(* (Excepted: a mission being canceled; one accepted while a hover stop    *)
(* was pending, see EveryGoalGetsResult; and the two losses that are known *)
(* to leave none, of the transform tree and of a monotone clock, see       *)
(* LocalisationLossAnswered.)                                              *)
NoOrphanMission ==
  [][/\ mission.active /\ ~mission.hover /\ ~mission.cancel_requested
     /\ fsm.reference_path_active /\ ~fsm'.reference_path_active
     /\ fsm'.tf_ready /\ (fsm'.exec_state = "INIT" => ~fsm'.have_odom)
     => fsm'.route_outcome # "NONE"]_vars

(* handleAccepted: "The action protocol requires a result for every        *)
(* accepted goal."  So a mission with no route left to follow gets one.    *)
EveryGoalGetsResult ==
  mission.active /\ ~fsm.reference_path_active ~> ~mission.active

(* README: a loss of localisation ends the goal with                       *)
(* REASON_LOCALIZATION_LOST.  So a mission is not left waiting, its route  *)
(* dropped, by a planner without localisation.                             *)
LocalisationLossAnswered ==
  mission.active /\ ~fsm.reference_path_active /\ ~fsm.have_odom ~> ~mission.active

(* The FSM's cancel comment: the goal is finalised "once the robot has     *)
(* stopped (or after a timeout)".  A route canceled and reported as        *)
(* stopped is not driven afterwards, whenever the cancel arrived.          *)
CancelBeforeStartIsFinal ==
  result.text = "stopped" => ~(Driving(result.id) /\ fsm.granted # NoTraj)
=============================================================================
