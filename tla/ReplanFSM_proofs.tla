-------------------------- MODULE ReplanFSM_proofs --------------------------
(***************************************************************************)
(* Proofs about ReplanFSM for every navigation mode, every set of tasks    *)
(* and missions and every bound.  A helper of the model is an operator     *)
(* from states to states, so each has its lemma here, and the proof that a *)
(* callback keeps an invariant follows the helpers the callback applies.   *)
(***************************************************************************)
EXTENDS ReplanFSM, TLAPS

-----------------------------------------------------------------------------
(* Types.                                                                  *)

LEMMA IdleType ==
  ASSUME TypeOK  PROVE  Idle \in FsmStates
<1>1. << >> \in Seq(Heartbeats \cup Bsplines)
  OBVIOUS
<1> QED
  BY <1>1, Zenon DEF TypeOK, Idle, FsmStates

(* A heartbeat changes what is granted and adds one message.               *)
LEMMA HeartbeatType ==
  ASSUME NEW s \in FsmStates
  PROVE  PublishPlannerHeartbeat(s) \in FsmStates
<1>1. Authority(s) \in TrajIds \cup {NoTraj}
  BY DEF Authority, HeartbeatAllows, FsmStates, TrajIds, NoTraj
<1>2. [topic |-> "heartbeat", id |-> Authority(s)] \in Heartbeats
  BY <1>1 DEF Heartbeats
<1>3. Append(s.out, [topic |-> "heartbeat", id |-> Authority(s)])
        \in Seq(Heartbeats \cup Bsplines)
  BY <1>2 DEF FsmStates
<1> QED
  BY <1>1, <1>3 DEF PublishPlannerHeartbeat, FsmStates

LEMMA BsplineType ==
  ASSUME NEW s \in FsmStates, NEW id \in TrajIds \cup {NoTraj}
  PROVE  PublishBspline(s, id) \in FsmStates
<1>1. [topic |-> "bspline", id |-> id] \in Bsplines
  BY DEF Bsplines
<1>2. Append(s.out, [topic |-> "bspline", id |-> id]) \in Seq(Heartbeats \cup Bsplines)
  BY <1>1 DEF FsmStates
<1>3. id \in 0..MaxTrajId \cup {NoTraj}
  BY FsmAssumption DEF TrajIds, NoTraj
<1> QED
  BY <1>2, <1>3 DEF PublishBspline, FsmStates

LEMMA ClearType ==
  ASSUME NEW s \in FsmStates
  PROVE  PublishTrajectoryClear(s) \in FsmStates
<1>1. PublishBspline(s, NoTraj) \in FsmStates
  BY BsplineType
<1>2. [PublishBspline(s, NoTraj) EXCEPT !.progress_id = NoTraj] \in FsmStates
  BY <1>1 DEF FsmStates
<1> QED
  BY <1>2, HeartbeatType DEF PublishTrajectoryClear

LEMMA ChangeStateType ==
  ASSUME NEW s \in FsmStates, NEW new \in ExecStates
  PROVE  ChangeFSMExecState(s, new) \in FsmStates
<1> DEFINE id      == IF new = "EMERGENCY_STOP" THEN NoTraj ELSE s.progress_id
           entered == [s EXCEPT !.exec_state = new, !.progress_id = id]
<1>1. id \in TrajIds \cup {NoTraj}
  BY DEF FsmStates
<1>2. entered \in FsmStates
  <2> HIDE DEF id
  <2> QED  BY <1>1, Zenon DEF FsmStates
<1>3. ChangeFSMExecState(s, new) =
        IF new = s.exec_state THEN s
        ELSE IF new = "WAIT_TARGET" THEN PublishTrajectoryClear(entered)
        ELSE PublishPlannerHeartbeat(entered)
  BY Zenon DEF ChangeFSMExecState
<1> HIDE DEF entered
<1> QED
  BY <1>2, <1>3, ClearType, HeartbeatType

LEMMA AdvanceType ==
  ASSUME NEW s \in FsmStates
  PROVE  AdvanceTaskRevision(s) \in FsmStates
<1>1. (s.task_revision + 1) % RevModulus \in 0..(RevModulus - 1)
  BY FsmAssumption DEF FsmStates
<1> QED
  BY <1>1, Zenon DEF AdvanceTaskRevision, FsmStates

LEMMA TriggerType ==
  ASSUME NEW s \in FsmStates
  PROVE  TriggerPlanning(s) \in FsmStates
<1>1. {"GEN_NEW_TRAJ", "REPLAN_TRAJ"} \subseteq ExecStates
  BY DEF ExecStates
<1> QED
  BY <1>1, ChangeStateType DEF TriggerPlanning

LEMMA DropRouteType ==
  ASSUME NEW s \in FsmStates
  PROVE  DropRoute(s) \in FsmStates
BY Zenon DEF DropRoute, FsmStates

LEMMA ResetType ==
  ASSUME NEW t \in FsmStates, NEW wps \in 0..NumWaypoints, NEW state \in ExecStates
  PROVE  [t EXCEPT !.trigger = FALSE, !.have_target = FALSE, !.active_waypoints = wps,
                   !.preset_started = FALSE, !.exec_state = state] \in FsmStates
BY ZenonT(30) DEF FsmStates

LEMMA DropTaskType ==
  ASSUME NEW s \in FsmStates
  PROVE  DropTask(s) \in FsmStates
<1>1. 0 \in 0..NumWaypoints /\ "INIT" \in ExecStates
  BY FsmAssumption DEF ExecStates
<1> QED
  BY <1>1, ResetType, DropRouteType, Zenon DEF DropTask

LEMMA FinishType ==
  ASSUME NEW s \in FsmStates
  PROVE  FinishProcess(s) \in FsmStates
<1> DEFINE outcome == IF s.reference_path_active /\ s.route_outcome = "NONE"
                      THEN "ABORTED" ELSE s.route_outcome
           u == [s EXCEPT !.replan_fail_count = 0, !.need_hover_stop = TRUE,
                          !.flag_escape_emergency = TRUE, !.route_outcome = outcome]
<1>1. outcome \in Outcomes /\ 0 \in Nat /\ "EMERGENCY_STOP" \in ExecStates
  BY DEF FsmStates, Outcomes, ExecStates
<1>2. u \in FsmStates
  <2> HIDE DEF outcome
  <2> QED  BY <1>1, Zenon DEF FsmStates
<1>3. FinishProcess(s) = IF s.replan_fail_count < MaxFail THEN s
                         ELSE ChangeFSMExecState(AdvanceTaskRevision(u), "EMERGENCY_STOP")
  BY Zenon DEF FinishProcess
<1> HIDE DEF u
<1> QED
  BY <1>1, <1>2, <1>3, AdvanceType, ChangeStateType

LEMMA NextTrajIdType ==
  ASSUME NEW s \in FsmStates
  PROVE  NextTrajId(s) \in TrajIds /\ NextTrajId(s) \in 0..MaxTrajId
BY FsmAssumption DEF NextTrajId, TrajIds, FsmStates

LEMMA CommitType ==
  ASSUME NEW s \in FsmStates
  PROVE  CommitLocalTrajectory(s) \in FsmStates /\ CommitLocalTrajectory(s).traj_id \in TrajIds
<1>1. CommitLocalTrajectory(s) \in FsmStates
  BY NextTrajIdType, Zenon DEF CommitLocalTrajectory, FsmStates
<1>2. CommitLocalTrajectory(s).traj_id = NextTrajId(s)
  BY DEF CommitLocalTrajectory, FsmStates
<1> QED
  BY <1>1, <1>2, NextTrajIdType

(* The three outcomes of callReboundReplan, by name.                       *)
Announced(s) ==
  LET c == CommitLocalTrajectory(s)
  IN  PublishPlannerHeartbeat(PublishBspline([c EXCEPT !.progress_id = c.traj_id], c.traj_id))

LEMMA ReboundCases ==
  ASSUME NEW s, NEW r \in ReboundOutcomes(s)
  PROVE  \/ r.st = s /\ r.ok = FALSE
         \/ r.st = PublishTrajectoryClear(CommitLocalTrajectory(s)) /\ r.ok = FALSE
         \/ r.st = Announced(s) /\ r.ok = TRUE
<1>1. \/ r = [ok |-> FALSE, st |-> s]
      \/ r = [ok |-> FALSE, st |-> PublishTrajectoryClear(CommitLocalTrajectory(s))]
      \/ r = [ok |-> TRUE, st |-> Announced(s)]
  BY Zenon DEF ReboundOutcomes, Failed, Announced
<1> DEFINE x == PublishTrajectoryClear(CommitLocalTrajectory(s))
           y == Announced(s)
<1> HIDE DEF x, y
<1>2. CASE r = [ok |-> FALSE, st |-> s]
  BY <1>2, SMT
<1>3. CASE r = [ok |-> FALSE, st |-> x]
  BY <1>3, SMT DEF x
<1>4. CASE r = [ok |-> TRUE, st |-> y]
  BY <1>4, SMT DEF y
<1> QED
  BY <1>1, <1>2, <1>3, <1>4, Zenon DEF x, y

LEMMA ReplanCases ==
  ASSUME NEW s, NEW r \in ReplanOutcomes(s)
  PROVE  \/ r.st = s /\ r.ok = FALSE
         \/ /\ s.progress_id = s.traj_id
            /\ \/ r \in ReboundOutcomes(s)
               \/ \E q \in ReboundOutcomes(s) : q.ok = FALSE /\ r \in ReboundOutcomes(q.st)
<1>1. CASE s.progress_id # s.traj_id
  <2>1. r = [ok |-> FALSE, st |-> s]
    BY <1>1, Zenon DEF ReplanOutcomes, Failed
  <2> QED
    BY <2>1, Zenon
<1>2. CASE s.progress_id = s.traj_id
  <2>1. PICK q \in ReboundOutcomes(s) :
          r \in (IF q.ok THEN {q} ELSE ReboundOutcomes(q.st))
    BY <1>2, Zenon DEF ReplanOutcomes
  <2>2. q.ok = TRUE \/ q.ok = FALSE
    BY ReboundCases, Zenon
  <2> QED
    BY <1>2, <2>1, <2>2, Zenon
<1> QED
  BY <1>1, <1>2, Zenon

LEMMA AnnouncedType ==
  ASSUME NEW s \in FsmStates
  PROVE  Announced(s) \in FsmStates
<1> DEFINE c == CommitLocalTrajectory(s)
           t == [c EXCEPT !.progress_id = c.traj_id]
<1>1. c \in FsmStates /\ c.traj_id \in TrajIds
  BY CommitType
<1>2. t \in FsmStates
  <2> HIDE DEF c
  <2> QED  BY <1>1, Zenon DEF FsmStates
<1>3. PublishPlannerHeartbeat(PublishBspline(t, c.traj_id)) \in FsmStates
  BY <1>1, <1>2, BsplineType, HeartbeatType
<1> QED
  BY <1>3, Zenon DEF Announced

LEMMA ReboundType ==
  ASSUME NEW s \in FsmStates, NEW r \in ReboundOutcomes(s)
  PROVE  r.st \in FsmStates
BY ReboundCases, AnnouncedType, CommitType, ClearType

LEMMA ReplanType ==
  ASSUME NEW s \in FsmStates, NEW r \in ReplanOutcomes(s)
  PROVE  r.st \in FsmStates
BY ReplanCases, ReboundType, Zenon

LEMMA HoldType ==
  ASSUME NEW s \in FsmStates
  PROVE  CallEmergencyStop(s) \in FsmStates
<1> DEFINE h == [s EXCEPT !.traj_id = NextTrajId(s), !.hold = TRUE, !.target = Here,
                          !.progress_id = NextTrajId(s)]
<1>1. Here \in Targets
  BY DEF Targets
<1>2. h \in FsmStates
  BY <1>1, NextTrajIdType, Zenon DEF FsmStates
<1>3. h.traj_id \in TrajIds \cup {NoTraj}
  BY NextTrajIdType DEF FsmStates
<1>4. CallEmergencyStop(s) = PublishPlannerHeartbeat(PublishBspline(h, h.traj_id))
  BY Zenon DEF CallEmergencyStop
<1> HIDE DEF h
<1> QED
  BY <1>2, <1>3, <1>4, BsplineType, HeartbeatType

LEMMA PlannedType ==
  ASSUME NEW s, NEW r \in ReboundOutcomes(s) \cup ReplanOutcomes(s), r.st \in FsmStates
  PROVE  Planned(r) \in FsmStates
<1>1. r.st.replan_fail_count + 1 \in Nat /\ 0 \in Nat /\ "EXEC_TRAJ" \in ExecStates
  BY DEF FsmStates, ExecStates
<1>2. [r.st EXCEPT !.replan_fail_count = 0] \in FsmStates
  BY <1>1, Zenon DEF FsmStates
<1>3. [r.st EXCEPT !.replan_fail_count = @ + 1] \in FsmStates
  BY <1>1, Zenon DEF FsmStates
<1> QED
  BY <1>1, <1>2, <1>3, ChangeStateType, Zenon DEF Planned

LEMMA NextWaypointCases ==
  ASSUME NEW s, NEW r \in NextWaypointOutcomes(s)
  PROVE  \/ r.st = [s EXCEPT !.end_pt = Preset] /\ r.ok = FALSE
         \/ r.st = [[s EXCEPT !.end_pt = Preset] EXCEPT !.have_target = TRUE] /\ r.ok = TRUE
<1> DEFINE x == [s EXCEPT !.end_pt = Preset]
           y == [[s EXCEPT !.end_pt = Preset] EXCEPT !.have_target = TRUE]
<1>1. r = [ok |-> FALSE, st |-> x] \/ r = [ok |-> TRUE, st |-> y]
  BY Zenon DEF NextWaypointOutcomes, Failed
<1> HIDE DEF x, y
<1>2. CASE r = [ok |-> FALSE, st |-> x]
  BY <1>2, SMT DEF x
<1>3. CASE r = [ok |-> TRUE, st |-> y]
  BY <1>3, SMT DEF y
<1> QED
  BY <1>1, <1>2, <1>3, Zenon DEF x, y

LEMMA NextWaypointType ==
  ASSUME NEW s \in FsmStates, NEW r \in NextWaypointOutcomes(s)
  PROVE  r.st \in FsmStates
<1>1. ASSUME NEW t \in FsmStates
      PROVE  [t EXCEPT !.end_pt = Preset] \in FsmStates /\ [t EXCEPT !.have_target = TRUE] \in FsmStates
  <2>1. Preset \in Targets
    BY DEF Targets
  <2>2. [t EXCEPT !.end_pt = Preset] \in FsmStates
    BY <2>1, Zenon DEF FsmStates
  <2>3. [t EXCEPT !.have_target = TRUE] \in FsmStates
    BY Zenon DEF FsmStates
  <2> QED
    BY <2>2, <2>3
<1> QED
  BY <1>1, NextWaypointCases, Zenon

LEMMA PresetType ==
  ASSUME NEW s \in FsmStates, NEW t \in PresetOutcomes(s)
  PROVE  t \in FsmStates
<1> DEFINE u == [s EXCEPT !.mission = NoMission, !.active_waypoints = NumWaypoints,
                          !.current_wp = 0, !.trigger = TRUE, !.task = Preset]
<1>1. /\ Preset \in Targets /\ "GEN_NEW_TRAJ" \in ExecStates
      /\ 0 \in 0..NumWaypoints /\ NumWaypoints \in 0..NumWaypoints
  BY FsmAssumption DEF Targets, ExecStates
<1>2. u \in FsmStates
  BY <1>1, ZenonT(30) DEF FsmStates
<1>3. PICK r \in NextWaypointOutcomes(AdvanceTaskRevision(u)) :
        t = IF r.ok THEN ChangeFSMExecState(r.st, "GEN_NEW_TRAJ") ELSE r.st
  BY Zenon DEF PresetOutcomes
<1> HIDE DEF u
<1>4. r.st \in FsmStates
  BY <1>2, AdvanceType, NextWaypointType
<1> QED
  BY <1>1, <1>3, <1>4, ChangeStateType, Zenon

(* The three outcomes of startFollowRoute, by name.                        *)
RouteTaken(s, r, m) ==
  AdvanceTaskRevision([s EXCEPT !.trigger = TRUE, !.reference_path_active = FALSE,
                                !.mission = m, !.task = r])
RoutePlanned(s, r, m) ==
  [RouteTaken(s, r, m) EXCEPT !.end_pt = r, !.have_target = TRUE,
                              !.reference_path_active = TRUE, !.route_outcome = "NONE"]
RouteRefused(s, r, m) == [RouteTaken(s, r, m) EXCEPT !.mission = NoMission]

LEMMA RouteCases ==
  ASSUME NEW s, NEW r, NEW m, NEW o \in RouteOutcomes(s, r, m)
  PROVE  \/ o.st = [RouteRefused(s, r, m) EXCEPT !.have_target = FALSE] /\ o.ok = FALSE
         \/ o.st = [RouteRefused(s, r, m) EXCEPT !.end_pt = r] /\ o.ok = FALSE
         \/ o.st = TriggerPlanning(RoutePlanned(s, r, m)) /\ o.ok = TRUE
<1> DEFINE x == [RouteRefused(s, r, m) EXCEPT !.have_target = FALSE]
           y == [RouteRefused(s, r, m) EXCEPT !.end_pt = r]
           z == TriggerPlanning(RoutePlanned(s, r, m))
<1>1. \/ o = [ok |-> FALSE, st |-> x] \/ o = [ok |-> FALSE, st |-> y]
      \/ o = [ok |-> TRUE, st |-> z]
  BY Zenon DEF RouteOutcomes, Failed, RouteRefused, RoutePlanned, RouteTaken
<1> HIDE DEF x, y, z
<1>2. CASE o = [ok |-> FALSE, st |-> x]
  BY <1>2, SMT DEF x
<1>3. CASE o = [ok |-> FALSE, st |-> y]
  BY <1>3, SMT DEF y
<1>4. CASE o = [ok |-> TRUE, st |-> z]
  BY <1>4, SMT DEF z
<1> QED
  BY <1>1, <1>2, <1>3, <1>4, Zenon DEF x, y, z

LEMMA RouteUpdatesType ==
  ASSUME NEW t \in FsmStates, NEW r \in Targets
  PROVE  /\ [t EXCEPT !.end_pt = r, !.have_target = TRUE,
                      !.reference_path_active = TRUE, !.route_outcome = "NONE"] \in FsmStates
         /\ [t EXCEPT !.mission = NoMission] \in FsmStates
         /\ [t EXCEPT !.end_pt = r] \in FsmStates
         /\ [t EXCEPT !.have_target = FALSE] \in FsmStates
<1>1. [t EXCEPT !.end_pt = r, !.have_target = TRUE,
                !.reference_path_active = TRUE, !.route_outcome = "NONE"] \in FsmStates
  BY Zenon DEF FsmStates, Outcomes
<1>2. [t EXCEPT !.mission = NoMission] \in FsmStates
  BY Zenon DEF FsmStates
<1>3. [t EXCEPT !.end_pt = r] \in FsmStates
  BY Zenon DEF FsmStates
<1>4. [t EXCEPT !.have_target = FALSE] \in FsmStates
  BY Zenon DEF FsmStates
<1> QED
  BY <1>1, <1>2, <1>3, <1>4

LEMMA RouteType ==
  ASSUME NEW s \in FsmStates, NEW r \in Tasks, NEW m \in Missions \cup {NoMission},
         NEW o \in RouteOutcomes(s, r, m)
  PROVE  o.st \in FsmStates
<1>1. r \in Targets /\ "NONE" \in Outcomes /\ NoMission \in Missions \cup {NoMission}
  BY DEF Targets, Outcomes
<1>2. [s EXCEPT !.trigger = TRUE, !.reference_path_active = FALSE,
                !.mission = m, !.task = r] \in FsmStates
  BY <1>1, Zenon DEF FsmStates
<1>3. RouteTaken(s, r, m) \in FsmStates
  BY <1>2, AdvanceType DEF RouteTaken
<1>5. RoutePlanned(s, r, m) \in FsmStates /\ RouteRefused(s, r, m) \in FsmStates
  BY <1>1, <1>3, RouteUpdatesType, Zenon DEF RoutePlanned, RouteRefused
<1>6. TriggerPlanning(RoutePlanned(s, r, m)) \in FsmStates
  BY <1>5, TriggerType
<1>7. /\ [RouteRefused(s, r, m) EXCEPT !.have_target = FALSE] \in FsmStates
      /\ [RouteRefused(s, r, m) EXCEPT !.end_pt = r] \in FsmStates
  BY <1>1, <1>5, RouteUpdatesType, Zenon
<1> QED
  BY <1>6, <1>7, RouteCases, Zenon

LEMMA CancelType ==
  ASSUME NEW s \in FsmStates
  PROVE  CancelFollowRoute(s) \in FsmStates
<1>1. [AdvanceTaskRevision(s) EXCEPT !.cancel_pending = TRUE] \in FsmStates
  <2>1. ASSUME NEW t \in FsmStates  PROVE  [t EXCEPT !.cancel_pending = TRUE] \in FsmStates
    BY Zenon DEF FsmStates
  <2> QED
    BY <2>1, AdvanceType
<1> QED
  BY <1>1, Zenon DEF CancelFollowRoute

LEMMA PoseTakenType ==
  ASSUME TypeOK, NEW back \in BOOLEAN
  PROVE  PoseTaken(back) \in FsmStates
<1> DEFINE s == IF back THEN DropTask(PublishTrajectoryClear(AdvanceTaskRevision(Idle)))
                ELSE Idle
           ready == s.goal_height_ready \/ fsm.navi_mode = MANUAL_TARGET
<1>1. s \in FsmStates
  BY IdleType, AdvanceType, ClearType, DropTaskType, Zenon
<1>2. ready \in BOOLEAN
  BY Zenon
<1>3. PoseTaken(back) = [s EXCEPT !.have_odom = TRUE, !.odom_timeout_active = FALSE,
                                  !.goal_height_ready = ready]
  BY Zenon DEF PoseTaken
<1>4. ASSUME NEW t \in FsmStates, NEW b \in BOOLEAN
      PROVE  [t EXCEPT !.have_odom = TRUE, !.odom_timeout_active = FALSE,
                       !.goal_height_ready = b] \in FsmStates
  BY Zenon DEF FsmStates
<1> HIDE DEF s, ready
<1> QED
  BY <1>1, <1>2, <1>3, <1>4

(* Every callback leaves a state of the right type.                        *)
LEMMA SubscriptionsType ==
  ASSUME TypeOK, Subscriptions  PROVE  TypeOK'
<1>0. Idle \in FsmStates
  BY IdleType
<1>1. CASE WaypointCallback
  <2>1. PICK g \in Tasks :
          \/ fsm' = [Idle EXCEPT !.trigger = TRUE]
          \/ fsm' = [[Idle EXCEPT !.trigger = TRUE] EXCEPT !.end_pt = g]
          \/ fsm' = TriggerPlanning(AdvanceTaskRevision(
                [[[Idle EXCEPT !.trigger = TRUE] EXCEPT !.end_pt = g]
                   EXCEPT !.mission = NoMission, !.have_target = TRUE, !.task = g]))
    BY <1>1, Zenon DEF WaypointCallback
  <2>2. ASSUME NEW t \in FsmStates
        PROVE  /\ [t EXCEPT !.trigger = TRUE] \in FsmStates
               /\ [t EXCEPT !.end_pt = g] \in FsmStates
               /\ [t EXCEPT !.mission = NoMission, !.have_target = TRUE, !.task = g] \in FsmStates
    <3>1. g \in Targets
      BY DEF Targets
    <3>2. [t EXCEPT !.trigger = TRUE] \in FsmStates
      BY Zenon DEF FsmStates
    <3>3. [t EXCEPT !.end_pt = g] \in FsmStates
      BY <3>1, Zenon DEF FsmStates
    <3>4. [t EXCEPT !.mission = NoMission, !.have_target = TRUE, !.task = g] \in FsmStates
      BY <3>1, Zenon DEF FsmStates
    <3> QED
      BY <3>2, <3>3, <3>4
  <2> QED
    BY <1>0, <2>1, <2>2, AdvanceType, TriggerType, Zenon DEF TypeOK
<1>2. CASE PathCallback
  <2>1. PICK r \in Tasks :
          \/ fsm' = [Idle EXCEPT !.pending_path = r]
          \/ \E o \in RouteOutcomes(Idle, r, NoMission) : fsm' = o.st
    BY <1>2, Zenon DEF PathCallback
  <2>2. [Idle EXCEPT !.pending_path = r] \in FsmStates
    <3>1. ASSUME NEW t \in FsmStates  PROVE  [t EXCEPT !.pending_path = r] \in FsmStates
      BY Zenon DEF FsmStates
    <3> QED
      BY <1>0, <3>1
  <2>3. NoMission \in Missions \cup {NoMission}
    OBVIOUS
  <2> QED
    BY <1>0, <2>1, <2>2, <2>3, RouteType, Zenon DEF TypeOK
<1>3. CASE OdometryCallback
  <2>1. PICK back \in BOOLEAN :
          \/ \E o \in RouteOutcomes([PoseTaken(back) EXCEPT !.pending_path = NoTask],
                                   PoseTaken(back).pending_path, NoMission) :
               PoseTaken(back).pending_path # NoTask /\ fsm' = o.st
          \/ fsm' \in PresetOutcomes([PoseTaken(back) EXCEPT !.preset_started = TRUE])
          \/ fsm' = PoseTaken(back)
          \/ fsm' = [PoseTaken(back) EXCEPT !.pending_path = NoTask]
    <3>1. \A b \in {FALSE} \cup {b \in {ClockJumps} : b /\ fsm.have_odom} : b \in BOOLEAN
      BY FsmAssumption, Zenon
    <3> QED
      BY <1>3, <3>1, Zenon DEF OdometryCallback
  <2> DEFINE p == PoseTaken(back)
  <2>2. p \in FsmStates
    BY PoseTakenType
  <2>3. ASSUME NEW t \in FsmStates
        PROVE  /\ [t EXCEPT !.pending_path = NoTask] \in FsmStates
               /\ [t EXCEPT !.preset_started = TRUE] \in FsmStates
               /\ t.pending_path \in Tasks \cup {NoTask}
    <3>1. [t EXCEPT !.pending_path = NoTask] \in FsmStates
      BY Zenon DEF FsmStates
    <3>2. [t EXCEPT !.preset_started = TRUE] \in FsmStates
      BY Zenon DEF FsmStates
    <3>3. t.pending_path \in Tasks \cup {NoTask}
      BY Zenon DEF FsmStates
    <3> QED
      BY <3>1, <3>2, <3>3
  <2>4. NoMission \in Missions \cup {NoMission}
    OBVIOUS
  <2> HIDE DEF p
  <2>5. CASE \E o \in RouteOutcomes([p EXCEPT !.pending_path = NoTask],
                                    p.pending_path, NoMission) :
               p.pending_path # NoTask /\ fsm' = o.st
    <3>1. PICK o \in RouteOutcomes([p EXCEPT !.pending_path = NoTask],
                                   p.pending_path, NoMission) :
            p.pending_path # NoTask /\ fsm' = o.st
      BY <2>5, Zenon
    <3>2. p.pending_path \in Tasks /\ [p EXCEPT !.pending_path = NoTask] \in FsmStates
      BY <2>2, <2>3, <3>1, Zenon
    <3>3. o.st \in FsmStates
      BY <2>4, <3>2, RouteType, Zenon
    <3> QED
      BY <3>1, <3>3, Zenon DEF TypeOK
  <2>6. CASE fsm' \in PresetOutcomes([p EXCEPT !.preset_started = TRUE])
    BY <2>2, <2>3, <2>6, PresetType, Zenon DEF TypeOK
  <2> QED
    BY <2>1, <2>2, <2>3, <2>5, <2>6, Zenon DEF TypeOK, p
<1>4. CASE TfReadyCallback
  <2> DEFINE s == IF fsm.tf_ready \/ fsm.have_odom
                  THEN PublishTrajectoryClear(AdvanceTaskRevision(Idle)) ELSE Idle
  <2>1. \/ fsm' = [Idle EXCEPT !.tf_ready = TRUE]
        \/ fsm' = [DropTask(s) EXCEPT !.tf_ready = FALSE, !.have_odom = FALSE]
    BY <1>4, Zenon DEF TfReadyCallback
  <2>2. s \in FsmStates
    BY <1>0, AdvanceType, ClearType, Zenon
  <2>3. ASSUME NEW t \in FsmStates
        PROVE  /\ [t EXCEPT !.tf_ready = TRUE] \in FsmStates
               /\ [t EXCEPT !.tf_ready = FALSE, !.have_odom = FALSE] \in FsmStates
    <3>1. [t EXCEPT !.tf_ready = TRUE] \in FsmStates
      BY Zenon DEF FsmStates
    <3>2. [t EXCEPT !.tf_ready = FALSE, !.have_odom = FALSE] \in FsmStates
      BY Zenon DEF FsmStates
    <3> QED
      BY <3>1, <3>2
  <2> HIDE DEF s
  <2> QED
    BY <1>0, <2>1, <2>2, <2>3, DropTaskType, Zenon DEF TypeOK
<1> QED
  BY <1>1, <1>2, <1>3, <1>4 DEF Subscriptions

LEMMA TimersType ==
  ASSUME TypeOK, ExecFSMCallback \/ CheckCollisionCallback \/ HeartbeatTimer
  PROVE  TypeOK'
<1>0. /\ Idle \in FsmStates /\ ExecStates = {"INIT", "WAIT_TARGET", "GEN_NEW_TRAJ",
         "REPLAN_TRAJ", "EXEC_TRAJ", "EMERGENCY_STOP"}
  BY IdleType DEF ExecStates
<1>1. CASE ExecOdomTimeout
  <2> DEFINE s == IF fsm.odom_timeout_active THEN Idle
                  ELSE PublishTrajectoryClear(AdvanceTaskRevision(Idle))
             outcome == IF s.reference_path_active /\ s.route_outcome = "NONE"
                        THEN "LOCALIZATION_LOST" ELSE s.route_outcome
  <2>1. fsm' = DropTask([s EXCEPT !.odom_timeout_active = TRUE, !.have_odom = FALSE,
                                  !.route_outcome = outcome])
    BY <1>1, Zenon DEF ExecOdomTimeout
  <2>2. s \in FsmStates
    BY <1>0, AdvanceType, ClearType, Zenon
  <2>3. ASSUME NEW t \in FsmStates, NEW o \in Outcomes
        PROVE  [t EXCEPT !.odom_timeout_active = TRUE, !.have_odom = FALSE,
                         !.route_outcome = o] \in FsmStates
    BY Zenon DEF FsmStates
  <2>4. outcome \in Outcomes
    <3> HIDE DEF s
    <3> QED  BY <2>2 DEF FsmStates, Outcomes
  <2> HIDE DEF s, outcome
  <2> QED
    BY <2>1, <2>2, <2>3, <2>4, DropTaskType DEF TypeOK
<1>2. CASE ExecInit \/ ExecWaitTarget \/ ExecReplanDue \/ ExecEmergencyRecover
  BY <1>0, <1>2, ChangeStateType, FinishType, Zenon
     DEF TypeOK, ExecInit, ExecWaitTarget, ExecReplanDue, ExecEmergencyRecover
<1>3. CASE ExecGenNewTraj
  <2>1. PICK r \in ReboundOutcomes(Idle) :
          fsm' = FinishProcess([Planned(r) EXCEPT !.flag_escape_emergency = @ \/ r.ok])
    BY <1>3, Zenon DEF ExecGenNewTraj
  <2>2. Planned(r) \in FsmStates
    BY <1>0, ReboundType, PlannedType, Zenon
  <2>3. ASSUME NEW t \in FsmStates
        PROVE  [t EXCEPT !.flag_escape_emergency = @ \/ r.ok] \in FsmStates
    <3>1. ASSUME NEW b \in BOOLEAN  PROVE  [t EXCEPT !.flag_escape_emergency = b] \in FsmStates
      BY Zenon DEF FsmStates
    <3>2. (t.flag_escape_emergency \/ r.ok) \in BOOLEAN
      BY Zenon
    <3> QED
      BY <3>1, <3>2, Zenon
  <2> QED
    BY <2>1, <2>2, <2>3, FinishType, Zenon DEF TypeOK
<1>4. CASE ExecReplanTraj
  BY <1>0, <1>4, ReplanType, PlannedType, FinishType, Zenon DEF TypeOK, ExecReplanTraj
<1>5. CASE ExecCancel \/ ExecEmergencyExit
  <2>1. ASSUME NEW t \in FsmStates
        PROVE  /\ [t EXCEPT !.cancel_pending = FALSE, !.end_pt = Here, !.have_target = TRUE,
                       !.reference_path_active = FALSE, !.trigger = TRUE] \in FsmStates
               /\ [t EXCEPT !.need_hover_stop = FALSE, !.have_target = FALSE,
                       !.trigger = FALSE, !.reference_path_active = FALSE] \in FsmStates
    <3>1. Here \in Targets
      BY DEF Targets
    <3>2. [t EXCEPT !.cancel_pending = FALSE, !.end_pt = Here, !.have_target = TRUE,
                    !.reference_path_active = FALSE, !.trigger = TRUE] \in FsmStates
      BY <3>1, ZenonT(30) DEF FsmStates
    <3>3. [t EXCEPT !.need_hover_stop = FALSE, !.have_target = FALSE,
                    !.trigger = FALSE, !.reference_path_active = FALSE] \in FsmStates
      BY ZenonT(30) DEF FsmStates
    <3> QED
      BY <3>2, <3>3
  <2> QED
    BY <1>0, <1>5, <2>1, ChangeStateType, FinishType, Zenon
       DEF TypeOK, ExecCancel, ExecEmergencyExit
<1>6. CASE ExecRouteContinue \/ SafetyStop
  BY <1>0, <1>6, ChangeStateType, Zenon
     DEF TypeOK, ExecRouteContinue, SafetyStop
<1>7. CASE ExecNextWaypoint
  <2>1. PICK r \in NextWaypointOutcomes([Idle EXCEPT !.current_wp = @ + 1]) :
          fsm' = ChangeFSMExecState(
                   IF r.ok THEN r.st ELSE [r.st EXCEPT !.replan_fail_count = @ + 1],
                   "GEN_NEW_TRAJ")
    BY <1>7, Zenon DEF ExecNextWaypoint
  <2>2. [Idle EXCEPT !.current_wp = @ + 1] \in FsmStates
    <3>1. ASSUME NEW t \in FsmStates, NEW w \in 0..NumWaypoints
          PROVE  [t EXCEPT !.current_wp = w] \in FsmStates
      BY Zenon DEF FsmStates
    <3>2. Idle.current_wp + 1 \in 0..NumWaypoints
      BY <1>7, FsmAssumption DEF ExecNextWaypoint, MoreWaypoints, Idle, TypeOK, FsmStates
    <3> QED
      BY <1>0, <3>1, <3>2, Zenon
  <2>3. ASSUME NEW t \in FsmStates
        PROVE  [t EXCEPT !.replan_fail_count = @ + 1] \in FsmStates
    <3>1. t.replan_fail_count + 1 \in Nat
      BY DEF FsmStates
    <3> QED
      BY <3>1, Zenon DEF FsmStates
  <2>4. r.st \in FsmStates
    BY <2>2, NextWaypointType
  <2> QED
    BY <1>0, <2>1, <2>3, <2>4, ChangeStateType, Zenon DEF TypeOK
<1>8. CASE ExecRouteDone
  <2>1. ASSUME NEW t \in FsmStates
        PROVE  [t EXCEPT !.reference_path_active = FALSE, !.have_target = FALSE,
                         !.route_outcome = "SUCCEEDED", !.mission = NoMission] \in FsmStates
    BY ZenonT(30) DEF FsmStates, Outcomes
  <2> QED
    BY <1>0, <1>8, <2>1, AdvanceType, ChangeStateType, Zenon DEF TypeOK, ExecRouteDone
<1>9. CASE ExecTaskDone
  <2>1. ASSUME NEW t \in FsmStates, NEW a \in 0..NumWaypoints, NEW w \in 0..NumWaypoints
        PROVE  [t EXCEPT !.active_waypoints = a, !.current_wp = w,
                         !.have_target = FALSE, !.mission = NoMission] \in FsmStates
    BY ZenonT(30) DEF FsmStates
  <2> DEFINE a == IF fsm.navi_mode = PRESET_TARGET THEN 0 ELSE Idle.active_waypoints
             w == IF fsm.navi_mode = PRESET_TARGET THEN 0 ELSE Idle.current_wp
  <2>2. a \in 0..NumWaypoints /\ w \in 0..NumWaypoints
    BY <1>0, FsmAssumption DEF FsmStates
  <2>3. fsm' = ChangeFSMExecState(AdvanceTaskRevision(
                 [Idle EXCEPT !.active_waypoints = a, !.current_wp = w,
                              !.have_target = FALSE, !.mission = NoMission]), "WAIT_TARGET")
    BY <1>9, Zenon DEF ExecTaskDone
  <2> HIDE DEF a, w
  <2> QED
    BY <1>0, <2>1, <2>2, <2>3, AdvanceType, ChangeStateType, Zenon DEF TypeOK
<1>10. CASE ExecEmergencyHold
  <2>1. ASSUME NEW t \in FsmStates  PROVE  [t EXCEPT !.flag_escape_emergency = FALSE] \in FsmStates
    BY Zenon DEF FsmStates
  <2> QED
    BY <1>0, <1>10, <2>1, HoldType, FinishType, Zenon DEF TypeOK, ExecEmergencyHold
<1>11. CASE SafetyReplan
  <2>1. PICK r \in ReplanOutcomes(Idle) :
          fsm' = ChangeFSMExecState(r.st, IF r.ok THEN "EXEC_TRAJ" ELSE "REPLAN_TRAJ")
    BY <1>11, Zenon DEF SafetyReplan
  <2> QED
    BY <1>0, <2>1, ReplanType, ChangeStateType, Zenon DEF TypeOK
<1>12. CASE HeartbeatTimer
  BY <1>0, <1>12, HeartbeatType DEF TypeOK, HeartbeatTimer
<1> QED
  BY <1>1, <1>2, <1>3, <1>4, <1>5, <1>6, <1>7, <1>8, <1>9, <1>10, <1>11, <1>12, Zenon
     DEF ExecFSMCallback, CheckCollisionCallback

LEMMA ServerCallsType ==
  ASSUME TypeOK, ServerCalls  PROVE  TypeOK'
<1>0. Idle \in FsmStates
  BY IdleType
<1>1. CASE StartCall
  BY <1>0, <1>1, RouteType, Zenon DEF StartCall, TypeOK
<1>2. CASE CancelCall
  BY <1>0, <1>2, CancelType, Zenon DEF CancelCall, TypeOK
<1>3. CASE ResetCall
  <2>1. ASSUME NEW s \in FsmStates  PROVE  ResetFollowRouteCancel(s) \in FsmStates
    BY Zenon DEF FsmStates, ResetFollowRouteCancel
  <2> QED
    BY <1>0, <1>3, <2>1, Zenon DEF ResetCall, TypeOK
<1> QED
  BY <1>1, <1>2, <1>3, Zenon DEF ServerCalls

LEMMA InitType == Init => TypeOK
BY FsmAssumption DEF Init, InitState, TypeOK, FsmStates, ExecStates, Outcomes, Targets,
   TrajIds, NoTraj, Heartbeats, Bsplines

(* Every reachable state of the replanning state machine is well typed:    *)
(* in particular ids stay in the range the wrap-around promises and the    *)
(* waypoint index inside the waypoint list, through every helper.          *)
THEOREM TypeCorrect == Spec => []TypeOK
<1>1. TypeOK /\ [Next]_fsm => TypeOK'
  <2> SUFFICES ASSUME TypeOK, [Next]_fsm  PROVE TypeOK'
    OBVIOUS
  <2>1. CASE Next
    BY <2>1, SubscriptionsType, TimersType, ServerCallsType, Zenon DEF Next, Callbacks
  <2>2. CASE UNCHANGED fsm
    BY <2>2 DEF TypeOK
  <2> QED
    BY <2>1, <2>2
<1> QED
  BY <1>1, InitType, PTL DEF Spec

-----------------------------------------------------------------------------
(* The inductive invariant.  Each conjunct is a property of the model,     *)
(* stated of any state so that it can be followed through the helpers.     *)
Current(s) == s.granted = Authority(s)
Located(s) == /\ s.exec_state # "INIT" => s.tf_ready /\ s.have_odom
              /\ s.have_odom => ~s.odom_timeout_active
Armed(s)   == /\ s.exec_state \in Moving => s.flag_escape_emergency
              /\ s.exec_state = "EMERGENCY_STOP" /\ ~s.flag_escape_emergency =>
                   s.hold /\ s.bspline = s.traj_id
Limited(s) == /\ s.replan_fail_count <= MaxFail
              /\ s.exec_state \in Moving => s.replan_fail_count < MaxFail
Good(s)    == Current(s) /\ Located(s) /\ Armed(s) /\ Limited(s)
IInv       == TypeOK /\ Good(fsm)

(* What a helper leaves alone.                                             *)
SameMotion(s, t) ==
  /\ t.exec_state = s.exec_state /\ t.granted = s.granted /\ t.bspline = s.bspline
  /\ t.traj_id = s.traj_id /\ t.progress_id = s.progress_id /\ t.hold = s.hold
SameGuards(s, t) ==
  /\ t.tf_ready = s.tf_ready /\ t.have_odom = s.have_odom
  /\ t.odom_timeout_active = s.odom_timeout_active
SameCounts(s, t) ==
  /\ t.replan_fail_count = s.replan_fail_count
  /\ t.flag_escape_emergency = s.flag_escape_emergency

LEMMA IdleEffect ==
  ASSUME TypeOK
  PROVE  SameMotion(fsm, Idle) /\ SameGuards(fsm, Idle) /\ SameCounts(fsm, Idle)
BY SMT DEF TypeOK, Idle, FsmStates, SameMotion, SameGuards, SameCounts

LEMMA SameCurrent ==
  ASSUME NEW s, NEW t, SameMotion(s, t), Current(s)
  PROVE  Current(t)
BY SMT DEF SameMotion, Current, Authority, HeartbeatAllows

LEMMA HeartbeatEffect ==
  ASSUME NEW s \in FsmStates
  PROVE  LET t == PublishPlannerHeartbeat(s) IN
         /\ Current(t) /\ SameGuards(s, t) /\ SameCounts(s, t)
         /\ t.exec_state = s.exec_state /\ t.bspline = s.bspline
         /\ t.traj_id = s.traj_id /\ t.progress_id = s.progress_id /\ t.hold = s.hold
BY SMT DEF FsmStates, PublishPlannerHeartbeat, Current, Authority, HeartbeatAllows, SameGuards, SameCounts

LEMMA ClearEffect ==
  ASSUME NEW s \in FsmStates
  PROVE  LET t == PublishTrajectoryClear(s) IN
         /\ Current(t) /\ t.granted = NoTraj /\ SameGuards(s, t) /\ SameCounts(s, t)
         /\ t.exec_state = s.exec_state /\ t.bspline = NoTraj
         /\ t.traj_id = s.traj_id /\ t.progress_id = NoTraj /\ t.hold = s.hold
BY SMT DEF FsmStates, PublishTrajectoryClear, PublishBspline, PublishPlannerHeartbeat, Current, Authority, HeartbeatAllows, SameGuards, SameCounts, NoTraj

LEMMA ChangeStateEffect ==
  ASSUME NEW s \in FsmStates, NEW new \in ExecStates, Current(s)
  PROVE  LET t == ChangeFSMExecState(s, new) IN
         /\ Current(t) /\ SameGuards(s, t) /\ SameCounts(s, t)
         /\ t.exec_state = new /\ t.traj_id = s.traj_id /\ t.hold = s.hold
         /\ new # "WAIT_TARGET" => t.bspline = s.bspline
BY SMT DEF FsmStates, ChangeFSMExecState, PublishTrajectoryClear, PublishBspline, PublishPlannerHeartbeat, Current, Authority, HeartbeatAllows, SameGuards, SameCounts, NoTraj

LEMMA AdvanceEffect ==
  ASSUME NEW s \in FsmStates
  PROVE  LET t == AdvanceTaskRevision(s) IN
         SameMotion(s, t) /\ SameGuards(s, t) /\ SameCounts(s, t)
BY SMT DEF FsmStates, AdvanceTaskRevision, SameMotion, SameGuards, SameCounts

LEMMA DropTaskEffect ==
  ASSUME NEW s \in FsmStates
  PROVE  LET t == DropTask(s) IN
         /\ t.exec_state = "INIT" /\ t.granted = s.granted
         /\ SameGuards(s, t) /\ SameCounts(s, t)
BY SMT DEF FsmStates, DropTask, DropRoute, SameGuards, SameCounts

LEMMA TriggerEffect ==
  ASSUME NEW s \in FsmStates, Current(s)
  PROVE  LET t == TriggerPlanning(s) IN
         /\ Current(t) /\ SameGuards(s, t) /\ SameCounts(s, t)
         /\ \/ t = s
            \/ s.exec_state = "WAIT_TARGET" /\ t.exec_state = "GEN_NEW_TRAJ"
            \/ s.exec_state = "EXEC_TRAJ" /\ t.exec_state = "REPLAN_TRAJ"
<1>1. "GEN_NEW_TRAJ" \in ExecStates /\ "REPLAN_TRAJ" \in ExecStates
  BY DEF ExecStates
<1>2. SameGuards(s, s) /\ SameCounts(s, s)
  BY DEF SameGuards, SameCounts
<1> QED
  BY <1>1, <1>2, ChangeStateEffect, Zenon DEF TriggerPlanning

LEMMA AnnouncedEffect ==
  ASSUME NEW s \in FsmStates
  PROVE  LET t == Announced(s) IN
         /\ Current(t) /\ SameGuards(s, t) /\ SameCounts(s, t)
         /\ t.exec_state = s.exec_state
BY SMT DEF FsmStates, Announced, CommitLocalTrajectory, PublishBspline, PublishPlannerHeartbeat, Current, Authority, HeartbeatAllows, SameGuards, SameCounts
LEMMA HoldEffect ==
  ASSUME NEW s \in FsmStates
  PROVE  LET t == CallEmergencyStop(s) IN
         /\ Current(t) /\ SameGuards(s, t) /\ SameCounts(s, t)
         /\ t.exec_state = s.exec_state /\ t.hold /\ t.bspline = t.traj_id
BY SMT DEF FsmStates, CallEmergencyStop, PublishBspline, PublishPlannerHeartbeat, Current, Authority, HeartbeatAllows, SameGuards, SameCounts

LEMMA FinishEffect ==
  ASSUME NEW s \in FsmStates, Current(s)
  PROVE  LET t == FinishProcess(s) IN
         /\ Current(t) /\ SameGuards(s, t)
         /\ \/ t = s /\ s.replan_fail_count < MaxFail
            \/ /\ t.exec_state = "EMERGENCY_STOP" /\ t.flag_escape_emergency
               /\ t.replan_fail_count = 0
<1> DEFINE outcome == IF s.reference_path_active /\ s.route_outcome = "NONE"
                      THEN "ABORTED" ELSE s.route_outcome
           u == [s EXCEPT !.replan_fail_count = 0, !.need_hover_stop = TRUE,
                          !.flag_escape_emergency = TRUE, !.route_outcome = outcome]
           v == AdvanceTaskRevision(u)
<1>1. CASE s.replan_fail_count < MaxFail
  <2>1. FinishProcess(s) = s
    BY <1>1, Zenon DEF FinishProcess
  <2> QED
    BY <1>1, <2>1 DEF SameGuards
<1>2. CASE ~(s.replan_fail_count < MaxFail)
  <2>1. FinishProcess(s) = ChangeFSMExecState(v, "EMERGENCY_STOP")
    BY <1>2, Zenon DEF FinishProcess
  <2>2. u \in FsmStates
    <3>1. outcome \in Outcomes /\ 0 \in Nat
      BY DEF FsmStates, Outcomes
    <3> HIDE DEF outcome
    <3> QED  BY <3>1, Zenon DEF FsmStates
  <2>3. /\ SameMotion(s, u) /\ SameGuards(s, u)
        /\ u.replan_fail_count = 0 /\ u.flag_escape_emergency = TRUE
    BY SMT DEF FsmStates, SameMotion, SameGuards
  <2> HIDE DEF u
  <2>4. /\ v \in FsmStates /\ SameMotion(u, v) /\ SameGuards(u, v) /\ SameCounts(u, v)
    BY <2>2, AdvanceType, AdvanceEffect, Zenon
  <2>5. Current(v)
    BY <2>3, <2>4, SameCurrent, Zenon
  <2> HIDE DEF v
  <2>6. "EMERGENCY_STOP" \in ExecStates
    BY DEF ExecStates
  <2> DEFINE t == ChangeFSMExecState(v, "EMERGENCY_STOP")
  <2>7. /\ Current(t) /\ SameGuards(v, t) /\ SameCounts(v, t) /\ t.exec_state = "EMERGENCY_STOP"
    BY <2>4, <2>5, <2>6, ChangeStateEffect, Zenon
  <2> HIDE DEF t
  <2>8. SameGuards(s, t) /\ t.flag_escape_emergency = TRUE /\ t.replan_fail_count = 0
    BY <2>3, <2>4, <2>7, Zenon DEF SameGuards, SameCounts
  <2> QED
    BY <2>1, <2>7, <2>8, Zenon DEF t
<1> QED
  BY <1>1, <1>2

LEMMA ReboundEffect ==
  ASSUME NEW s \in FsmStates, Current(s), NEW r \in ReboundOutcomes(s)
  PROVE  /\ Current(r.st) /\ SameGuards(s, r.st) /\ SameCounts(s, r.st)
         /\ r.st.exec_state = s.exec_state
<1>1. SameGuards(s, s) /\ SameCounts(s, s)
  BY DEF SameGuards, SameCounts
<1> DEFINE c == CommitLocalTrajectory(s)
           t == PublishTrajectoryClear(c)
<1>2. c \in FsmStates
  BY CommitType
<1>3. SameGuards(s, c) /\ SameCounts(s, c) /\ c.exec_state = s.exec_state
  BY SMT DEF FsmStates, CommitLocalTrajectory, SameGuards, SameCounts
<1> HIDE DEF c
<1>4. Current(t) /\ SameGuards(c, t) /\ SameCounts(c, t) /\ t.exec_state = c.exec_state
  BY <1>2, ClearEffect, Zenon
<1> HIDE DEF t
<1>5. SameGuards(s, t) /\ SameCounts(s, t) /\ t.exec_state = s.exec_state
  BY <1>3, <1>4, Zenon DEF SameGuards, SameCounts
<1>6. r.st = s \/ r.st = t \/ r.st = Announced(s)
  BY ReboundCases, Zenon DEF t, c
<1>7. CASE r.st = s
  BY <1>1, <1>7, Zenon
<1>8. CASE r.st = t
  BY <1>4, <1>5, <1>8, Zenon
<1>9. CASE r.st = Announced(s)
  BY <1>9, AnnouncedEffect, Zenon
<1> QED
  BY <1>6, <1>7, <1>8, <1>9

LEMMA ReplanEffect ==
  ASSUME NEW s \in FsmStates, Current(s), NEW r \in ReplanOutcomes(s)
  PROVE  /\ Current(r.st) /\ SameGuards(s, r.st) /\ SameCounts(s, r.st)
         /\ r.st.exec_state = s.exec_state
<1>1. CASE r.st = s
  BY <1>1 DEF SameGuards, SameCounts
<1>2. CASE r \in ReboundOutcomes(s)
  BY <1>2, ReboundEffect, Zenon
<1>3. CASE \E q \in ReboundOutcomes(s) : r \in ReboundOutcomes(q.st)
  <2>1. PICK q \in ReboundOutcomes(s) : r \in ReboundOutcomes(q.st)
    BY <1>3
  <2>2. /\ q.st \in FsmStates /\ Current(q.st) /\ SameGuards(s, q.st) /\ SameCounts(s, q.st)
        /\ q.st.exec_state = s.exec_state
    BY ReboundType, ReboundEffect, Zenon
  <2>3. /\ Current(r.st) /\ SameGuards(q.st, r.st) /\ SameCounts(q.st, r.st)
        /\ r.st.exec_state = q.st.exec_state
    BY <2>1, <2>2, ReboundEffect, Zenon
  <2> QED
    BY <2>2, <2>3, Zenon DEF SameGuards, SameCounts
<1> QED
  BY <1>1, <1>2, <1>3, ReplanCases, Zenon

LEMMA GoodSame ==
  ASSUME NEW s, NEW t, Good(s), SameMotion(s, t), SameGuards(s, t), SameCounts(s, t)
  PROVE  Good(t)
<1>1. Current(t)
  BY SameCurrent DEF Good
<1>2. Located(t)
  BY SMT DEF Good, Located, SameMotion, SameGuards
<1>3. Armed(t)
  BY SMT DEF Good, Armed, SameMotion, SameCounts
<1>4. Limited(t)
  BY SMT DEF Good, Limited, SameMotion, SameCounts
<1> QED
  BY <1>1, <1>2, <1>3, <1>4 DEF Good

(* A state machine that is localised may change to any state in which it   *)
(* is armed and below the failure limit.                                   *)
LEMMA GoodChange ==
  ASSUME NEW s \in FsmStates, NEW new \in ExecStates,
         Current(s), s.tf_ready, s.have_odom, ~s.odom_timeout_active,
         s.replan_fail_count <= MaxFail,
         new \in Moving => s.replan_fail_count < MaxFail,
         new \in Moving \cup {"EMERGENCY_STOP"} => s.flag_escape_emergency
  PROVE  Good(ChangeFSMExecState(s, new))
<1> DEFINE t == ChangeFSMExecState(s, new)
<1>1. Current(t) /\ SameGuards(s, t) /\ SameCounts(s, t) /\ t.exec_state = new
  BY ChangeStateEffect, Zenon
<1> HIDE DEF t
<1>2. Located(t)
  BY <1>1, Zenon DEF Located, SameGuards
<1>3. Armed(t)
  BY <1>1, SMT DEF Armed, SameCounts
<1>4. Limited(t)
  BY <1>1, SMT DEF Limited, SameCounts
<1> QED
  BY <1>1, <1>2, <1>3, <1>4, Zenon DEF Good, t

LEMMA GoodTrigger ==
  ASSUME NEW s \in FsmStates, Good(s)
  PROVE  Good(TriggerPlanning(s))
<1> DEFINE t == TriggerPlanning(s)
<1>1. /\ Current(t) /\ SameGuards(s, t) /\ SameCounts(s, t)
      /\ \/ t = s
         \/ s.exec_state = "WAIT_TARGET" /\ t.exec_state = "GEN_NEW_TRAJ"
         \/ s.exec_state = "EXEC_TRAJ" /\ t.exec_state = "REPLAN_TRAJ"
  BY TriggerEffect, Zenon DEF Good
<1> HIDE DEF t
<1>2. CASE t = s
  BY <1>2, Zenon DEF t
<1>3. CASE \/ s.exec_state = "WAIT_TARGET" /\ t.exec_state = "GEN_NEW_TRAJ"
           \/ s.exec_state = "EXEC_TRAJ" /\ t.exec_state = "REPLAN_TRAJ"
  <2>1. Located(t)
    BY <1>1, <1>3, SMT DEF Good, Located, SameGuards
  <2>2. Armed(t)
    BY <1>1, <1>3, SMT DEF Good, Armed, SameCounts, Moving
  <2>3. Limited(t)
    BY <1>1, <1>3, SMT DEF Good, Limited, SameCounts, Moving
  <2> QED
    BY <1>1, <2>1, <2>2, <2>3, Zenon DEF Good, t
<1> QED
  BY <1>1, <1>2, <1>3, Zenon

(* finishProcess turns a count past the limit into an emergency stop, so   *)
(* what it is given need only be good apart from the count.                *)
LEMMA GoodFinish ==
  ASSUME NEW s \in FsmStates, Current(s), Located(s), Armed(s), s.exec_state # "INIT"
  PROVE  Good(FinishProcess(s))
<1> DEFINE t == FinishProcess(s)
<1>1. /\ Current(t) /\ SameGuards(s, t)
      /\ \/ t = s /\ s.replan_fail_count < MaxFail
         \/ /\ t.exec_state = "EMERGENCY_STOP" /\ t.flag_escape_emergency
            /\ t.replan_fail_count = 0
  BY FinishEffect, Zenon
<1> HIDE DEF t
<1>2. CASE t = s /\ s.replan_fail_count < MaxFail
  <2>1. Limited(s)
    BY <1>2, FsmAssumption DEF Limited, FsmStates
  <2> QED
    BY <1>2, <2>1, Zenon DEF Good, t
<1>3. CASE /\ t.exec_state = "EMERGENCY_STOP" /\ t.flag_escape_emergency
           /\ t.replan_fail_count = 0
  <2>1. Located(t)
    BY <1>1, <1>3, SMT DEF Located, SameGuards
  <2>2. Armed(t) /\ Limited(t)
    BY <1>3, FsmAssumption, SMT DEF Armed, Limited, Moving
  <2> QED
    BY <1>1, <2>1, <2>2, Zenon DEF Good, t
<1> QED
  BY <1>1, <1>2, <1>3

(* Losing the pose or the transforms: nothing may be granted any more.     *)
LEMMA GoodDrop ==
  ASSUME NEW s \in FsmStates, s.granted = NoTraj,
         s.have_odom => ~s.odom_timeout_active, s.replan_fail_count <= MaxFail
  PROVE  Good(DropTask(s))
<1> DEFINE t == DropTask(s)
<1>1. /\ t.exec_state = "INIT" /\ t.granted = s.granted
      /\ SameGuards(s, t) /\ SameCounts(s, t)
  BY DropTaskEffect, Zenon
<1> HIDE DEF t
<1>2. Current(t)
  BY <1>1, SMT DEF Current, Authority, HeartbeatAllows, Moving
<1>3. Located(t) /\ Armed(t) /\ Limited(t)
  BY <1>1, SMT DEF Located, Armed, Limited, SameGuards, SameCounts, Moving
<1> QED
  BY <1>2, <1>3, Zenon DEF Good, t

LEMMA PlannedEffect ==
  ASSUME NEW s \in FsmStates, Current(s),
         NEW r \in ReboundOutcomes(s) \cup ReplanOutcomes(s)
  PROVE  /\ Planned(r) \in FsmStates /\ Current(Planned(r)) /\ SameGuards(s, Planned(r))
         /\ Planned(r).flag_escape_emergency = s.flag_escape_emergency
         /\ r.ok => Planned(r).exec_state = "EXEC_TRAJ"
         /\ ~r.ok => Planned(r).exec_state = s.exec_state
<1>1. /\ r.st \in FsmStates /\ Current(r.st) /\ SameGuards(s, r.st) /\ SameCounts(s, r.st)
      /\ r.st.exec_state = s.exec_state
  BY ReboundType, ReplanType, ReboundEffect, ReplanEffect, Zenon
<1>2. Planned(r) \in FsmStates
  BY <1>1, PlannedType
<1> DEFINE u == [r.st EXCEPT !.replan_fail_count = 0]
           v == [r.st EXCEPT !.replan_fail_count = @ + 1]
<1>3. ASSUME NEW x \in FsmStates, NEW n \in Nat
      PROVE  LET y == [x EXCEPT !.replan_fail_count = n] IN
             /\ SameMotion(x, y) /\ SameGuards(x, y)
             /\ y.flag_escape_emergency = x.flag_escape_emergency
  BY SMT DEF FsmStates, SameMotion, SameGuards
<1>4. r.st.replan_fail_count + 1 \in Nat /\ 0 \in Nat /\ "EXEC_TRAJ" \in ExecStates
  BY <1>1 DEF FsmStates, ExecStates
<1>5. CASE r.ok
  <2> DEFINE t == ChangeFSMExecState(u, "EXEC_TRAJ")
  <2>1. Planned(r) = t
    BY <1>5, Zenon DEF Planned
  <2>2. u \in FsmStates
    BY <1>1, <1>4, Zenon DEF FsmStates
  <2>3. /\ SameMotion(r.st, u) /\ SameGuards(r.st, u)
        /\ u.flag_escape_emergency = r.st.flag_escape_emergency
    BY <1>1, <1>3, <1>4, Zenon
  <2> HIDE DEF u
  <2>4. Current(u)
    BY <1>1, <2>3, SameCurrent, Zenon
  <2>5. Current(t) /\ SameGuards(u, t) /\ SameCounts(u, t) /\ t.exec_state = "EXEC_TRAJ"
    BY <1>4, <2>2, <2>4, ChangeStateEffect, Zenon
  <2> HIDE DEF t
  <2>6. SameGuards(s, t) /\ t.flag_escape_emergency = s.flag_escape_emergency
    BY <1>1, <2>3, <2>5, Zenon DEF SameGuards, SameCounts
  <2> QED
    BY <1>2, <1>5, <2>1, <2>5, <2>6, Zenon
<1>6. CASE ~r.ok
  <2>1. Planned(r) = v
    BY <1>6, Zenon DEF Planned
  <2>2. /\ SameMotion(r.st, v) /\ SameGuards(r.st, v)
        /\ v.flag_escape_emergency = r.st.flag_escape_emergency
    BY <1>1, <1>3, <1>4, Zenon
  <2> HIDE DEF v
  <2>3. Current(v)
    BY <1>1, <2>2, SameCurrent, Zenon
  <2>4. /\ SameGuards(s, v) /\ v.flag_escape_emergency = s.flag_escape_emergency
        /\ v.exec_state = s.exec_state
    BY <1>1, <2>2, Zenon DEF SameMotion, SameGuards, SameCounts
  <2> QED
    BY <1>2, <1>6, <2>1, <2>3, <2>4, Zenon
<1> QED
  BY <1>5, <1>6

LEMMA GoodRoute ==
  ASSUME NEW s \in FsmStates, Good(s), NEW r \in Tasks, NEW m \in Missions \cup {NoMission},
         NEW o \in RouteOutcomes(s, r, m)
  PROVE  Good(o.st)
<1>1. r \in Targets /\ NoMission \in Missions \cup {NoMission}
  BY DEF Targets
<1> DEFINE t == [s EXCEPT !.trigger = TRUE, !.reference_path_active = FALSE,
                          !.mission = m, !.task = r]
<1>2. t \in FsmStates
  BY <1>1, Zenon DEF FsmStates
<1>3. SameMotion(s, t) /\ SameGuards(s, t) /\ SameCounts(s, t)
  BY SMT DEF FsmStates, SameMotion, SameGuards, SameCounts
<1> HIDE DEF t
<1>4. RouteTaken(s, r, m) \in FsmStates /\ Good(RouteTaken(s, r, m))
  <2>1. Good(t)
    BY <1>3, GoodSame
  <2>2. AdvanceTaskRevision(t) \in FsmStates /\ Good(AdvanceTaskRevision(t))
    BY <1>2, <2>1, AdvanceType, AdvanceEffect, GoodSame, Zenon
  <2> QED
    BY <2>2, Zenon DEF RouteTaken, t
<1>5. ASSUME NEW x \in FsmStates, Good(x)
      PROVE  /\ Good([x EXCEPT !.end_pt = r, !.have_target = TRUE,
                      !.reference_path_active = TRUE, !.route_outcome = "NONE"])
             /\ Good([x EXCEPT !.mission = NoMission])
             /\ Good([x EXCEPT !.end_pt = r])
             /\ Good([x EXCEPT !.have_target = FALSE])
  <2> DEFINE Same(y) == SameMotion(x, y) /\ SameGuards(x, y) /\ SameCounts(x, y)
  <2>1. /\ Same([x EXCEPT !.end_pt = r, !.have_target = TRUE,
                      !.reference_path_active = TRUE, !.route_outcome = "NONE"])
        /\ Same([x EXCEPT !.mission = NoMission])
        /\ Same([x EXCEPT !.end_pt = r])
        /\ Same([x EXCEPT !.have_target = FALSE])
    BY SMT DEF FsmStates, SameMotion, SameGuards, SameCounts
  <2> QED
    BY <1>5, <2>1, GoodSame, Zenon
<1>6. /\ RoutePlanned(s, r, m) \in FsmStates /\ Good(RoutePlanned(s, r, m))
      /\ RouteRefused(s, r, m) \in FsmStates /\ Good(RouteRefused(s, r, m))
  BY <1>1, <1>4, <1>5, RouteUpdatesType, Zenon DEF RoutePlanned, RouteRefused
<1>7. Good(TriggerPlanning(RoutePlanned(s, r, m)))
  BY <1>6, GoodTrigger
<1>8. /\ Good([RouteRefused(s, r, m) EXCEPT !.have_target = FALSE])
      /\ Good([RouteRefused(s, r, m) EXCEPT !.end_pt = r])
  BY <1>5, <1>6, Zenon
<1> QED
  BY <1>7, <1>8, RouteCases, Zenon

LEMMA GoodNextWaypoint ==
  ASSUME NEW s \in FsmStates, NEW r \in NextWaypointOutcomes(s)
  PROVE  SameMotion(s, r.st) /\ SameGuards(s, r.st) /\ SameCounts(s, r.st)
<1>1. LET x == [s EXCEPT !.end_pt = Preset]
          y == [[s EXCEPT !.end_pt = Preset] EXCEPT !.have_target = TRUE]
      IN  /\ SameMotion(s, x) /\ SameGuards(s, x) /\ SameCounts(s, x)
          /\ SameMotion(s, y) /\ SameGuards(s, y) /\ SameCounts(s, y)
  BY SMT DEF FsmStates, SameMotion, SameGuards, SameCounts
<1> QED
  BY <1>1, NextWaypointCases, Zenon

LEMMA GoodPreset ==
  ASSUME NEW s \in FsmStates, Good(s), s.tf_ready, s.have_odom,
         NEW t \in PresetOutcomes(s)
  PROVE  Good(t)
<1> DEFINE u == [s EXCEPT !.mission = NoMission, !.active_waypoints = NumWaypoints,
                          !.current_wp = 0, !.trigger = TRUE, !.task = Preset]
           v == AdvanceTaskRevision(u)
<1>1. /\ Preset \in Targets /\ "GEN_NEW_TRAJ" \in ExecStates
      /\ 0 \in 0..NumWaypoints /\ NumWaypoints \in 0..NumWaypoints
  BY FsmAssumption DEF Targets, ExecStates
<1>2. u \in FsmStates
  BY <1>1, ZenonT(30) DEF FsmStates
<1>3. SameMotion(s, u) /\ SameGuards(s, u) /\ SameCounts(s, u)
  <2>1. SameMotion(s, u)
    BY Zenon DEF FsmStates, SameMotion
  <2>2. SameGuards(s, u) /\ SameCounts(s, u)
    BY Zenon DEF FsmStates, SameGuards, SameCounts
  <2> QED
    BY <2>1, <2>2
<1>4. PICK r \in NextWaypointOutcomes(v) :
        t = IF r.ok THEN ChangeFSMExecState(r.st, "GEN_NEW_TRAJ") ELSE r.st
  BY Zenon DEF PresetOutcomes
<1> HIDE DEF u
<1>5. v \in FsmStates /\ Good(v) /\ SameGuards(u, v)
  BY <1>2, <1>3, AdvanceType, AdvanceEffect, GoodSame, Zenon
<1> HIDE DEF v
<1>6. r.st \in FsmStates /\ Good(r.st) /\ SameGuards(v, r.st)
  BY <1>5, NextWaypointType, GoodNextWaypoint, GoodSame, Zenon
<1>7. r.st.tf_ready /\ r.st.have_odom /\ ~r.st.odom_timeout_active
  BY <1>3, <1>5, <1>6, Zenon DEF SameGuards, Good, Located
<1>8. Good(ChangeFSMExecState(r.st, "GEN_NEW_TRAJ"))
  <2>1. /\ Current(r.st) /\ r.st.replan_fail_count <= MaxFail
        /\ "GEN_NEW_TRAJ" \notin Moving \cup {"EMERGENCY_STOP"}
    BY <1>6 DEF Good, Limited, Moving
  <2> QED
    BY <1>1, <1>6, <1>7, <2>1, GoodChange, Zenon
<1> QED
  BY <1>4, <1>6, <1>8, Zenon

(* The clear that precedes every loss of the task, with a heartbeat that   *)
(* grants nothing.                                                         *)
LEMMA ClearedEffect ==
  ASSUME NEW s \in FsmStates
  PROVE  LET t == PublishTrajectoryClear(AdvanceTaskRevision(s)) IN
         /\ t \in FsmStates /\ t.granted = NoTraj
         /\ SameGuards(s, t) /\ SameCounts(s, t)
<1> DEFINE v == AdvanceTaskRevision(s)
           t == PublishTrajectoryClear(v)
<1>1. v \in FsmStates /\ SameGuards(s, v) /\ SameCounts(s, v)
  BY AdvanceType, AdvanceEffect, Zenon
<1> HIDE DEF v
<1>2. t \in FsmStates /\ t.granted = NoTraj /\ SameGuards(v, t) /\ SameCounts(v, t)
  BY <1>1, ClearType, ClearEffect, Zenon
<1> HIDE DEF t
<1>3. SameGuards(s, t) /\ SameCounts(s, t)
  BY <1>1, <1>2, Zenon DEF SameGuards, SameCounts
<1> QED
  BY <1>2, <1>3, Zenon DEF t, v

LEMMA IdleGood ==
  ASSUME IInv
  PROVE  Idle \in FsmStates /\ Good(Idle) /\ SameMotion(fsm, Idle) /\ SameGuards(fsm, Idle)
BY IdleType, IdleEffect, GoodSame DEF IInv

LEMMA GoodPoseTaken ==
  ASSUME IInv, NEW back \in BOOLEAN, fsm.tf_ready
  PROVE  /\ Good(PoseTaken(back)) /\ PoseTaken(back) \in FsmStates
         /\ PoseTaken(back).tf_ready /\ PoseTaken(back).have_odom
<1> DEFINE c == PublishTrajectoryClear(AdvanceTaskRevision(Idle))
           s == IF back THEN DropTask(c) ELSE Idle
           ready == s.goal_height_ready \/ fsm.navi_mode = MANUAL_TARGET
           t == [s EXCEPT !.have_odom = TRUE, !.odom_timeout_active = FALSE,
                          !.goal_height_ready = ready]
<1>1. PoseTaken(back) = t /\ PoseTaken(back) \in FsmStates
  <2>1. PoseTaken(back) = t
    BY Zenon DEF PoseTaken
  <2> QED
    BY <2>1, PoseTakenType, Zenon DEF IInv
<1>2. s \in FsmStates /\ Good(s) /\ s.tf_ready
  <2>1. Idle \in FsmStates /\ Good(Idle) /\ Idle.tf_ready
    BY IdleGood, Zenon DEF SameGuards
  <2>2. CASE ~back
    BY <2>1, <2>2, Zenon
  <2>3. CASE back
    <3>1. /\ c \in FsmStates /\ c.granted = NoTraj
          /\ SameGuards(Idle, c) /\ SameCounts(Idle, c)
      BY <2>1, ClearedEffect, Zenon
    <3> HIDE DEF c
    <3>2. (c.have_odom => ~c.odom_timeout_active) /\ c.replan_fail_count <= MaxFail /\ c.tf_ready
      BY <2>1, <3>1, Zenon DEF Good, Located, Limited, SameGuards, SameCounts
    <3>3. Good(DropTask(c)) /\ DropTask(c) \in FsmStates
      BY <3>1, <3>2, GoodDrop, DropTaskType, Zenon
    <3>4. DropTask(c).tf_ready
      BY <3>1, <3>2, DropTaskEffect, Zenon DEF SameGuards
    <3> QED
      BY <2>3, <3>3, <3>4, Zenon
  <2> QED
    BY <2>2, <2>3
<1>3. ready \in BOOLEAN
  BY Zenon
<1> HIDE DEF s, ready
<1>4. /\ SameMotion(s, t) /\ SameCounts(s, t)
      /\ t.tf_ready = s.tf_ready /\ t.have_odom = TRUE /\ t.odom_timeout_active = FALSE
  <2>1. ASSUME NEW x \in FsmStates, NEW b \in BOOLEAN
        PROVE  LET y == [x EXCEPT !.have_odom = TRUE, !.odom_timeout_active = FALSE,
                                  !.goal_height_ready = b]
               IN  /\ SameMotion(x, y) /\ SameCounts(x, y) /\ y.tf_ready = x.tf_ready
                   /\ y.have_odom = TRUE /\ y.odom_timeout_active = FALSE
    BY SMT DEF FsmStates, SameMotion, SameCounts
  <2> QED
    BY <1>2, <1>3, <2>1, Zenon
<1> HIDE DEF t
<1>5. Current(t)
  BY <1>2, <1>4, SameCurrent, Zenon DEF Good
<1>6. Located(t)
  BY <1>2, <1>4, SMT DEF Located
<1>7. Armed(t) /\ Limited(t)
  BY <1>2, <1>4, SMT DEF Good, Armed, Limited, SameMotion, SameCounts
<1> QED
  BY <1>1, <1>2, <1>4, <1>5, <1>6, <1>7, Zenon DEF Good

LEMMA SubscriptionsGood ==
  ASSUME IInv, Subscriptions  PROVE  Good(fsm')
<1>0. Idle \in FsmStates /\ Good(Idle)
  BY IdleGood
<1>1. CASE WaypointCallback
  <2>1. PICK g \in Tasks :
          \/ fsm' = [Idle EXCEPT !.trigger = TRUE]
          \/ fsm' = [[Idle EXCEPT !.trigger = TRUE] EXCEPT !.end_pt = g]
          \/ fsm' = TriggerPlanning(AdvanceTaskRevision(
                [[[Idle EXCEPT !.trigger = TRUE] EXCEPT !.end_pt = g]
                   EXCEPT !.mission = NoMission, !.have_target = TRUE, !.task = g]))
    BY <1>1, Zenon DEF WaypointCallback
  <2>2. g \in Targets
    BY DEF Targets
  <2>3. ASSUME NEW x \in FsmStates
        PROVE  /\ [x EXCEPT !.trigger = TRUE] \in FsmStates
               /\ [x EXCEPT !.end_pt = g] \in FsmStates
               /\ [x EXCEPT !.mission = NoMission, !.have_target = TRUE, !.task = g] \in FsmStates
    <3>1. [x EXCEPT !.trigger = TRUE] \in FsmStates
      BY Zenon DEF FsmStates
    <3>2. [x EXCEPT !.end_pt = g] \in FsmStates
      BY <2>2, Zenon DEF FsmStates
    <3>3. [x EXCEPT !.mission = NoMission, !.have_target = TRUE, !.task = g] \in FsmStates
      BY <2>2, Zenon DEF FsmStates
    <3> QED
      BY <3>1, <3>2, <3>3
  <2>4. ASSUME NEW x \in FsmStates, Good(x)
        PROVE  /\ Good([x EXCEPT !.trigger = TRUE])
               /\ Good([x EXCEPT !.end_pt = g])
               /\ Good([x EXCEPT !.mission = NoMission, !.have_target = TRUE, !.task = g])
    <3> DEFINE Same(y) == SameMotion(x, y) /\ SameGuards(x, y) /\ SameCounts(x, y)
    <3>1. /\ Same([x EXCEPT !.trigger = TRUE])
          /\ Same([x EXCEPT !.end_pt = g])
          /\ Same([x EXCEPT !.mission = NoMission, !.have_target = TRUE, !.task = g])
      BY SMT DEF FsmStates, SameMotion, SameGuards, SameCounts
    <3> QED
      BY <2>4, <3>1, GoodSame, Zenon
  <2>5. ASSUME NEW x \in FsmStates, Good(x)
        PROVE  Good(TriggerPlanning(AdvanceTaskRevision(x)))
    <3>1. Good(AdvanceTaskRevision(x)) /\ AdvanceTaskRevision(x) \in FsmStates
      BY <2>5, AdvanceType, AdvanceEffect, GoodSame, Zenon
    <3> QED
      BY <3>1, GoodTrigger
  <2> QED
    BY <1>0, <2>1, <2>3, <2>4, <2>5, Zenon
<1>2. CASE PathCallback
  <2>1. PICK r \in Tasks :
          \/ fsm' = [Idle EXCEPT !.pending_path = r]
          \/ \E o \in RouteOutcomes(Idle, r, NoMission) : fsm' = o.st
    BY <1>2, Zenon DEF PathCallback
  <2>2. Good([Idle EXCEPT !.pending_path = r])
    <3>1. ASSUME NEW x \in FsmStates
          PROVE  LET y == [x EXCEPT !.pending_path = r] IN
                 SameMotion(x, y) /\ SameGuards(x, y) /\ SameCounts(x, y)
      BY SMT DEF FsmStates, SameMotion, SameGuards, SameCounts
    <3> QED
      BY <1>0, <3>1, GoodSame, Zenon
  <2>3. NoMission \in Missions \cup {NoMission}
    OBVIOUS
  <2> QED
    BY <1>0, <2>1, <2>2, <2>3, GoodRoute, Zenon
<1>3. CASE OdometryCallback
  <2>1. PICK back \in BOOLEAN :
          \/ \E o \in RouteOutcomes([PoseTaken(back) EXCEPT !.pending_path = NoTask],
                                   PoseTaken(back).pending_path, NoMission) :
               PoseTaken(back).pending_path # NoTask /\ fsm' = o.st
          \/ fsm' \in PresetOutcomes([PoseTaken(back) EXCEPT !.preset_started = TRUE])
          \/ fsm' = PoseTaken(back)
          \/ fsm' = [PoseTaken(back) EXCEPT !.pending_path = NoTask]
    <3>1. \A b \in {FALSE} \cup {b \in {ClockJumps} : b /\ fsm.have_odom} : b \in BOOLEAN
      BY FsmAssumption, Zenon
    <3> QED
      BY <1>3, <3>1, Zenon DEF OdometryCallback
  <2> DEFINE p == PoseTaken(back)
  <2>2. p \in FsmStates /\ Good(p) /\ p.tf_ready /\ p.have_odom
    BY <1>3, GoodPoseTaken, Zenon DEF OdometryCallback
  <2>3. ASSUME NEW x \in FsmStates
        PROVE  /\ [x EXCEPT !.pending_path = NoTask] \in FsmStates
               /\ [x EXCEPT !.preset_started = TRUE] \in FsmStates
               /\ x.pending_path \in Tasks \cup {NoTask}
    <3>1. [x EXCEPT !.pending_path = NoTask] \in FsmStates
      BY Zenon DEF FsmStates
    <3>2. [x EXCEPT !.preset_started = TRUE] \in FsmStates
      BY Zenon DEF FsmStates
    <3>3. x.pending_path \in Tasks \cup {NoTask}
      BY Zenon DEF FsmStates
    <3> QED
      BY <3>1, <3>2, <3>3
  <2>4. ASSUME NEW x \in FsmStates
        PROVE  LET y == [x EXCEPT !.pending_path = NoTask]
                   z == [x EXCEPT !.preset_started = TRUE]
               IN  /\ SameMotion(x, y) /\ SameGuards(x, y) /\ SameCounts(x, y)
                   /\ SameMotion(x, z) /\ SameGuards(x, z) /\ SameCounts(x, z)
    BY SMT DEF FsmStates, SameMotion, SameGuards, SameCounts
  <2> HIDE DEF p
  <2> DEFINE y == [p EXCEPT !.pending_path = NoTask]
             z == [p EXCEPT !.preset_started = TRUE]
  <2>5. y \in FsmStates /\ Good(y) /\ z \in FsmStates /\ Good(z)
    BY <2>2, <2>3, <2>4, GoodSame, Zenon
  <2>6. z.tf_ready /\ z.have_odom
    BY <2>2, <2>4, Zenon DEF SameGuards
  <2> HIDE DEF y, z
  <2>7. CASE \E o \in RouteOutcomes(y, p.pending_path, NoMission) :
               p.pending_path # NoTask /\ fsm' = o.st
    <3>1. PICK o \in RouteOutcomes(y, p.pending_path, NoMission) :
            p.pending_path # NoTask /\ fsm' = o.st
      BY <2>7, Zenon
    <3>2. p.pending_path \in Tasks /\ NoMission \in Missions \cup {NoMission}
      BY <2>2, <2>3, <3>1, Zenon
    <3>3. Good(o.st)
      BY <2>5, <3>2, GoodRoute, Zenon
    <3> QED
      BY <3>1, <3>3, Zenon
  <2>8. CASE fsm' \in PresetOutcomes(z)
    BY <2>5, <2>6, <2>8, GoodPreset, Zenon
  <2>9. CASE fsm' = p \/ fsm' = y
    BY <2>2, <2>5, <2>9, Zenon
  <2> QED
    BY <2>1, <2>7, <2>8, <2>9, Zenon DEF p, y, z
<1>4. CASE TfReadyCallback
  <2> DEFINE s == IF fsm.tf_ready \/ fsm.have_odom
                  THEN PublishTrajectoryClear(AdvanceTaskRevision(Idle)) ELSE Idle
  <2>1. \/ fsm' = [Idle EXCEPT !.tf_ready = TRUE]
        \/ fsm' = [DropTask(s) EXCEPT !.tf_ready = FALSE, !.have_odom = FALSE]
    BY <1>4, Zenon DEF TfReadyCallback
  <2>2. ASSUME NEW x \in FsmStates, Good(x)
        PROVE  Good([x EXCEPT !.tf_ready = TRUE])
    <3> DEFINE y == [x EXCEPT !.tf_ready = TRUE]
    <3>1. /\ SameMotion(x, y) /\ SameCounts(x, y) /\ y.tf_ready = TRUE
          /\ y.have_odom = x.have_odom /\ y.odom_timeout_active = x.odom_timeout_active
      BY SMT DEF FsmStates, SameMotion, SameCounts
    <3> HIDE DEF y
    <3>2. Current(y)
      BY <2>2, <3>1, SameCurrent, Zenon DEF Good
    <3>3. Located(y) /\ Armed(y) /\ Limited(y)
      BY <2>2, <3>1, SMT DEF Good, Located, Armed, Limited, SameMotion, SameCounts
    <3> QED
      BY <3>2, <3>3, Zenon DEF Good, y
  <2>3. /\ s \in FsmStates /\ s.granted = NoTraj
        /\ s.have_odom => ~s.odom_timeout_active
        /\ s.replan_fail_count <= MaxFail
    <3>1. CASE fsm.tf_ready \/ fsm.have_odom
      <4> DEFINE c == PublishTrajectoryClear(AdvanceTaskRevision(Idle))
      <4>1. /\ c \in FsmStates /\ c.granted = NoTraj
            /\ SameGuards(Idle, c) /\ SameCounts(Idle, c)
        BY <1>0, ClearedEffect, Zenon
      <4> HIDE DEF c
      <4>2. (c.have_odom => ~c.odom_timeout_active) /\ c.replan_fail_count <= MaxFail
        BY <1>0, <4>1, Zenon DEF Good, Located, Limited, SameGuards, SameCounts
      <4> QED
        BY <3>1, <4>1, <4>2, Zenon DEF c
    <3>2. CASE ~(fsm.tf_ready \/ fsm.have_odom)
      <4>1. ~Idle.tf_ready /\ ~Idle.have_odom
        BY <3>2, IdleGood, Zenon DEF SameGuards
      <4>2. Idle.exec_state = "INIT" /\ Idle.granted = Authority(Idle)
        BY <1>0, <4>1, Zenon DEF Good, Located, Current
      <4>3. Idle.granted = NoTraj
        BY <4>2, SMT DEF Authority, HeartbeatAllows, Moving
      <4> QED
        BY <1>0, <3>2, <4>1, <4>3, Zenon DEF Good, Limited
    <3> QED
      BY <3>1, <3>2
  <2> HIDE DEF s
  <2> DEFINE d == DropTask(s)
             e == [d EXCEPT !.tf_ready = FALSE, !.have_odom = FALSE]
  <2>4. d \in FsmStates /\ Good(d) /\ d.exec_state = "INIT"
    BY <2>3, GoodDrop, DropTaskType, DropTaskEffect, Zenon
  <2> HIDE DEF d
  <2>5. SameMotion(d, e) /\ SameCounts(d, e) /\ e.have_odom = FALSE
    BY <2>4, SMT DEF FsmStates, SameMotion, SameCounts
  <2> HIDE DEF e
  <2>6. Current(e)
    BY <2>4, <2>5, SameCurrent, Zenon DEF Good
  <2>7. Located(e) /\ Armed(e) /\ Limited(e)
    BY <2>4, <2>5, SMT DEF Good, Located, Armed, Limited, SameMotion, SameCounts
  <2>8. Good(e)
    BY <2>6, <2>7, Zenon DEF Good
  <2> QED
    BY <1>0, <2>1, <2>2, <2>8, Zenon DEF d, e
<1> QED
  BY <1>1, <1>2, <1>3, <1>4 DEF Subscriptions

LEMMA TimersGood ==
  ASSUME IInv, ExecFSMCallback \/ CheckCollisionCallback \/ HeartbeatTimer
  PROVE  Good(fsm')
<1>0. Idle \in FsmStates /\ Good(Idle) /\ SameMotion(fsm, Idle) /\ SameGuards(fsm, Idle)
  BY IdleGood
<1>a. /\ ExecStates = {"INIT", "WAIT_TARGET", "GEN_NEW_TRAJ",
                       "REPLAN_TRAJ", "EXEC_TRAJ", "EMERGENCY_STOP"}
      /\ Moving = {"EXEC_TRAJ", "REPLAN_TRAJ"}
  BY DEF ExecStates, Moving
<1> DEFINE Ready(s) == s.tf_ready /\ s.have_odom /\ ~s.odom_timeout_active
<1>b. Idle.exec_state # "INIT" => Ready(Idle)
  BY <1>0, Zenon DEF Good, Located
(* Changing the state of a good, ready state that stays below the limit.   *)
<1>c. ASSUME NEW s \in FsmStates, Good(s), Ready(s), NEW new \in ExecStates,
             new \in Moving \cup {"EMERGENCY_STOP"} => s.exec_state \in Moving
      PROVE  Good(ChangeFSMExecState(s, new))
  <2>1. new \in Moving => s.replan_fail_count < MaxFail
    BY <1>c, Zenon DEF Good, Limited
  <2>2. new \in Moving \cup {"EMERGENCY_STOP"} => s.flag_escape_emergency
    BY <1>c, Zenon DEF Good, Armed
  <2> QED
    BY <1>c, <2>1, <2>2, GoodChange, Zenon DEF Good, Limited
(* ... and then counting failures.                                         *)
<1>d. ASSUME NEW s \in FsmStates, Good(s), Ready(s), NEW new \in ExecStates, new # "INIT",
             new \in Moving \cup {"EMERGENCY_STOP"} => s.exec_state \in Moving
      PROVE  Good(FinishProcess(ChangeFSMExecState(s, new)))
  <2> DEFINE t == ChangeFSMExecState(s, new)
  <2>1. t \in FsmStates /\ Good(t) /\ t.exec_state = new
    BY <1>c, <1>d, ChangeStateType, ChangeStateEffect, Zenon DEF Good
  <2> HIDE DEF t
  <2>2. Good(FinishProcess(t))
    BY <1>d, <2>1, GoodFinish, Zenon DEF Good
  <2> QED
    BY <2>2, Zenon DEF t
<1>1. CASE ExecOdomTimeout
  <2> DEFINE s == IF fsm.odom_timeout_active THEN Idle
                  ELSE PublishTrajectoryClear(AdvanceTaskRevision(Idle))
             outcome == IF s.reference_path_active /\ s.route_outcome = "NONE"
                        THEN "LOCALIZATION_LOST" ELSE s.route_outcome
             t == [s EXCEPT !.odom_timeout_active = TRUE, !.have_odom = FALSE,
                            !.route_outcome = outcome]
  <2>1. fsm' = DropTask(t) /\ fsm.have_odom
    BY <1>1, Zenon DEF ExecOdomTimeout
  <2>2. ~fsm.odom_timeout_active
    BY <2>1, Zenon DEF IInv, Good, Located
  <2>3. /\ s \in FsmStates /\ s.granted = NoTraj /\ SameCounts(Idle, s)
    BY <1>0, <2>2, ClearedEffect, Zenon
  <2>4. outcome \in Outcomes
    <3> HIDE DEF s
    <3> QED  BY <2>3 DEF FsmStates, Outcomes
  <2> HIDE DEF s, outcome
  <2>5. /\ t \in FsmStates /\ t.granted = s.granted /\ t.have_odom = FALSE
        /\ t.replan_fail_count = s.replan_fail_count
    <3>1. ASSUME NEW x \in FsmStates, NEW o \in Outcomes
          PROVE  LET y == [x EXCEPT !.odom_timeout_active = TRUE, !.have_odom = FALSE,
                                    !.route_outcome = o]
                 IN  /\ y.granted = x.granted /\ y.have_odom = FALSE
                     /\ y.replan_fail_count = x.replan_fail_count
      BY SMT DEF FsmStates
    <3>2. ASSUME NEW x \in FsmStates, NEW o \in Outcomes
          PROVE  [x EXCEPT !.odom_timeout_active = TRUE, !.have_odom = FALSE,
                           !.route_outcome = o] \in FsmStates
      BY Zenon DEF FsmStates
    <3> QED
      BY <2>3, <2>4, <3>1, <3>2, Zenon
  <2> HIDE DEF t
  <2>6. t.replan_fail_count <= MaxFail
    BY <1>0, <2>3, <2>5, Zenon DEF Good, Limited, SameCounts
  <2> QED
    BY <2>1, <2>3, <2>5, <2>6, GoodDrop, Zenon
<1>2. CASE ExecInit
  <2>1. Ready(Idle)
    BY <1>0, <1>2, Zenon DEF ExecInit, ExecIn, SameGuards, Good, Located
  <2>2. "WAIT_TARGET" \in ExecStates /\ "WAIT_TARGET" \notin Moving \cup {"EMERGENCY_STOP", "INIT"}
    BY <1>a
  <2> QED
    BY <1>0, <1>2, <1>d, <2>1, <2>2, Zenon DEF ExecInit
<1>3. CASE ExecWaitTarget \/ ExecEmergencyRecover
  <2>1. Ready(Idle)
    BY <1>0, <1>3, <1>b, Zenon DEF ExecWaitTarget, ExecEmergencyRecover, ExecIn, SameMotion
  <2>2. "GEN_NEW_TRAJ" \in ExecStates /\ "GEN_NEW_TRAJ" \notin Moving \cup {"EMERGENCY_STOP", "INIT"}
    BY <1>a
  <2> QED
    BY <1>0, <1>3, <1>d, <2>1, <2>2, Zenon DEF ExecWaitTarget, ExecEmergencyRecover
<1>4. CASE ExecReplanDue
  <2>1. Ready(Idle) /\ Idle.exec_state \in Moving
    BY <1>0, <1>4, <1>a, <1>b, Zenon DEF ExecReplanDue, Following, ExecIn, SameMotion
  <2>2. "REPLAN_TRAJ" \in ExecStates /\ "REPLAN_TRAJ" # "INIT"
    BY <1>a
  <2> QED
    BY <1>0, <1>4, <1>d, <2>1, <2>2, Zenon DEF ExecReplanDue
<1>5. CASE ExecGenNewTraj
  <2>1. PICK r \in ReboundOutcomes(Idle) :
          fsm' = FinishProcess([Planned(r) EXCEPT !.flag_escape_emergency = @ \/ r.ok])
    BY <1>5, Zenon DEF ExecGenNewTraj
  <2> DEFINE p == Planned(r)
             q == [p EXCEPT !.flag_escape_emergency = @ \/ r.ok]
  <2>2. Idle.exec_state = "GEN_NEW_TRAJ" /\ Ready(Idle)
    BY <1>0, <1>5, <1>b, Zenon DEF ExecGenNewTraj, ExecIn, SameMotion
  <2>3. /\ p \in FsmStates /\ Current(p) /\ SameGuards(Idle, p)
        /\ r.ok => p.exec_state = "EXEC_TRAJ"
        /\ ~r.ok => p.exec_state = "GEN_NEW_TRAJ"
    BY <1>0, <2>2, PlannedEffect, Zenon DEF Good
  <2> HIDE DEF p
  <2>4. /\ q \in FsmStates /\ SameMotion(p, q) /\ SameGuards(p, q)
        /\ q.flag_escape_emergency = (p.flag_escape_emergency \/ r.ok)
    <3>1. ASSUME NEW x \in FsmStates, NEW b \in BOOLEAN
          PROVE  [x EXCEPT !.flag_escape_emergency = b] \in FsmStates
      BY Zenon DEF FsmStates
    <3>2. ASSUME NEW x \in FsmStates, NEW b \in BOOLEAN
          PROVE  LET y == [x EXCEPT !.flag_escape_emergency = b] IN
                 SameMotion(x, y) /\ SameGuards(x, y) /\ y.flag_escape_emergency = b
      BY SMT DEF FsmStates, SameMotion, SameGuards
    <3>3. (p.flag_escape_emergency \/ r.ok) \in BOOLEAN
      BY Zenon
    <3> QED
      BY <2>3, <3>1, <3>2, <3>3, Zenon
  <2> HIDE DEF q
  <2>5. Current(q)
    BY <2>3, <2>4, SameCurrent, Zenon
  <2>6. Located(q)
    BY <2>2, <2>3, <2>4, Zenon DEF Located, SameGuards
  <2>7. q.exec_state # "INIT" /\ q.exec_state # "EMERGENCY_STOP"
        /\ (q.exec_state \in Moving => q.flag_escape_emergency)
    <3>1. CASE r.ok
      <4>1. q.exec_state = "EXEC_TRAJ" /\ q.flag_escape_emergency
        BY <3>1, <2>3, <2>4, Zenon DEF SameMotion
      <4> QED
        BY <4>1
    <3>2. CASE ~r.ok
      <4>1. q.exec_state = "GEN_NEW_TRAJ"
        BY <3>2, <2>3, <2>4, Zenon DEF SameMotion
      <4> QED
        BY <4>1, <1>a
    <3> QED
      BY <3>1, <3>2
  <2>8. Good(FinishProcess(q))
    BY <2>4, <2>5, <2>6, <2>7, GoodFinish, Zenon DEF Armed
  <2> QED
    BY <2>1, <2>8, Zenon DEF p, q
<1>6. CASE ExecReplanTraj
  <2>1. PICK r \in ReplanOutcomes(Idle) : fsm' = FinishProcess(Planned(r))
    BY <1>6, Zenon DEF ExecReplanTraj
  <2> DEFINE p == Planned(r)
  <2>2. /\ Idle.exec_state = "REPLAN_TRAJ" /\ Ready(Idle) /\ Idle.flag_escape_emergency
    BY <1>0, <1>6, <1>a, <1>b, Zenon DEF ExecReplanTraj, ExecIn, SameMotion, Good, Armed
  <2>3. /\ p \in FsmStates /\ Current(p) /\ SameGuards(Idle, p)
        /\ p.exec_state = "EXEC_TRAJ" \/ p.exec_state = "REPLAN_TRAJ"
        /\ p.flag_escape_emergency = Idle.flag_escape_emergency
    BY <1>0, <2>2, PlannedEffect, Zenon DEF Good
  <2> HIDE DEF p
  <2>4. Located(p)
    BY <2>2, <2>3, Zenon DEF Located, SameGuards
  <2>5. p.exec_state # "INIT" /\ p.exec_state # "EMERGENCY_STOP"
    BY <2>3
  <2>6. Good(FinishProcess(p))
    BY <2>2, <2>3, <2>4, <2>5, GoodFinish, Zenon DEF Armed
  <2> QED
    BY <2>1, <2>6, Zenon DEF p
<1>7. CASE ExecCancel
  <2> DEFINE s == [Idle EXCEPT !.cancel_pending = FALSE, !.end_pt = Here, !.have_target = TRUE,
                               !.reference_path_active = FALSE, !.trigger = TRUE]
  <2>1. fsm' = ChangeFSMExecState(s, "REPLAN_TRAJ") /\ Idle.exec_state = "EXEC_TRAJ"
    BY <1>0, <1>7, Zenon DEF ExecCancel, ExecIn, SameMotion
  <2>2. s \in FsmStates /\ SameMotion(Idle, s) /\ SameGuards(Idle, s) /\ SameCounts(Idle, s)
    <3>1. ASSUME NEW x \in FsmStates
          PROVE  [x EXCEPT !.cancel_pending = FALSE, !.end_pt = Here, !.have_target = TRUE,
                           !.reference_path_active = FALSE, !.trigger = TRUE] \in FsmStates
      <4>1. Here \in Targets
        BY DEF Targets
      <4> QED
        BY <4>1, ZenonT(30) DEF FsmStates
    <3>2. ASSUME NEW x \in FsmStates
          PROVE  LET y == [x EXCEPT !.cancel_pending = FALSE, !.end_pt = Here,
                                    !.have_target = TRUE, !.reference_path_active = FALSE,
                                    !.trigger = TRUE]
                 IN  SameMotion(x, y) /\ SameGuards(x, y) /\ SameCounts(x, y)
      BY Zenon DEF FsmStates, SameMotion, SameGuards, SameCounts
    <3> QED
      BY <1>0, <3>1, <3>2, Zenon
  <2> HIDE DEF s
  <2>3. Good(s) /\ Ready(s) /\ s.exec_state \in Moving
    BY <1>0, <1>a, <1>b, <2>1, <2>2, GoodSame, Zenon DEF SameMotion, SameGuards
  <2> QED
    BY <1>a, <1>c, <2>1, <2>2, <2>3, Zenon
<1>8. CASE SafetyStop
  <2>1. fsm' = ChangeFSMExecState(Idle, "EMERGENCY_STOP") /\ Idle.exec_state \in Moving
    BY <1>0, <1>8, <1>a, Zenon DEF SafetyStop, SafetyChecks, SameMotion
  <2>2. Ready(Idle)
    BY <1>a, <1>b, <2>1, Zenon
  <2> QED
    BY <1>0, <1>a, <1>c, <2>1, <2>2, Zenon
<1>9. CASE ExecNextWaypoint
  <2> DEFINE s == [Idle EXCEPT !.current_wp = @ + 1]
  <2>1. PICK r \in NextWaypointOutcomes(s) :
          fsm' = ChangeFSMExecState(
                   IF r.ok THEN r.st ELSE [r.st EXCEPT !.replan_fail_count = @ + 1],
                   "GEN_NEW_TRAJ")
    BY <1>9, Zenon DEF ExecNextWaypoint
  <2>2. s \in FsmStates /\ SameMotion(Idle, s) /\ SameGuards(Idle, s) /\ SameCounts(Idle, s)
    <3>1. ASSUME NEW x \in FsmStates, NEW w \in 0..NumWaypoints
          PROVE  [x EXCEPT !.current_wp = w] \in FsmStates
      BY Zenon DEF FsmStates
    <3>2. ASSUME NEW x \in FsmStates, NEW w
          PROVE  LET y == [x EXCEPT !.current_wp = w] IN
                 SameMotion(x, y) /\ SameGuards(x, y) /\ SameCounts(x, y)
      BY SMT DEF FsmStates, SameMotion, SameGuards, SameCounts
    <3>3. Idle.current_wp + 1 \in 0..NumWaypoints
      BY <1>9, FsmAssumption
         DEF ExecNextWaypoint, MoreWaypoints, Idle, IInv, TypeOK, FsmStates
    <3> QED
      BY <1>0, <3>1, <3>2, <3>3, Zenon
  <2> HIDE DEF s
  <2>3. Idle.exec_state = "EXEC_TRAJ" /\ Ready(Idle)
    BY <1>0, <1>9, <1>b, Zenon DEF ExecNextWaypoint, Following, ExecIn, SameMotion
  <2>4. s.exec_state = "EXEC_TRAJ" /\ Good(s) /\ Ready(s)
    BY <1>0, <2>2, <2>3, GoodSame, Zenon DEF SameMotion, SameGuards
  <2>5. /\ r.st \in FsmStates /\ Good(r.st) /\ SameMotion(s, r.st) /\ SameGuards(s, r.st)
    BY <2>2, <2>4, NextWaypointType, GoodNextWaypoint, GoodSame, Zenon
  <2>6. r.st.exec_state = "EXEC_TRAJ" /\ Ready(r.st)
    BY <2>4, <2>5, Zenon DEF SameMotion, SameGuards
  <2> DEFINE x == r.st
             v == [x EXCEPT !.replan_fail_count = @ + 1]
  <2>7. /\ v \in FsmStates /\ SameMotion(x, v) /\ SameGuards(x, v)
        /\ v.replan_fail_count = x.replan_fail_count + 1
    <3>1. ASSUME NEW z \in FsmStates, NEW n \in Nat
          PROVE  [z EXCEPT !.replan_fail_count = n] \in FsmStates
      BY Zenon DEF FsmStates
    <3>2. ASSUME NEW z \in FsmStates, NEW n \in Nat
          PROVE  LET y == [z EXCEPT !.replan_fail_count = n] IN
                 SameMotion(z, y) /\ SameGuards(z, y) /\ y.replan_fail_count = n
      BY SMT DEF FsmStates, SameMotion, SameGuards
    <3>3. x.replan_fail_count + 1 \in Nat
      BY <2>5 DEF FsmStates
    <3> QED
      BY <2>5, <3>1, <3>2, <3>3, Zenon
  <2>8. v.replan_fail_count <= MaxFail
    <3>1. x.replan_fail_count < MaxFail /\ x.replan_fail_count \in Nat
      <4>1. x.replan_fail_count < MaxFail
        BY <1>a, <2>5, <2>6, Zenon DEF Good, Limited
      <4>2. x.replan_fail_count \in Nat
        BY <2>5, Zenon DEF FsmStates
      <4> QED
        BY <4>1, <4>2
    <3>2. v.replan_fail_count = x.replan_fail_count + 1
      BY <2>7
    <3> HIDE DEF v, x
    <3> QED
      BY <3>1, <3>2, FsmAssumption
  <2> HIDE DEF v
  <2>9. Current(v) /\ Ready(v)
    BY <2>5, <2>6, <2>7, SameCurrent, Zenon DEF Good, SameGuards
  <2>10. "GEN_NEW_TRAJ" \in ExecStates /\ "GEN_NEW_TRAJ" \notin Moving \cup {"EMERGENCY_STOP"}
    BY <1>a
  <2>11. Good(ChangeFSMExecState(v, "GEN_NEW_TRAJ"))
    BY <2>7, <2>8, <2>9, <2>10, GoodChange, Zenon
  <2>12. Good(ChangeFSMExecState(r.st, "GEN_NEW_TRAJ"))
    BY <1>c, <2>5, <2>6, <2>10, Zenon
  <2> QED
    BY <2>1, <2>11, <2>12, Zenon DEF v, x
<1>10. CASE ExecRouteContinue
  <2>1. Ready(Idle)
    BY <1>0, <1>10, <1>b, Zenon DEF ExecRouteContinue, Following, ExecIn, SameMotion
  <2>2. "GEN_NEW_TRAJ" \in ExecStates /\ "GEN_NEW_TRAJ" \notin Moving \cup {"EMERGENCY_STOP"}
    BY <1>a
  <2> QED
    BY <1>0, <1>10, <1>c, <2>1, <2>2, Zenon DEF ExecRouteContinue
<1>11. CASE ExecRouteDone \/ ExecTaskDone
  <2>1. PICK a, w, b :
          \/ fsm' = ChangeFSMExecState(AdvanceTaskRevision(
                [Idle EXCEPT !.reference_path_active = FALSE, !.have_target = FALSE,
                             !.route_outcome = "SUCCEEDED", !.mission = NoMission]),
                "WAIT_TARGET")
          \/ /\ a \in 0..NumWaypoints /\ w \in 0..NumWaypoints
             /\ fsm' = ChangeFSMExecState(AdvanceTaskRevision(
                 [Idle EXCEPT !.active_waypoints = a, !.current_wp = w,
                              !.have_target = FALSE, !.mission = NoMission]), "WAIT_TARGET")
    <3>1. ASSUME ExecTaskDone
          PROVE \E a, w : /\ a \in 0..NumWaypoints /\ w \in 0..NumWaypoints
             /\ fsm' = ChangeFSMExecState(AdvanceTaskRevision(
                 [Idle EXCEPT !.active_waypoints = a, !.current_wp = w,
                              !.have_target = FALSE, !.mission = NoMission]), "WAIT_TARGET")
      <4> DEFINE a == IF fsm.navi_mode = PRESET_TARGET THEN 0 ELSE Idle.active_waypoints
                 w == IF fsm.navi_mode = PRESET_TARGET THEN 0 ELSE Idle.current_wp
      <4>1. a \in 0..NumWaypoints /\ w \in 0..NumWaypoints
        BY <1>0, FsmAssumption DEF FsmStates
      <4>2. fsm' = ChangeFSMExecState(AdvanceTaskRevision(
                 [Idle EXCEPT !.active_waypoints = a, !.current_wp = w,
                              !.have_target = FALSE, !.mission = NoMission]), "WAIT_TARGET")
        BY <3>1, Zenon DEF ExecTaskDone
      <4> HIDE DEF a, w
      <4> QED
        BY <4>1, <4>2, Zenon
    <3> QED
      BY <1>11, <3>1, Zenon DEF ExecRouteDone
  <2>2. Ready(Idle)
    BY <1>0, <1>11, <1>b, Zenon
       DEF ExecRouteDone, ExecTaskDone, Following, ExecIn, SameMotion
  <2>3. ASSUME NEW x \in FsmStates, NEW y \in 0..NumWaypoints, NEW z \in 0..NumWaypoints
        PROVE  LET d == [x EXCEPT !.reference_path_active = FALSE, !.have_target = FALSE,
                                  !.route_outcome = "SUCCEEDED", !.mission = NoMission]
                   e == [x EXCEPT !.active_waypoints = y, !.current_wp = z,
                                  !.have_target = FALSE, !.mission = NoMission]
               IN  /\ d \in FsmStates /\ SameMotion(x, d) /\ SameGuards(x, d) /\ SameCounts(x, d)
                   /\ e \in FsmStates /\ SameMotion(x, e) /\ SameGuards(x, e) /\ SameCounts(x, e)
    <3> DEFINE d == [x EXCEPT !.reference_path_active = FALSE, !.have_target = FALSE,
                              !.route_outcome = "SUCCEEDED", !.mission = NoMission]
               e == [x EXCEPT !.active_waypoints = y, !.current_wp = z,
                              !.have_target = FALSE, !.mission = NoMission]
    <3>1. d \in FsmStates
      BY ZenonT(30) DEF FsmStates, Outcomes
    <3>2. e \in FsmStates
      BY ZenonT(30) DEF FsmStates
    <3>3. SameMotion(x, d) /\ SameGuards(x, d) /\ SameCounts(x, d)
      BY SMT DEF FsmStates, SameMotion, SameGuards, SameCounts
    <3>4. SameMotion(x, e) /\ SameGuards(x, e) /\ SameCounts(x, e)
      BY SMT DEF FsmStates, SameMotion, SameGuards, SameCounts
    <3> QED
      BY <3>1, <3>2, <3>3, <3>4
  <2>4. ASSUME NEW x \in FsmStates,
               SameMotion(Idle, x), SameGuards(Idle, x), SameCounts(Idle, x)
        PROVE  Good(ChangeFSMExecState(AdvanceTaskRevision(x), "WAIT_TARGET"))
    <3> DEFINE v == AdvanceTaskRevision(x)
    <3>1. v \in FsmStates /\ SameGuards(x, v) /\ Good(v)
      BY <1>0, <2>4, AdvanceType, AdvanceEffect, GoodSame, Zenon
    <3> HIDE DEF v
    <3>2. Ready(v)
      BY <2>2, <2>4, <3>1, Zenon DEF SameGuards
    <3>3. "WAIT_TARGET" \in ExecStates /\ "WAIT_TARGET" \notin Moving \cup {"EMERGENCY_STOP"}
      BY <1>a
    <3> QED
      BY <1>c, <3>1, <3>2, <3>3, Zenon DEF v
  <2>5. 0 \in 0..NumWaypoints
    BY FsmAssumption
  <2> QED
    BY <1>0, <2>1, <2>3, <2>4, <2>5, Zenon
<1>12. CASE ExecEmergencyHold
  <2> DEFINE h == CallEmergencyStop(Idle)
             q == [h EXCEPT !.flag_escape_emergency = FALSE]
  <2>1. fsm' = FinishProcess(q) /\ Idle.exec_state = "EMERGENCY_STOP" /\ Ready(Idle)
    BY <1>0, <1>12, <1>b, Zenon DEF ExecEmergencyHold, ExecIn, SameMotion
  <2>2. /\ h \in FsmStates /\ Current(h) /\ SameGuards(Idle, h)
        /\ h.exec_state = "EMERGENCY_STOP" /\ h.hold /\ h.bspline = h.traj_id
    BY <1>0, <2>1, HoldType, HoldEffect, Zenon
  <2> HIDE DEF h
  <2>3. q \in FsmStates /\ SameMotion(h, q) /\ SameGuards(h, q)
    <3>1. ASSUME NEW x \in FsmStates
          PROVE  [x EXCEPT !.flag_escape_emergency = FALSE] \in FsmStates
      BY Zenon DEF FsmStates
    <3>2. ASSUME NEW x \in FsmStates
          PROVE  LET y == [x EXCEPT !.flag_escape_emergency = FALSE] IN
                 SameMotion(x, y) /\ SameGuards(x, y)
      BY SMT DEF FsmStates, SameMotion, SameGuards
    <3> QED
      BY <2>2, <3>1, <3>2, Zenon
  <2> HIDE DEF q
  <2>4. Current(q) /\ Located(q)
    BY <2>1, <2>2, <2>3, SameCurrent, Zenon DEF Located, SameGuards
  <2>5. q.exec_state = "EMERGENCY_STOP" /\ q.hold /\ q.bspline = q.traj_id
    BY <2>2, <2>3, Zenon DEF SameMotion
  <2>6. Armed(q) /\ q.exec_state # "INIT"
    BY <1>a, <2>5 DEF Armed
  <2>7. Good(FinishProcess(q))
    BY <2>3, <2>4, <2>6, GoodFinish, Zenon
  <2> QED
    BY <2>1, <2>7, Zenon
<1>13. CASE ExecEmergencyExit
  <2> DEFINE s == [Idle EXCEPT !.need_hover_stop = FALSE, !.have_target = FALSE,
                               !.trigger = FALSE, !.reference_path_active = FALSE]
  <2>1. /\ fsm' = FinishProcess(ChangeFSMExecState(s, "WAIT_TARGET"))
        /\ Idle.exec_state = "EMERGENCY_STOP"
    BY <1>0, <1>13, Zenon DEF ExecEmergencyExit, ExecIn, SameMotion
  <2>2. s \in FsmStates /\ SameMotion(Idle, s) /\ SameGuards(Idle, s) /\ SameCounts(Idle, s)
    <3>1. ASSUME NEW x \in FsmStates
          PROVE  [x EXCEPT !.need_hover_stop = FALSE, !.have_target = FALSE,
                           !.trigger = FALSE, !.reference_path_active = FALSE] \in FsmStates
      BY ZenonT(30) DEF FsmStates
    <3>2. ASSUME NEW x \in FsmStates
          PROVE  LET y == [x EXCEPT !.need_hover_stop = FALSE, !.have_target = FALSE,
                                    !.trigger = FALSE, !.reference_path_active = FALSE]
                 IN  SameMotion(x, y) /\ SameGuards(x, y) /\ SameCounts(x, y)
      BY SMT DEF FsmStates, SameMotion, SameGuards, SameCounts
    <3> QED
      BY <1>0, <3>1, <3>2, Zenon
  <2> HIDE DEF s
  <2>3. Good(s) /\ Ready(s)
    BY <1>0, <1>b, <2>1, <2>2, GoodSame, Zenon DEF SameGuards
  <2>4. "WAIT_TARGET" \in ExecStates /\ "WAIT_TARGET" \notin Moving \cup {"EMERGENCY_STOP", "INIT"}
    BY <1>a
  <2> QED
    BY <1>d, <2>1, <2>2, <2>3, <2>4, Zenon
<1>14. CASE SafetyReplan
  <2>1. PICK r \in ReplanOutcomes(Idle) :
          fsm' = ChangeFSMExecState(r.st, IF r.ok THEN "EXEC_TRAJ" ELSE "REPLAN_TRAJ")
    BY <1>14, Zenon DEF SafetyReplan
  <2>2. Idle.exec_state \in Moving /\ Ready(Idle)
    BY <1>0, <1>14, <1>a, <1>b, Zenon DEF SafetyReplan, SafetyChecks, SameMotion
  <2> DEFINE x == r.st
  <2>3. /\ x \in FsmStates /\ Current(x) /\ SameGuards(Idle, x) /\ SameCounts(Idle, x)
        /\ x.exec_state = Idle.exec_state
    BY <1>0, ReplanType, ReplanEffect, Zenon DEF Good
  <2> HIDE DEF x
  <2>4. /\ x.replan_fail_count < MaxFail /\ x.replan_fail_count <= MaxFail
        /\ x.flag_escape_emergency
    <3>1. Idle.replan_fail_count < MaxFail /\ Idle.replan_fail_count <= MaxFail
          /\ Idle.flag_escape_emergency
      BY <1>0, <2>2, Zenon DEF Good, Limited, Armed
    <3> QED
      BY <2>3, <3>1, Zenon DEF SameCounts
  <2>5. Ready(x)
    BY <2>2, <2>3, Zenon DEF SameGuards
  <2>6. ASSUME NEW new \in {"EXEC_TRAJ", "REPLAN_TRAJ"}
        PROVE  Good(ChangeFSMExecState(x, new))
    <3>1. new \in ExecStates
      BY <1>a
    <3> QED
      BY <2>3, <2>4, <2>5, <3>1, GoodChange, Zenon
  <2> QED
    BY <2>1, <2>6, Zenon DEF x
<1>15. CASE HeartbeatTimer
  <2> DEFINE t == PublishPlannerHeartbeat(Idle)
  <2>1. fsm' = t
    BY <1>15 DEF HeartbeatTimer
  <2>2. /\ Current(t) /\ SameGuards(Idle, t) /\ SameCounts(Idle, t)
        /\ t.exec_state = Idle.exec_state /\ t.bspline = Idle.bspline
        /\ t.traj_id = Idle.traj_id /\ t.hold = Idle.hold
    BY <1>0, HeartbeatEffect, Zenon
  <2> HIDE DEF t
  <2>3. Located(t) /\ Armed(t) /\ Limited(t)
    BY <1>0, <2>2, SMT DEF Good, Located, Armed, Limited, SameGuards, SameCounts
  <2> QED
    BY <2>1, <2>2, <2>3, Zenon DEF Good
<1> QED
  BY <1>1, <1>2, <1>3, <1>4, <1>5, <1>6, <1>7, <1>8, <1>9, <1>10, <1>11, <1>12, <1>13,
     <1>14, <1>15, Zenon DEF ExecFSMCallback, CheckCollisionCallback

-----------------------------------------------------------------------------
(* A call of the action server changes the task, never the right to move,  *)
(* except through the trigger of a route that was accepted.                *)
LEMMA ServerCallsGood ==
  ASSUME IInv, ServerCalls  PROVE  Good(fsm')
<1>0. Idle \in FsmStates /\ Good(Idle)
  BY IdleGood
<1>1. ASSUME NEW s \in FsmStates, NEW b \in BOOLEAN
      PROVE  LET t == [s EXCEPT !.cancel_pending = b] IN
             SameMotion(s, t) /\ SameGuards(s, t) /\ SameCounts(s, t)
  BY SMT DEF FsmStates, SameMotion, SameGuards, SameCounts
<1>2. ASSUME NEW s \in FsmStates, Good(s), NEW b \in BOOLEAN
      PROVE  Good([s EXCEPT !.cancel_pending = b])
  BY <1>1, <1>2, GoodSame, Zenon
<1>3. CASE StartCall
  BY <1>0, <1>3, GoodRoute, Zenon DEF StartCall
<1>4. CASE CancelCall
  <2>1. AdvanceTaskRevision(Idle) \in FsmStates /\ Good(AdvanceTaskRevision(Idle))
    BY <1>0, AdvanceType, AdvanceEffect, GoodSame, Zenon
  <2>2. Good([AdvanceTaskRevision(Idle) EXCEPT !.cancel_pending = TRUE])
    BY <1>2, <2>1, Zenon
  <2> QED
    BY <1>0, <1>4, <2>2, Zenon DEF CancelCall, CancelFollowRoute
<1>5. CASE ResetCall
  BY <1>0, <1>2, <1>5, Zenon DEF ResetCall, ResetFollowRouteCancel
<1> QED
  BY <1>3, <1>4, <1>5, Zenon DEF ServerCalls

LEMMA InitGood == Init => Good(fsm)
BY FsmAssumption DEF Init, InitState, Good, Current, Located, Armed, Limited,
   Authority, HeartbeatAllows, Moving, NoTraj

(* The four parts hold together: leaving INIT needs the pose, the grant    *)
(* follows the state, and the emergency flag and the failure count decide  *)
(* which states may be entered.                                            *)
THEOREM Inductive == Spec => []IInv
<1>1. Init => IInv
  BY InitType, InitGood DEF IInv
<1>2. IInv /\ [Next]_fsm => IInv'
  <2> SUFFICES ASSUME IInv, [Next]_fsm  PROVE IInv'
    OBVIOUS
  <2>1. CASE Next
    <3>1. TypeOK'
      BY <2>1, SubscriptionsType, TimersType, ServerCallsType, Zenon DEF Next, Callbacks, IInv
    <3>2. Good(fsm')
      BY <2>1, SubscriptionsGood, TimersGood, ServerCallsGood, Zenon DEF Next, Callbacks
    <3> QED
      BY <3>1, <3>2, Zenon DEF IInv, Good, Current, Located, Armed, Limited, Authority, HeartbeatAllows
  <2>2. CASE UNCHANGED fsm
    BY <2>2, Zenon DEF IInv, TypeOK, Good, Current, Located, Armed, Limited, Authority, HeartbeatAllows
  <2> QED
    BY <2>1, <2>2
<1> QED
  BY <1>1, <1>2, PTL DEF Spec

(* Motion authority is never stale: whatever callback ran last, the last   *)
(* heartbeat grants exactly what a heartbeat sent now would grant          *)
(* (changeFSMExecState, publishTrajectoryClear, publishPlannerHeartbeat).  *)
THEOREM AuthorityIsCurrent == Spec => []AuthorityCurrent
<1>1. IInv => AuthorityCurrent
  BY DEF IInv, Good, Current, AuthorityCurrent
<1> QED
  BY <1>1, Inductive, PTL

(* The state machine plans, moves and stops only while localised           *)
(* (tfReadyCallback, odometryCallback, the timeout of execFSMCallback).    *)
THEOREM LocalisationHolds == Spec => []LocalisedOutsideInit
<1>1. IInv => LocalisedOutsideInit
  BY DEF IInv, Good, Located, LocalisedOutsideInit
<1> QED
  BY <1>1, Inductive, PTL

(* Every emergency stop has its hold: the escape flag is up whenever the   *)
(* robot may move, and once it is down the hold is the latched trajectory  *)
(* (callEmergencyStop, the EMERGENCY_STOP branch of execFSMCallback).      *)
THEOREM EmergencyHolds == Spec => []EmergencyHeld
<1>1. IInv => EmergencyHeld
  BY DEF IInv, Good, Armed, EmergencyHeld
<1> QED
  BY <1>1, Inductive, PTL

(* Failures stay within max_replan_fail_count_ over every mixture of       *)
(* callbacks that count them and callbacks that test the count             *)
(* (finishProcess, planNextWaypoint, checkCollisionCallback).              *)
THEOREM FailuresLimited == Spec => []FailureLimit
<1>1. IInv => FailureLimit
  BY DEF IInv, Good, Limited, FailureLimit
<1> QED
  BY <1>1, Inductive, PTL
=============================================================================
