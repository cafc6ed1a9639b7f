------------------------- MODULE FollowRoute_proofs -------------------------
(***************************************************************************)
(* The action server uses the state machine only as it may, and what it    *)
(* tells its client is true: a mission reported complete was followed to   *)
(* its end, and a mission whose end was reported is not driven any more.   *)
(***************************************************************************)
EXTENDS FollowRouteServer, ReplanFSM_tasks, FiniteSetTheorems

-----------------------------------------------------------------------------
(* What a callback of the state machine may do to a route.                 *)

Waiting == {"INIT", "WAIT_TARGET"}

(* The route goes on, or its verdict falls while it is active.             *)
Going(s, t) ==
  /\ t.reference_path_active = s.reference_path_active /\ t.mission = s.mission
  /\ t.cancel_pending = s.cancel_pending /\ t.pending_path = s.pending_path
  /\ t.reference_path_active /\ t.exec_state \in Waiting => s.exec_state \in Waiting
  /\ \/ t.route_outcome = s.route_outcome
     \/ s.route_outcome = "NONE" /\ t.route_outcome = "ABORTED"
  /\ \/ t.need_hover_stop = s.need_hover_stop
     \/ t.reference_path_active => t.route_outcome # "NONE"

(* The two losses that leave no outcome: of the transform tree, and of a   *)
(* monotone clock.                                                         *)
Lost(t) == ~t.tf_ready \/ (t.exec_state = "INIT" /\ t.have_odom)

(* Without tasks on topics a callback starts no route; a route that began  *)
(* never waits again; a verdict stays, success is the end of an active     *)
(* route, and no route ends without one unless it was canceled or lost, or *)
(* a hover stop was pending.                                               *)
Fate(s, t) ==
  /\ t.cancel_pending => s.cancel_pending
  /\ ~TopicTasks /\ s.pending_path = NoTask =>
       /\ t.pending_path = NoTask
       /\ t.reference_path_active => s.reference_path_active /\ t.mission = s.mission
       /\ t.reference_path_active /\ t.exec_state \in Waiting => s.exec_state \in Waiting
       /\ s.route_outcome # "NONE" => t.route_outcome # "NONE"
       /\ t.route_outcome = "SUCCEEDED" =>
            s.route_outcome = "SUCCEEDED" \/ (s.reference_path_active /\ ~t.reference_path_active)
       /\ t.reference_path_active /\ t.need_hover_stop /\ t.route_outcome = "NONE" =>
            s.need_hover_stop
       /\ s.reference_path_active /\ ~t.reference_path_active /\ ~s.cancel_pending =>
            Lost(t) \/ s.need_hover_stop \/ t.route_outcome # "NONE"

LEMMA GoingFate ==
  ASSUME NEW s, NEW t, Going(s, t)  PROVE Fate(s, t)
<1>1. "NONE" # "SUCCEEDED" /\ "ABORTED" # "SUCCEEDED" /\ "ABORTED" # "NONE"
  OBVIOUS
<1> QED
  BY <1>1, Zenon DEF Going, Fate

LEMMA GoingTwice ==
  ASSUME NEW s, NEW t, NEW u, Going(s, t), Going(t, u)  PROVE Going(s, u)
<1>1. "ABORTED" # "NONE"
  OBVIOUS
<1> QED
  BY <1>1, Zenon DEF Going

LEMMA SameGoing ==
  ASSUME NEW s, NEW t, SameTask(s, t), t.exec_state \in Waiting => s.exec_state \in Waiting
  PROVE  Going(s, t)
BY Zenon DEF SameTask, Going

LEMMA IdleGoing ==
  ASSUME TaskInv
  PROVE  /\ Idle \in FsmStates /\ SameTask(fsm, Idle) /\ Going(fsm, Idle)
         /\ Idle.exec_state = fsm.exec_state
BY IdleRight, SameGoing, Zenon

LEMMA FinishGoing ==
  ASSUME NEW s \in FsmStates  PROVE Going(s, FinishProcess(s))
<1> DEFINE outcome == IF s.reference_path_active /\ s.route_outcome = "NONE"
                      THEN "ABORTED" ELSE s.route_outcome
           u == [s EXCEPT !.replan_fail_count = 0, !.need_hover_stop = TRUE,
                          !.flag_escape_emergency = TRUE, !.route_outcome = outcome]
           v == AdvanceTaskRevision(u)
           t == ChangeFSMExecState(v, "EMERGENCY_STOP")
<1>1. CASE s.replan_fail_count < MaxFail
  BY <1>1, Zenon DEF FinishProcess, Going
<1>2. CASE ~(s.replan_fail_count < MaxFail)
  <2>1. FinishProcess(s) = t
    BY <1>2, Zenon DEF FinishProcess
  <2>2. /\ outcome \in Outcomes /\ 0 \in Nat
        /\ s.reference_path_active => outcome # "NONE"
        /\ outcome = s.route_outcome \/ (s.route_outcome = "NONE" /\ outcome = "ABORTED")
    BY DEF FsmStates, Outcomes
  <2> HIDE DEF outcome
  <2>3. u \in FsmStates
    BY <2>2, Zenon DEF FsmStates
  <2>4. /\ u.route_outcome = outcome /\ u.mission = s.mission
        /\ u.cancel_pending = s.cancel_pending /\ u.pending_path = s.pending_path
        /\ u.reference_path_active = s.reference_path_active
    BY SMT DEF FsmStates
  <2> HIDE DEF u
  <2>5. v \in FsmStates /\ SameTask(u, v)
    BY <2>3, AdvanceType, AdvanceSame, Zenon
  <2> HIDE DEF v
  <2>6. "EMERGENCY_STOP" \in ExecStates /\ "EMERGENCY_STOP" \notin Waiting
    BY DEF ExecStates, Waiting
  <2>7. SameTask(v, t) /\ t.exec_state = "EMERGENCY_STOP"
    BY <2>5, <2>6, ChangeSame, Zenon
  <2> HIDE DEF t
  <2> QED
    BY <2>1, <2>2, <2>4, <2>5, <2>6, <2>7, Zenon DEF SameTask, Going
<1> QED
  BY <1>1, <1>2

LEMMA ChangeGoing ==
  ASSUME NEW s \in FsmStates, NEW new \in ExecStates,
         new \in Waiting => s.exec_state \in Waiting
  PROVE  /\ Going(s, ChangeFSMExecState(s, new))
         /\ Going(s, FinishProcess(ChangeFSMExecState(s, new)))
<1> DEFINE t == ChangeFSMExecState(s, new)
<1>1. t \in FsmStates /\ SameTask(s, t) /\ t.exec_state = new
  BY ChangeStateType, ChangeSame, Zenon
<1> HIDE DEF t
<1>2. Going(s, t) /\ Going(t, FinishProcess(t))
  BY <1>1, SameGoing, FinishGoing, Zenon
<1> QED
  BY <1>2, GoingTwice, Zenon DEF t

(* A route that ends leaves no route; whether it leaves an outcome is what *)
(* decides its fate.                                                       *)
LEMMA EndedFate ==
  ASSUME NEW s, NEW t, ~t.reference_path_active, t.cancel_pending => s.cancel_pending,
         t.pending_path = s.pending_path,
         \/ t.route_outcome = s.route_outcome
         \/ t.route_outcome \notin {"NONE", "SUCCEEDED"}
         \/ t.route_outcome = "SUCCEEDED" /\ s.reference_path_active,
         s.reference_path_active /\ ~s.cancel_pending =>
           Lost(t) \/ s.need_hover_stop \/ t.route_outcome # "NONE"
  PROVE  Fate(s, t)
<1>1. "NONE" # "SUCCEEDED"
  OBVIOUS
<1> QED
  BY <1>1, Zenon DEF Fate

LEMMA RouteFate ==
  ASSUME NEW s \in FsmStates, NEW r \in Tasks, NEW m \in Missions \cup {NoMission},
         NEW o \in RouteOutcomes(s, r, m)
  PROVE  LET t == o.st
         IN  /\ t \in FsmStates /\ t.cancel_pending = s.cancel_pending
             /\ t.pending_path = s.pending_path /\ t.need_hover_stop = s.need_hover_stop
             /\ o.ok  => /\ t.reference_path_active /\ t.mission = m
                         /\ t.route_outcome = "NONE"
             /\ ~o.ok => ~t.reference_path_active
<1> DEFINE h == HandedOver(s, r, m)
           u == RouteTaken(s, r, m)
           p == RoutePlanned(s, r, m)
           x == RouteRefused(s, r, m)
           Same(t) == /\ t.cancel_pending = s.cancel_pending
                      /\ t.pending_path = s.pending_path
                      /\ t.need_hover_stop = s.need_hover_stop
<1>1. r \in Targets /\ o.st \in FsmStates
  BY RouteType DEF Targets
<1>2. h \in FsmStates /\ u = AdvanceTaskRevision(h)
  BY <1>1, HandedOverEdit, Zenon DEF RouteTaken, HandedOver
<1>3. Same(h) /\ h.reference_path_active = FALSE /\ h.mission = m
  BY SMT DEF FsmStates, HandedOver
<1> HIDE DEF h
<1>4. u \in FsmStates /\ SameTask(h, u)
  BY <1>2, AdvanceType, AdvanceSame, Zenon
<1>5. Same(u) /\ u.reference_path_active = FALSE /\ u.mission = m
  BY <1>3, <1>4, Zenon DEF SameTask
<1>6. p \in FsmStates /\ x \in FsmStates
  BY <1>1, <1>4, RouteUpdatesType, Zenon DEF RoutePlanned, RouteRefused
<1>7. /\ Same(p) /\ p.reference_path_active = TRUE /\ p.mission = m
      /\ p.route_outcome = "NONE"
  BY <1>4, <1>5, SMT DEF FsmStates, RoutePlanned
<1>8. Same(x) /\ x.reference_path_active = FALSE
  BY <1>4, <1>5, SMT DEF FsmStates, RouteRefused
<1> HIDE DEF u, p, x
<1> DEFINE q == TriggerPlanning(p)
<1>9. SameTask(p, q)
  <2>1. "GEN_NEW_TRAJ" \in ExecStates /\ "REPLAN_TRAJ" \in ExecStates /\ SameTask(p, p)
    BY DEF ExecStates, SameTask
  <2> QED
    BY <1>6, <2>1, ChangeSame, Zenon DEF TriggerPlanning
<1> HIDE DEF q
<1>10. CASE o.st = q /\ o.ok = TRUE
  BY <1>1, <1>7, <1>9, <1>10, Zenon DEF SameTask
<1>11. CASE o.st = [x EXCEPT !.have_target = FALSE] /\ o.ok = FALSE
  <2>1. Same(o.st) /\ o.st.reference_path_active = FALSE
    BY <1>6, <1>8, <1>11, SMT DEF FsmStates
  <2> QED
    BY <1>1, <1>11, <2>1
<1>12. CASE o.st = [x EXCEPT !.end_pt = r] /\ o.ok = FALSE
  <2>1. Same(o.st) /\ o.st.reference_path_active = FALSE
    BY <1>6, <1>8, <1>12, SMT DEF FsmStates
  <2> QED
    BY <1>1, <1>12, <2>1
<1> QED
  BY <1>10, <1>11, <1>12, RouteCases, Zenon DEF q, p, x

LEMMA PresetFate ==
  ASSUME NEW s \in FsmStates, NEW t \in PresetOutcomes(s)
  PROVE  /\ t.reference_path_active = s.reference_path_active
         /\ t.cancel_pending = s.cancel_pending /\ t.pending_path = s.pending_path
         /\ t.route_outcome = s.route_outcome
<1> DEFINE u == [s EXCEPT !.mission = NoMission, !.active_waypoints = NumWaypoints,
                          !.current_wp = 0, !.trigger = TRUE, !.task = Preset]
           v == AdvanceTaskRevision(u)
           Same(x, y) == /\ y.reference_path_active = x.reference_path_active
                         /\ y.cancel_pending = x.cancel_pending
                         /\ y.pending_path = x.pending_path
                         /\ y.route_outcome = x.route_outcome
<1>0. /\ Preset \in Targets /\ "GEN_NEW_TRAJ" \in ExecStates
      /\ 0 \in 0..NumWaypoints /\ NumWaypoints \in 0..NumWaypoints
  BY FsmAssumption DEF Targets, ExecStates
<1>1. PICK r \in NextWaypointOutcomes(v) :
        t = IF r.ok THEN ChangeFSMExecState(r.st, "GEN_NEW_TRAJ") ELSE r.st
  BY Zenon DEF PresetOutcomes
<1>2. u \in FsmStates
  BY <1>0, ZenonT(30) DEF FsmStates
<1>3. Same(s, u)
  BY SMT DEF FsmStates
<1> HIDE DEF u
<1>4. v \in FsmStates /\ SameTask(u, v)
  BY <1>2, AdvanceType, AdvanceSame, Zenon
<1> HIDE DEF v
<1> DEFINE w == r.st
<1>5. /\ w \in FsmStates
      /\ \/ w = [v EXCEPT !.end_pt = Preset]
         \/ w = [[v EXCEPT !.end_pt = Preset] EXCEPT !.have_target = TRUE]
  BY <1>4, NextWaypointType, NextWaypointCases, Zenon
<1> HIDE DEF w
<1>6. Same(v, w)
  <2>1. CASE w = [v EXCEPT !.end_pt = Preset]
    BY <1>4, <2>1, SMT DEF FsmStates
  <2>2. CASE w = [[v EXCEPT !.end_pt = Preset] EXCEPT !.have_target = TRUE]
    BY <1>4, <2>2, SMT DEF FsmStates
  <2> QED
    BY <1>5, <2>1, <2>2
<1> DEFINE z == ChangeFSMExecState(w, "GEN_NEW_TRAJ")
<1>7. SameTask(w, z)
  BY <1>0, <1>5, ChangeSame, Zenon
<1> HIDE DEF z
<1>8. t = z \/ t = w
  BY <1>1, Zenon DEF z, w
<1> QED
  BY <1>3, <1>4, <1>6, <1>7, <1>8, Zenon DEF SameTask

LEMMA WaypointFate ==
  ASSUME TaskInv, WaypointCallback  PROVE Fate(fsm, fsm')
<1>0. Idle \in FsmStates /\ SameTask(fsm, Idle)
  BY IdleGoing
<1>1. TopicTasks
  BY DEF WaypointCallback
<1>2. PICK g \in Tasks :
        \/ fsm' = [Idle EXCEPT !.trigger = TRUE]
        \/ fsm' = [[Idle EXCEPT !.trigger = TRUE] EXCEPT !.end_pt = g]
        \/ fsm' = TriggerPlanning(AdvanceTaskRevision(
              [[[Idle EXCEPT !.trigger = TRUE] EXCEPT !.end_pt = g]
                 EXCEPT !.mission = NoMission, !.have_target = TRUE, !.task = g]))
  BY Zenon DEF WaypointCallback
<1> DEFINE heard == [Idle EXCEPT !.trigger = TRUE]
           aimed == [heard EXCEPT !.end_pt = g]
           taken == [aimed EXCEPT !.mission = NoMission, !.have_target = TRUE, !.task = g]
           over  == AdvanceTaskRevision(taken)
           last  == TriggerPlanning(over)
<1>3. g \in Targets
  BY DEF Targets
<1>4. heard \in FsmStates
  BY <1>0, Zenon DEF FsmStates
<1>5. heard.cancel_pending = Idle.cancel_pending
  BY <1>0, SMT DEF FsmStates
<1> HIDE DEF heard
<1>6. aimed \in FsmStates
  BY <1>3, <1>4, Zenon DEF FsmStates
<1>7. aimed.cancel_pending = heard.cancel_pending
  BY <1>4, SMT DEF FsmStates
<1> HIDE DEF aimed
<1>8. taken \in FsmStates
  BY <1>3, <1>6, Zenon DEF FsmStates
<1>9. taken.cancel_pending = aimed.cancel_pending
  BY <1>6, SMT DEF FsmStates
<1> HIDE DEF taken
<1>10. over \in FsmStates /\ over.cancel_pending = taken.cancel_pending
  BY <1>8, AdvanceType, AdvanceSame, Zenon DEF SameTask
<1> HIDE DEF over
<1>11. last.cancel_pending = over.cancel_pending
  <2>1. "GEN_NEW_TRAJ" \in ExecStates /\ "REPLAN_TRAJ" \in ExecStates
    BY DEF ExecStates
  <2> QED
    BY <1>10, <2>1, ChangeSame, Zenon DEF TriggerPlanning, SameTask
<1> HIDE DEF last
<1>12. fsm' = heard \/ fsm' = aimed \/ fsm' = last
  BY <1>2, Zenon DEF heard, aimed, taken, over, last
<1>13. fsm'.cancel_pending = fsm.cancel_pending
  BY <1>0, <1>5, <1>7, <1>9, <1>10, <1>11, <1>12, Zenon DEF SameTask
<1> QED
  BY <1>1, <1>13, Zenon DEF Fate

LEMMA PathFate ==
  ASSUME TaskInv, PathCallback  PROVE Fate(fsm, fsm')
<1>0. Idle \in FsmStates /\ SameTask(fsm, Idle)
  BY IdleGoing
<1>1. TopicTasks /\ NoMission \in Missions \cup {NoMission}
  BY DEF PathCallback
<1>2. PICK r \in Tasks :
        \/ fsm' = [Idle EXCEPT !.pending_path = r]
        \/ \E o \in RouteOutcomes(Idle, r, NoMission) : fsm' = o.st
  BY Zenon DEF PathCallback
<1>3. fsm'.cancel_pending = Idle.cancel_pending
  <2>1. CASE fsm' = [Idle EXCEPT !.pending_path = r]
    <3> DEFINE x == [Idle EXCEPT !.pending_path = r]
    <3>1. x.cancel_pending = Idle.cancel_pending
      BY <1>0, SMT DEF FsmStates
    <3>2. fsm' = x
      BY <2>1
    <3> HIDE DEF x
    <3> QED
      BY <3>1, <3>2
  <2>2. CASE \E o \in RouteOutcomes(Idle, r, NoMission) : fsm' = o.st
    <3>1. PICK o \in RouteOutcomes(Idle, r, NoMission) : fsm' = o.st
      BY <2>2, Zenon
    <3>2. o.st.cancel_pending = Idle.cancel_pending
      BY <1>0, <1>1, RouteFate
    <3> QED
      BY <3>1, <3>2, Zenon
  <2> QED
    BY <1>2, <2>1, <2>2
<1> QED
  BY <1>0, <1>1, <1>3, Zenon DEF Fate, SameTask

(* The timers that plan, hold or stop leave the route as it is, but for    *)
(* the verdict of the failure limit.                                       *)
LEMMA PlanningFate ==
  ASSUME TaskInv, \/ ExecInit \/ ExecWaitTarget \/ ExecGenNewTraj \/ ExecReplanTraj
                  \/ ExecRouteContinue \/ ExecReplanDue \/ ExecEmergencyRecover
                  \/ ExecEmergencyHold \/ SafetyStop \/ SafetyReplan \/ HeartbeatTimer
  PROVE  Fate(fsm, fsm')
<1>0. /\ Idle \in FsmStates /\ Going(fsm, Idle) /\ Idle.exec_state = fsm.exec_state
      /\ SameTask(Idle, Idle)
  BY IdleGoing, Zenon DEF SameTask
<1>1. ASSUME NEW t, Going(Idle, t)  PROVE Fate(fsm, t)
  BY <1>0, <1>1, GoingTwice, GoingFate, Zenon
<1>2. /\ {"WAIT_TARGET", "GEN_NEW_TRAJ", "REPLAN_TRAJ", "EXEC_TRAJ", "EMERGENCY_STOP"}
           \subseteq ExecStates
      /\ {"GEN_NEW_TRAJ", "REPLAN_TRAJ", "EXEC_TRAJ", "EMERGENCY_STOP"} \cap Waiting = {}
      /\ Waiting = {"INIT", "WAIT_TARGET"}
  BY DEF ExecStates, Waiting
<1>3. ASSUME NEW new \in ExecStates, new \in Waiting => Idle.exec_state \in Waiting
      PROVE  /\ Fate(fsm, ChangeFSMExecState(Idle, new))
             /\ Fate(fsm, FinishProcess(ChangeFSMExecState(Idle, new)))
  BY <1>0, <1>1, <1>3, ChangeGoing, Zenon
<1>4. ASSUME NEW s \in FsmStates, SameTask(Idle, s),
             s.exec_state \in Waiting => Idle.exec_state \in Waiting
      PROVE  Fate(fsm, s) /\ Fate(fsm, FinishProcess(s))
  BY <1>1, <1>4, SameGoing, FinishGoing, GoingTwice, Zenon
(* Planned keeps the task, and waits for none.                             *)
<1>5. ASSUME NEW r \in ReboundOutcomes(Idle) \cup ReplanOutcomes(Idle)
      PROVE  /\ r.st \in FsmStates /\ SameTask(Idle, r.st) /\ Planned(r) \in FsmStates
             /\ SameTask(Idle, Planned(r))
             /\ Planned(r).exec_state \in {Idle.exec_state, "EXEC_TRAJ"}
  <2> DEFINE x == r.st
             n == x.replan_fail_count + 1
             u == [x EXCEPT !.replan_fail_count = 0]
             v == [x EXCEPT !.replan_fail_count = n]
             e == ChangeFSMExecState(u, "EXEC_TRAJ")
  <2>1. x \in FsmStates /\ SameTask(Idle, x) /\ x.exec_state = Idle.exec_state
    BY <1>0, ReboundType, ReplanType, ReboundSame, ReplanSame, Zenon
  <2>2. Planned(r) \in FsmStates
    BY <2>1, PlannedType, Zenon
  <2>3. Planned(r) = e \/ Planned(r) = v
    BY Zenon DEF Planned
  <2> HIDE DEF x
  <2>4. 0 \in Nat /\ n \in Nat
    BY <2>1 DEF FsmStates
  <2> HIDE DEF n
  <2>5. u \in FsmStates
    BY <2>1, <2>4, Zenon DEF FsmStates
  <2>6. SameTask(x, u)
    BY <2>1, SMT DEF FsmStates, SameTask
  <2>7. SameTask(x, v) /\ v.exec_state = x.exec_state
    BY <2>1, SMT DEF FsmStates, SameTask
  <2> HIDE DEF u, v
  <2>8. SameTask(u, e) /\ e.exec_state = "EXEC_TRAJ"
    BY <1>2, <2>5, ChangeSame, Zenon
  <2> HIDE DEF e
  <2>9. SameTask(Idle, e) /\ SameTask(Idle, v)
    BY <2>1, <2>6, <2>7, <2>8, SameTaskTwice, Zenon
  <2>10. SameTask(Idle, Planned(r)) /\ Planned(r).exec_state \in {Idle.exec_state, "EXEC_TRAJ"}
    BY <2>1, <2>3, <2>7, <2>8, <2>9, Zenon
  <2> QED
    BY <2>1, <2>2, <2>10, Zenon DEF x
<1>6. CASE ExecInit
  BY <1>0, <1>2, <1>3, <1>6, Zenon DEF ExecInit, ExecIn
<1>7. CASE ExecWaitTarget \/ ExecReplanDue \/ ExecEmergencyRecover \/ ExecRouteContinue
  BY <1>2, <1>3, <1>7, Zenon DEF ExecWaitTarget, ExecReplanDue, ExecEmergencyRecover, ExecRouteContinue
<1>8. CASE SafetyStop
  BY <1>2, <1>3, <1>8, Zenon DEF SafetyStop
<1>9. CASE ExecReplanTraj
  <2>1. PICK r \in ReplanOutcomes(Idle) : fsm' = FinishProcess(Planned(r))
    BY <1>9, Zenon DEF ExecReplanTraj
  <2>2. Idle.exec_state = "REPLAN_TRAJ"
    BY <1>0, <1>9, Zenon DEF ExecReplanTraj, ExecIn
  <2>3. Planned(r) \in FsmStates /\ SameTask(Idle, Planned(r))
        /\ Planned(r).exec_state \in {Idle.exec_state, "EXEC_TRAJ"}
    BY <1>5, Zenon
  <2>4. Planned(r).exec_state \notin Waiting
    BY <1>2, <2>2, <2>3, Zenon
  <2> QED
    BY <1>4, <2>1, <2>3, <2>4, Zenon
<1>10. CASE ExecGenNewTraj
  <2>1. PICK r \in ReboundOutcomes(Idle) :
          fsm' = FinishProcess([Planned(r) EXCEPT !.flag_escape_emergency = @ \/ r.ok])
    BY <1>10, Zenon DEF ExecGenNewTraj
  <2> DEFINE p == Planned(r)
             flag == p.flag_escape_emergency \/ r.ok
             q == [p EXCEPT !.flag_escape_emergency = flag]
  <2>2. Idle.exec_state = "GEN_NEW_TRAJ"
    BY <1>0, <1>10, Zenon DEF ExecGenNewTraj, ExecIn
  <2>3. p \in FsmStates /\ SameTask(Idle, p) /\ p.exec_state \in {Idle.exec_state, "EXEC_TRAJ"}
    BY <1>5, Zenon
  <2>4. fsm' = FinishProcess(q)
    BY <2>1, Zenon
  <2> HIDE DEF p
  <2>5. flag \in BOOLEAN
    BY Zenon
  <2> HIDE DEF flag
  <2>6. q \in FsmStates
    BY <2>3, <2>5, Zenon DEF FsmStates
  <2>7. SameTask(p, q) /\ q.exec_state = p.exec_state
    BY <2>3, SMT DEF FsmStates, SameTask
  <2> HIDE DEF q
  <2>8. SameTask(Idle, q) /\ q.exec_state \notin Waiting
    BY <1>2, <2>2, <2>3, <2>7, SameTaskTwice, Zenon
  <2> QED
    BY <1>4, <2>4, <2>6, <2>8, Zenon
<1>11. CASE ExecEmergencyHold
  <2> DEFINE h == CallEmergencyStop(Idle)
             q == [h EXCEPT !.flag_escape_emergency = FALSE]
  <2>1. fsm' = FinishProcess(q)
    BY <1>11, Zenon DEF ExecEmergencyHold
  <2>2. h \in FsmStates /\ SameTask(Idle, h) /\ h.exec_state = Idle.exec_state
    BY <1>0, HoldType, HoldSame, Zenon
  <2> HIDE DEF h
  <2>3. q \in FsmStates
    BY <2>2, Zenon DEF FsmStates
  <2>4. SameTask(h, q) /\ q.exec_state = h.exec_state
    BY <2>2, SMT DEF FsmStates, SameTask
  <2> HIDE DEF q
  <2>5. SameTask(Idle, q) /\ q.exec_state = Idle.exec_state
    BY <2>2, <2>4, SameTaskTwice, Zenon
  <2> QED
    BY <1>4, <2>1, <2>3, <2>5, Zenon
<1>12. CASE SafetyReplan
  <2>1. PICK r \in ReplanOutcomes(Idle) :
          fsm' = ChangeFSMExecState(r.st, IF r.ok THEN "EXEC_TRAJ" ELSE "REPLAN_TRAJ")
    BY <1>12, Zenon DEF SafetyReplan
  <2> DEFINE x == r.st
             new == IF r.ok THEN "EXEC_TRAJ" ELSE "REPLAN_TRAJ"
             t == ChangeFSMExecState(x, new)
  <2>2. x \in FsmStates /\ SameTask(Idle, x) /\ fsm' = t
    BY <1>5, <2>1, Zenon
  <2> HIDE DEF x
  <2>3. new \in ExecStates /\ new \notin Waiting
    BY <1>2
  <2> HIDE DEF new
  <2>4. t \in FsmStates /\ SameTask(x, t) /\ t.exec_state = new
    BY <2>2, <2>3, ChangeStateType, ChangeSame, Zenon
  <2> HIDE DEF t
  <2>5. SameTask(Idle, t)
    BY <2>2, <2>4, SameTaskTwice, Zenon
  <2> QED
    BY <1>4, <2>2, <2>3, <2>4, <2>5, Zenon
<1>13. CASE HeartbeatTimer
  <2> DEFINE t == PublishPlannerHeartbeat(Idle)
  <2>1. t \in FsmStates /\ SameTask(Idle, t) /\ t.exec_state = Idle.exec_state
    BY <1>0, HeartbeatType, HeartbeatSame, Zenon
  <2>2. fsm' = t
    BY <1>13 DEF HeartbeatTimer
  <2> HIDE DEF t
  <2> QED
    BY <1>4, <2>1, <2>2, Zenon
<1> QED
  BY <1>6, <1>7, <1>8, <1>9, <1>10, <1>11, <1>12, <1>13

(* A jump of the clock, and every loss of localisation, takes the route    *)
(* away and leaves the outcome it finds.                                   *)
LEMMA DropFate ==
  ASSUME NEW s \in FsmStates
  PROVE  LET t == DropTask(s)
         IN  /\ t \in FsmStates /\ ~t.reference_path_active /\ ~t.cancel_pending
             /\ t.pending_path = s.pending_path /\ t.route_outcome = s.route_outcome
             /\ t.exec_state = "INIT" /\ t.have_odom = s.have_odom
<1>1. DropTask(s) \in FsmStates
  BY DropTaskType
<1>2. LET t == DropTask(s)
      IN  /\ ~t.reference_path_active /\ ~t.cancel_pending
          /\ t.pending_path = s.pending_path /\ t.route_outcome = s.route_outcome
          /\ t.exec_state = "INIT" /\ t.have_odom = s.have_odom
  BY SMT DEF FsmStates, DropTask, DropRoute
<1> QED
  BY <1>1, <1>2

LEMMA PoseFate ==
  ASSUME TaskInv, NEW back \in BOOLEAN
  PROVE  LET p == PoseTaken(back)
         IN  /\ p \in FsmStates /\ p.have_odom /\ p.navi_mode = fsm.navi_mode
             /\ p.pending_path = fsm.pending_path /\ p.route_outcome = fsm.route_outcome
             /\ p.cancel_pending => fsm.cancel_pending
             /\ p.reference_path_active => fsm.reference_path_active
             /\ ~back => Going(fsm, p)
             /\ back  => ~p.reference_path_active /\ p.exec_state = "INIT"
<1> DEFINE c == PublishTrajectoryClear(AdvanceTaskRevision(Idle))
           d == DropTask(c)
           s == IF back THEN d ELSE Idle
           ready == s.goal_height_ready \/ fsm.navi_mode = MANUAL_TARGET
           p == [s EXCEPT !.have_odom = TRUE, !.odom_timeout_active = FALSE,
                          !.goal_height_ready = ready]
<1>0. PoseTaken(back) = p
  BY Zenon DEF PoseTaken
<1>1. p \in FsmStates /\ p.have_odom /\ p.navi_mode = fsm.navi_mode
  BY <1>0, PoseEffect, Zenon
<1>2. Idle \in FsmStates /\ SameTask(fsm, Idle) /\ Going(fsm, Idle)
  BY IdleGoing
<1>3. c \in FsmStates /\ SameTask(fsm, c)
  BY ClearedIdle, Zenon
<1> HIDE DEF c
<1>4. /\ d \in FsmStates /\ ~d.reference_path_active /\ ~d.cancel_pending
      /\ d.pending_path = c.pending_path /\ d.route_outcome = c.route_outcome
      /\ d.exec_state = "INIT"
  BY <1>3, DropFate, Zenon
<1> HIDE DEF d
<1>5. /\ s \in FsmStates /\ s.pending_path = fsm.pending_path
      /\ s.route_outcome = fsm.route_outcome
      /\ s.cancel_pending => fsm.cancel_pending
      /\ s.reference_path_active => fsm.reference_path_active
      /\ ~back => Going(fsm, s)
      /\ back  => ~s.reference_path_active /\ s.exec_state = "INIT"
  <2>1. CASE back
    BY <1>3, <1>4, <2>1, Zenon DEF SameTask
  <2>2. CASE ~back
    BY <1>2, <2>2, Zenon DEF SameTask
  <2> QED
    BY <2>1, <2>2
<1> HIDE DEF s, ready
<1>6. /\ p.mission = s.mission /\ p.cancel_pending = s.cancel_pending
      /\ p.pending_path = s.pending_path /\ p.route_outcome = s.route_outcome
      /\ p.reference_path_active = s.reference_path_active
      /\ p.exec_state = s.exec_state /\ p.need_hover_stop = s.need_hover_stop
  <2>1. s \in FsmStates
    BY <1>5
  <2> QED
    BY <2>1, SMT DEF FsmStates
<1> HIDE DEF p
<1>7. Going(s, p)
  BY <1>6, Zenon DEF Going
<1>8. ~back => Going(fsm, p)
  BY <1>5, <1>7, GoingTwice, Zenon
<1> QED
  BY <1>0, <1>1, <1>5, <1>6, <1>8, Zenon

LEMMA OdometryFate ==
  ASSUME TaskInv, OdometryCallback  PROVE Fate(fsm, fsm')
<1>1. PICK back \in BOOLEAN :
        \/ /\ fsm.navi_mode = REFERENCE_PATH /\ PoseTaken(back).pending_path # NoTask
           /\ \E o \in RouteOutcomes([PoseTaken(back) EXCEPT !.pending_path = NoTask],
                                     PoseTaken(back).pending_path, NoMission) : fsm' = o.st
        \/ /\ fsm.navi_mode = PRESET_TARGET
           /\ fsm' \in PresetOutcomes([PoseTaken(back) EXCEPT !.preset_started = TRUE])
        \/ fsm' = PoseTaken(back)
        \/ /\ fsm.navi_mode = REFERENCE_PATH /\ PoseTaken(back).pending_path # NoTask
           /\ fsm' = [PoseTaken(back) EXCEPT !.pending_path = NoTask]
  <2>1. \A x \in {FALSE} \cup {x \in {ClockJumps} : x /\ fsm.have_odom} : x \in BOOLEAN
    BY FsmAssumption, Zenon
  <2> QED
    BY <2>1, Zenon DEF OdometryCallback
<1> DEFINE p == PoseTaken(back)
           y == [p EXCEPT !.pending_path = NoTask]
           z == [p EXCEPT !.preset_started = TRUE]
<1>2. /\ p \in FsmStates /\ p.have_odom /\ p.navi_mode = fsm.navi_mode
      /\ p.pending_path = fsm.pending_path /\ p.route_outcome = fsm.route_outcome
      /\ p.cancel_pending => fsm.cancel_pending
  BY PoseFate, Zenon
<1>3. p.reference_path_active => fsm.reference_path_active
  BY PoseFate, Zenon
<1>4. /\ ~back => Going(fsm, p)
      /\ back  => ~p.reference_path_active /\ p.exec_state = "INIT"
  BY PoseFate, Zenon
<1>5. \/ /\ fsm.navi_mode = REFERENCE_PATH /\ p.pending_path # NoTask
         /\ \E o \in RouteOutcomes(y, p.pending_path, NoMission) : fsm' = o.st
      \/ fsm.navi_mode = PRESET_TARGET /\ fsm' \in PresetOutcomes(z)
      \/ fsm' = p
      \/ fsm.navi_mode = REFERENCE_PATH /\ p.pending_path # NoTask /\ fsm' = y
  BY <1>1, Zenon
<1> HIDE DEF p
<1>6. y \in FsmStates
  BY <1>2, Zenon DEF FsmStates
<1>7. z \in FsmStates
  BY <1>2, Zenon DEF FsmStates
<1>8. y.cancel_pending = p.cancel_pending
  BY <1>2, SMT DEF FsmStates
<1>9. /\ z.reference_path_active = p.reference_path_active /\ z.cancel_pending = p.cancel_pending
      /\ z.pending_path = p.pending_path /\ z.route_outcome = p.route_outcome
  BY <1>2, SMT DEF FsmStates
<1> HIDE DEF y, z
<1>10. CASE /\ fsm.navi_mode = REFERENCE_PATH /\ p.pending_path # NoTask
            /\ \E o \in RouteOutcomes(y, p.pending_path, NoMission) : fsm' = o.st
  <2>1. p.pending_path \in Tasks /\ NoMission \in Missions \cup {NoMission}
    BY <1>2, <1>10 DEF FsmStates
  <2>2. PICK o \in RouteOutcomes(y, p.pending_path, NoMission) : fsm' = o.st
    BY <1>10, Zenon
  <2>3. o.st.cancel_pending = y.cancel_pending
    BY <1>6, <2>1, RouteFate
  <2> QED
    BY <1>2, <1>8, <1>10, <2>2, <2>3, Zenon DEF Fate
<1>11. CASE fsm.navi_mode = PRESET_TARGET /\ fsm' \in PresetOutcomes(z)
  <2>1. ~fsm.reference_path_active
    BY <1>11 DEF TaskInv, Tasked, Routed, REFERENCE_PATH, PRESET_TARGET
  <2>2. /\ fsm'.reference_path_active = z.reference_path_active
        /\ fsm'.cancel_pending = z.cancel_pending /\ fsm'.pending_path = z.pending_path
        /\ fsm'.route_outcome = z.route_outcome
    BY <1>7, <1>11, PresetFate, Zenon
  <2> QED
    BY <1>2, <1>3, <1>9, <2>1, <2>2, EndedFate, Zenon
<1>12. CASE fsm' = p
  <2>1. CASE ~back
    BY <1>4, <1>12, <2>1, GoingFate, Zenon
  <2>2. CASE back
    BY <1>2, <1>4, <1>12, <2>2, EndedFate, Zenon DEF Lost
  <2> QED
    BY <2>1, <2>2
<1>13. CASE fsm.navi_mode = REFERENCE_PATH /\ p.pending_path # NoTask /\ fsm' = y
  BY <1>2, <1>8, <1>13, Zenon DEF Fate
<1> QED
  BY <1>5, <1>10, <1>11, <1>12, <1>13

LEMMA LossFate ==
  ASSUME TaskInv, TfReadyCallback \/ ExecOdomTimeout  PROVE Fate(fsm, fsm')
<1> DEFINE c == PublishTrajectoryClear(AdvanceTaskRevision(Idle))
<1>0. /\ Idle \in FsmStates /\ SameTask(fsm, Idle) /\ Going(fsm, Idle)
      /\ c \in FsmStates /\ SameTask(fsm, c)
  BY IdleGoing, ClearedIdle, Zenon
<1>1. CASE fsm' = [Idle EXCEPT !.tf_ready = TRUE]
  <2> DEFINE u == [Idle EXCEPT !.tf_ready = TRUE]
  <2>1. SameTask(Idle, u) /\ u.exec_state = Idle.exec_state
    BY <1>0, SMT DEF FsmStates, SameTask
  <2>2. fsm' = u
    BY <1>1
  <2> HIDE DEF u
  <2>3. Going(Idle, u)
    BY <2>1, SameGoing, Zenon
  <2> QED
    BY <1>0, <2>2, <2>3, GoingTwice, GoingFate, Zenon
<1>2. CASE /\ TfReadyCallback
           /\ fsm' # [Idle EXCEPT !.tf_ready = TRUE]
  <2> DEFINE s == IF fsm.tf_ready \/ fsm.have_odom THEN c ELSE Idle
             d == DropTask(s)
             t == [d EXCEPT !.tf_ready = FALSE, !.have_odom = FALSE]
  <2>1. fsm' = t
    BY <1>2, Zenon DEF TfReadyCallback
  <2> HIDE DEF c
  <2>2. s \in FsmStates /\ SameTask(fsm, s)
    BY <1>0
  <2> HIDE DEF s
  <2>3. /\ d \in FsmStates /\ ~d.reference_path_active /\ ~d.cancel_pending
        /\ d.pending_path = s.pending_path /\ d.route_outcome = s.route_outcome
    BY <2>2, DropFate, Zenon
  <2> HIDE DEF d
  <2>4. /\ t.reference_path_active = d.reference_path_active
        /\ t.cancel_pending = d.cancel_pending /\ t.pending_path = d.pending_path
        /\ t.route_outcome = d.route_outcome /\ ~t.tf_ready
    BY <2>3, SMT DEF FsmStates
  <2> HIDE DEF t
  <2> QED
    BY <2>1, <2>2, <2>3, <2>4, EndedFate, Zenon DEF Lost, SameTask
<1>3. CASE ExecOdomTimeout
  <2> DEFINE s == IF fsm.odom_timeout_active THEN Idle ELSE c
             outcome == IF s.reference_path_active /\ s.route_outcome = "NONE"
                        THEN "LOCALIZATION_LOST" ELSE s.route_outcome
             w == [s EXCEPT !.odom_timeout_active = TRUE, !.have_odom = FALSE,
                            !.route_outcome = outcome]
             t == DropTask(w)
  <2>1. fsm' = t
    BY <1>3, Zenon DEF ExecOdomTimeout
  <2> HIDE DEF c
  <2>2. s \in FsmStates /\ SameTask(fsm, s)
    BY <1>0
  <2> HIDE DEF s
  <2>3. outcome \in Outcomes
    BY <2>2 DEF FsmStates, Outcomes
  <2>4. /\ outcome = s.route_outcome \/ outcome \notin {"NONE", "SUCCEEDED"}
        /\ s.reference_path_active => outcome # "NONE"
    OBVIOUS
  <2> HIDE DEF outcome
  <2>5. w \in FsmStates
    BY <2>2, <2>3, Zenon DEF FsmStates
  <2>6. w.route_outcome = outcome /\ w.pending_path = s.pending_path
    BY <2>2, SMT DEF FsmStates
  <2> HIDE DEF w
  <2>7. /\ ~t.reference_path_active /\ ~t.cancel_pending
        /\ t.pending_path = w.pending_path /\ t.route_outcome = w.route_outcome
    BY <2>5, DropFate, Zenon
  <2> HIDE DEF t
  <2> QED
    BY <2>1, <2>2, <2>4, <2>6, <2>7, EndedFate, Zenon DEF SameTask
<1> QED
  BY <1>1, <1>2, <1>3

LEMMA EndingFate ==
  ASSUME TaskInv, \/ ExecCancel \/ ExecNextWaypoint \/ ExecRouteDone \/ ExecTaskDone
                  \/ ExecEmergencyExit
  PROVE  Fate(fsm, fsm')
<1>0. Idle \in FsmStates /\ SameTask(fsm, Idle) /\ Idle.exec_state = fsm.exec_state
  BY IdleGoing
<1>a. /\ {"WAIT_TARGET", "GEN_NEW_TRAJ", "REPLAN_TRAJ"} \subseteq ExecStates
      /\ Here \in Targets /\ "SUCCEEDED" \in Outcomes
      /\ NoMission \in Missions \cup {NoMission}
  BY DEF ExecStates, Targets, Outcomes
<1>1. CASE ExecCancel
  <2> DEFINE x == [Idle EXCEPT !.cancel_pending = FALSE, !.end_pt = Here, !.have_target = TRUE,
                               !.reference_path_active = FALSE, !.trigger = TRUE]
             t == ChangeFSMExecState(x, "REPLAN_TRAJ")
  <2>1. fsm' = t /\ fsm.cancel_pending
    BY <1>1, Zenon DEF ExecCancel
  <2>2. x \in FsmStates
    BY <1>0, <1>a, ZenonT(30) DEF FsmStates
  <2>3. /\ ~x.reference_path_active /\ ~x.cancel_pending
        /\ x.pending_path = Idle.pending_path /\ x.route_outcome = Idle.route_outcome
    BY <1>0, SMT DEF FsmStates
  <2> HIDE DEF x
  <2>4. SameTask(x, t)
    BY <1>a, <2>2, ChangeSame, Zenon
  <2> HIDE DEF t
  <2> QED
    BY <1>0, <2>1, <2>3, <2>4, EndedFate, Zenon DEF SameTask
<1>2. CASE ExecRouteDone
  <2> DEFINE x == [Idle EXCEPT !.reference_path_active = FALSE, !.have_target = FALSE,
                               !.route_outcome = "SUCCEEDED", !.mission = NoMission]
             v == AdvanceTaskRevision(x)
             t == ChangeFSMExecState(v, "WAIT_TARGET")
  <2>1. fsm' = t /\ fsm.reference_path_active
    BY <1>2, Zenon DEF ExecRouteDone, OnRoute
  <2>2. x \in FsmStates
    BY <1>0, <1>a, ZenonT(30) DEF FsmStates
  <2>3. /\ ~x.reference_path_active /\ x.cancel_pending = Idle.cancel_pending
        /\ x.pending_path = Idle.pending_path /\ x.route_outcome = "SUCCEEDED"
    BY <1>0, SMT DEF FsmStates
  <2> HIDE DEF x
  <2>4. v \in FsmStates /\ SameTask(x, v)
    BY <2>2, AdvanceType, AdvanceSame, Zenon
  <2> HIDE DEF v
  <2>5. SameTask(v, t)
    BY <1>a, <2>4, ChangeSame, Zenon
  <2> HIDE DEF t
  <2>6. SameTask(x, t)
    BY <2>4, <2>5, SameTaskTwice, Zenon
  <2>7. "SUCCEEDED" # "NONE"
    OBVIOUS
  <2> QED
    BY <1>0, <2>1, <2>3, <2>6, <2>7, EndedFate, Zenon DEF SameTask
<1>3. CASE ExecTaskDone
  <2> DEFINE a == IF fsm.navi_mode = PRESET_TARGET THEN 0 ELSE Idle.active_waypoints
             w == IF fsm.navi_mode = PRESET_TARGET THEN 0 ELSE Idle.current_wp
             x == [Idle EXCEPT !.active_waypoints = a, !.current_wp = w,
                               !.have_target = FALSE, !.mission = NoMission]
             v == AdvanceTaskRevision(x)
             t == ChangeFSMExecState(v, "WAIT_TARGET")
  <2>1. fsm' = t
    BY <1>3, Zenon DEF ExecTaskDone
  <2>2. ~fsm.reference_path_active
    BY <1>3, Zenon DEF ExecTaskDone, OnRoute, TaskInv, Tasked, Routed
  <2>3. a \in 0..NumWaypoints /\ w \in 0..NumWaypoints
    BY <1>0, FsmAssumption DEF FsmStates
  <2> HIDE DEF a, w
  <2>4. x \in FsmStates
    BY <1>0, <1>a, <2>3, ZenonT(30) DEF FsmStates
  <2>5. /\ x.reference_path_active = Idle.reference_path_active
        /\ x.cancel_pending = Idle.cancel_pending
        /\ x.pending_path = Idle.pending_path /\ x.route_outcome = Idle.route_outcome
    BY <1>0, SMT DEF FsmStates
  <2> HIDE DEF x
  <2>6. v \in FsmStates /\ SameTask(x, v)
    BY <2>4, AdvanceType, AdvanceSame, Zenon
  <2> HIDE DEF v
  <2>7. SameTask(v, t)
    BY <1>a, <2>6, ChangeSame, Zenon
  <2> HIDE DEF t
  <2>8. SameTask(x, t)
    BY <2>6, <2>7, SameTaskTwice, Zenon
  <2> QED
    BY <1>0, <2>1, <2>2, <2>5, <2>8, EndedFate, Zenon DEF SameTask
<1>4. CASE ExecEmergencyExit
  <2> DEFINE x == [Idle EXCEPT !.need_hover_stop = FALSE, !.have_target = FALSE,
                               !.trigger = FALSE, !.reference_path_active = FALSE]
             y == ChangeFSMExecState(x, "WAIT_TARGET")
             t == FinishProcess(y)
  <2>1. fsm' = t /\ fsm.need_hover_stop
    BY <1>4, Zenon DEF ExecEmergencyExit
  <2>2. x \in FsmStates
    BY <1>0, ZenonT(30) DEF FsmStates
  <2>3. /\ ~x.reference_path_active /\ x.cancel_pending = Idle.cancel_pending
        /\ x.pending_path = Idle.pending_path /\ x.route_outcome = Idle.route_outcome
    BY <1>0, SMT DEF FsmStates
  <2> HIDE DEF x
  <2>4. y \in FsmStates /\ SameTask(x, y)
    BY <1>a, <2>2, ChangeStateType, ChangeSame, Zenon
  <2> HIDE DEF y
  <2>5. Going(y, t)
    BY <2>4, FinishGoing, Zenon
  <2> HIDE DEF t
  <2>6. /\ ~t.reference_path_active /\ t.cancel_pending = fsm.cancel_pending
        /\ t.pending_path = fsm.pending_path
        /\ t.route_outcome = fsm.route_outcome \/ t.route_outcome = "ABORTED"
    BY <1>0, <2>3, <2>4, <2>5, Zenon DEF SameTask, Going
  <2>7. "ABORTED" \notin {"NONE", "SUCCEEDED"}
    OBVIOUS
  <2> QED
    BY <2>1, <2>6, <2>7, EndedFate, Zenon
<1>5. CASE ExecNextWaypoint
  <2> DEFINE w == Idle.current_wp + 1
             s == [Idle EXCEPT !.current_wp = w]
  <2>1. PICK r \in NextWaypointOutcomes(s) :
          fsm' = ChangeFSMExecState(
                   IF r.ok THEN r.st ELSE [r.st EXCEPT !.replan_fail_count = @ + 1],
                   "GEN_NEW_TRAJ")
    BY <1>5, Zenon DEF ExecNextWaypoint
  <2>2. w \in 0..NumWaypoints
    BY <1>5, FsmAssumption
       DEF ExecNextWaypoint, MoreWaypoints, Idle, TaskInv, IInv, TypeOK, FsmStates
  <2>3. ~fsm.reference_path_active
    BY <1>5 DEF ExecNextWaypoint, MoreWaypoints, TaskInv, Tasked, Routed,
                REFERENCE_PATH, PRESET_TARGET
  <2> HIDE DEF w
  <2> DEFINE Free(x) == /\ x.reference_path_active = Idle.reference_path_active
                        /\ x.cancel_pending = Idle.cancel_pending
                        /\ x.pending_path = Idle.pending_path
                        /\ x.route_outcome = Idle.route_outcome
  <2>4. s \in FsmStates
    BY <1>0, <2>2, Zenon DEF FsmStates
  <2>5. Free(s)
    BY <1>0, SMT DEF FsmStates
  <2> HIDE DEF s
  <2> DEFINE a == [s EXCEPT !.end_pt = Preset]
             k == [a EXCEPT !.have_target = TRUE]
             x == r.st
             n == x.replan_fail_count + 1
             v == [x EXCEPT !.replan_fail_count = n]
             y == IF r.ok THEN x ELSE v
             t == ChangeFSMExecState(y, "GEN_NEW_TRAJ")
  <2>6. x \in FsmStates /\ (x = a \/ x = k)
    BY <2>4, NextWaypointType, NextWaypointCases, Zenon
  <2>7. fsm' = t
    BY <2>1, Zenon
  <2> HIDE DEF x
  <2>8. Free(x)
    <3>1. CASE x = a
      BY <2>4, <2>5, <3>1, SMT DEF FsmStates
    <3>2. CASE x = k
      BY <2>4, <2>5, <3>2, SMT DEF FsmStates
    <3> QED
      BY <2>6, <3>1, <3>2
  <2>9. n \in Nat
    BY <2>6 DEF FsmStates
  <2> HIDE DEF n
  <2>10. v \in FsmStates
    BY <2>6, <2>9, Zenon DEF FsmStates
  <2>11. Free(v)
    BY <2>6, <2>8, SMT DEF FsmStates
  <2> HIDE DEF v
  <2>12. y \in FsmStates /\ Free(y)
    BY <2>6, <2>8, <2>10, <2>11
  <2> HIDE DEF y
  <2>13. SameTask(y, t)
    BY <1>a, <2>12, ChangeSame, Zenon
  <2> HIDE DEF t
  <2> QED
    BY <1>0, <2>3, <2>7, <2>12, <2>13, EndedFate, Zenon DEF SameTask
<1> QED
  BY <1>1, <1>2, <1>3, <1>4, <1>5

LEMMA CallbacksFate ==
  ASSUME TaskInv, Callbacks  PROVE Fate(fsm, fsm')
BY WaypointFate, PathFate, OdometryFate, LossFate, PlanningFate, EndingFate, Zenon
   DEF Callbacks, ExecFSMCallback, CheckCollisionCallback, Subscriptions

-----------------------------------------------------------------------------
(* The inductive invariant of the server.                                  *)

(* The clocks of an active mission have not run out, and its id is none of *)
(* those that were answered.                                               *)
Clocked ==
  mission.active =>
    /\ mission.id \in Missions \ finished
    /\ mission.cancel_age <= CancelStopTimeout
    /\ mission.emergency_age <= StuckTimeout

(* A pending cancel is that of the active mission.                         *)
Owned == fsm.cancel_pending => mission.active /\ mission.cancel_requested

SInv == TaskInv /\ ServerTypeOK /\ IsFiniteSet(finished) /\ Clocked /\ Owned

(* A robot is given its routes on topics or by the action server, not by   *)
(* both.                                                                   *)
ActionDeployment == ~TopicTasks

(* The route that is active is the mission's own, and a route that has     *)
(* left the active state with success is recorded as complete.             *)
Earned ==
  /\ fsm.pending_path = NoTask
  /\ mission.active /\ fsm.reference_path_active => fsm.mission = mission.id
  /\ mission.active /\ fsm.route_outcome = "SUCCEEDED" => mission.id \in completed
  /\ result.reason = "OK" => result.id \in completed

(* A hover stop that an active mission has not found comes with a verdict. *)
Hovering ==
  mission.active /\ ~mission.hover /\ fsm.reference_path_active /\ fsm.need_hover_stop =>
    fsm.route_outcome # "NONE"

(* A canceled route that had begun does not wait again.                    *)
Begun ==
  /\ mission.active /\ mission.cancel_requested /\ mission.cancel_from \notin Waiting
  /\ fsm.reference_path_active
  => fsm.exec_state \notin Waiting

EInv == SInv /\ Earned /\ Hovering /\ Begun

(* No more missions than the server remembers answered ids for: when the   *)
(* set is full it is emptied, and the ids it held may be used again.       *)
FewMissions == IsFiniteSet(Missions) /\ Cardinality(Missions) <= MaxFinished

Decided ==
  /\ result.text \notin {"", "timed out", "stuck"}
  /\ result.text = "stopped" => result.cancel_from \notin Waiting

(* A route that outlives its mission is that of an answered one, and if    *)
(* the answer was a verdict, the planner has reached it as well.           *)
Answered ==
  /\ result.text # "" => result.id \in finished
  /\ fsm.reference_path_active /\ ~mission.active => fsm.mission \in finished
  /\ Decided /\ Driving(result.id) => fsm.route_outcome # "NONE"

AInv == EInv /\ Answered

-----------------------------------------------------------------------------
(* The server's callbacks are calls that the state machine allows.         *)

LEMMA ResetOfNone ==
  ASSUME NEW s \in FsmStates, ~s.cancel_pending
  PROVE  ResetFollowRouteCancel(s) = s
<1>1. s.cancel_pending = FALSE
  BY DEF FsmStates
<1> QED
  BY <1>1, SMT DEF ResetFollowRouteCancel, FsmStates

LEMMA Reset ==
  ASSUME NEW s \in FsmStates
  PROVE  LET t == ResetFollowRouteCancel(s)
         IN  /\ t \in FsmStates /\ ~t.cancel_pending /\ t.pending_path = s.pending_path
             /\ t.reference_path_active = s.reference_path_active
             /\ t.mission = s.mission /\ t.route_outcome = s.route_outcome
             /\ t.need_hover_stop = s.need_hover_stop /\ t.exec_state = s.exec_state
<1>1. ResetFollowRouteCancel(s) \in FsmStates
  BY Zenon DEF ResetFollowRouteCancel, FsmStates
<1>2. LET t == ResetFollowRouteCancel(s)
      IN  /\ ~t.cancel_pending /\ t.pending_path = s.pending_path
          /\ t.reference_path_active = s.reference_path_active
          /\ t.mission = s.mission /\ t.route_outcome = s.route_outcome
          /\ t.need_hover_stop = s.need_hover_stop /\ t.exec_state = s.exec_state
  BY SMT DEF ResetFollowRouteCancel, FsmStates
<1> QED
  BY <1>1, <1>2

(* What a goal does.  Accepted, or refused after the route was taken over, *)
(* it is a call of startFollowRoute; refused before that, a mere reset.    *)
LEMMA GoalCase ==
  ASSUME SInv, HandleGoal
  PROVE  \E id \in Missions \ finished :
           LET m == [NoActiveMission EXCEPT !.active = TRUE, !.id = id,
                                            !.hover = fsm.need_hover_stop]
           IN  \/ /\ StartCall /\ mission' = m
                  /\ fsm'.reference_path_active /\ fsm'.mission = id
                  /\ fsm'.route_outcome = "NONE" /\ ~fsm'.cancel_pending
                  /\ fsm'.need_hover_stop = fsm.need_hover_stop
                  /\ fsm'.pending_path = fsm.pending_path
                  /\ UNCHANGED << finished, result, completed >>
               \/ /\ Finish(m, fsm', "GOAL_REJECTED", "not accepted")
                  /\ ~fsm'.cancel_pending /\ fsm'.pending_path = fsm.pending_path
                  /\ \/ StartCall /\ ~fsm'.reference_path_active
                     \/ /\ ResetCall /\ fsm'.mission = fsm.mission
                        /\ fsm'.reference_path_active = fsm.reference_path_active
                        /\ fsm'.route_outcome = fsm.route_outcome
<1>0. Idle \in FsmStates /\ SameTask(fsm, Idle)
  BY IdleGoing DEF SInv
<1>1. ~fsm.cancel_pending /\ ~mission.active /\ ~Idle.cancel_pending
  BY <1>0, Zenon DEF SInv, Owned, HandleGoal, SameTask
<1>2. PICK id \in Missions \ finished, r \in Tasks :
        LET m == [NoActiveMission EXCEPT !.active = TRUE, !.id = id,
                                         !.hover = fsm.need_hover_stop]
        IN  \E o \in RouteOutcomes(Idle, r, id) \cup {Failed(Idle)} :
              \/ /\ o.ok
                 /\ mission' = m /\ fsm' = o.st
                 /\ UNCHANGED << finished, result, completed >>
              \/ /\ ~o.ok
                 /\ Finish(m, o.st, "GOAL_REJECTED", "not accepted")
  BY Zenon DEF HandleGoal
<1> DEFINE m == [NoActiveMission EXCEPT !.active = TRUE, !.id = id,
                                        !.hover = fsm.need_hover_stop]
<1>3. PICK o \in RouteOutcomes(Idle, r, id) \cup {Failed(Idle)} :
              \/ /\ o.ok
                 /\ mission' = m /\ fsm' = o.st
                 /\ UNCHANGED << finished, result, completed >>
              \/ /\ ~o.ok
                 /\ Finish(m, o.st, "GOAL_REJECTED", "not accepted")
  BY <1>2, Zenon
<1> HIDE DEF m
<1>4. id \in Missions \cup {NoMission} /\ id \in Missions
  OBVIOUS
<1>5. CASE o \in RouteOutcomes(Idle, r, id)
  <2> DEFINE t == o.st
  <2>1. t \in FsmStates
    BY <1>0, <1>4, <1>5, RouteType
  <2>2. /\ t.cancel_pending = Idle.cancel_pending /\ t.pending_path = Idle.pending_path
        /\ t.need_hover_stop = Idle.need_hover_stop
    BY <1>0, <1>4, <1>5, RouteFate
  <2>3. /\ o.ok  => /\ t.reference_path_active /\ t.mission = id
                    /\ t.route_outcome = "NONE"
        /\ ~o.ok => ~t.reference_path_active
    BY <1>0, <1>4, <1>5, RouteFate
  <2>4. t.cancel_pending = FALSE
    BY <1>1, <2>1, <2>2 DEF FsmStates
  <2>5. ResetFollowRouteCancel(t) = t
    BY <2>1, <2>4, ResetOfNone
  <2> HIDE DEF t
  <2>6. fsm' = t
    BY <1>3, <2>5, Zenon DEF Finish, t
  <2>7. StartCall
    BY <1>1, <1>4, <1>5, <2>6, Zenon DEF StartCall, HandleGoal, t
  <2>8. CASE o.ok
    BY <1>0, <1>3, <2>2, <2>3, <2>4, <2>6, <2>7, <2>8, Zenon DEF SameTask, m
  <2>9. CASE ~o.ok
    <3>1. Finish(m, fsm', "GOAL_REJECTED", "not accepted")
      BY <1>3, <2>6, <2>9, Zenon DEF t
    <3> QED
      BY <1>0, <2>2, <2>3, <2>4, <2>6, <2>7, <2>9, <3>1, Zenon DEF SameTask, m
  <2> QED
    BY <2>8, <2>9
<1>6. CASE o = Failed(Idle)
  <2>1. ~o.ok /\ o.st = Idle
    BY <1>6 DEF Failed
  <2>2. Finish(m, Idle, "GOAL_REJECTED", "not accepted")
    BY <1>3, <2>1
  <2>3. fsm' = ResetFollowRouteCancel(Idle) /\ ResetFollowRouteCancel(Idle) = Idle
    BY <1>0, <1>1, <2>2, ResetOfNone, Zenon DEF Finish
  <2>4. fsm' = Idle /\ ResetCall
    BY <2>3, Zenon DEF ResetCall
  <2>5. Finish(m, fsm', "GOAL_REJECTED", "not accepted")
    BY <2>2, <2>4, Zenon
  <2> QED
    BY <1>0, <1>1, <2>4, <2>5, Zenon DEF SameTask, m
<1> QED
  BY <1>5, <1>6

(* What a cancel and the monitor leave of the route.                       *)
Kept(s, t) ==
  /\ t.reference_path_active = s.reference_path_active /\ t.mission = s.mission
  /\ t.route_outcome = s.route_outcome /\ t.need_hover_stop = s.need_hover_stop
  /\ t.exec_state = s.exec_state /\ t.pending_path = s.pending_path

Ages == Never..(CancelStopTimeout + 1)
StuckAges == Never..(StuckTimeout + 1)
MissionRecords ==
  [active : BOOLEAN, id : Missions \cup {NoMission}, cancel_requested : BOOLEAN,
   cancel_age : Ages, emergency_age : StuckAges, cancel_from : ExecStates, hover : BOOLEAN]

LEMMA EndedMission ==
  ASSUME NEW x \in MissionRecords
  PROVE  LET t == [x EXCEPT !.active = FALSE]
         IN  /\ t \in MissionRecords /\ ~t.active /\ t.id = x.id
             /\ t.cancel_requested = x.cancel_requested
             /\ t.hover = x.hover /\ t.cancel_from = x.cancel_from
             /\ t.cancel_age = x.cancel_age /\ t.emergency_age = x.emergency_age
<1>1. [x EXCEPT !.active = FALSE] \in MissionRecords
  BY Zenon DEF MissionRecords
<1>2. LET t == [x EXCEPT !.active = FALSE]
      IN  /\ ~t.active /\ t.id = x.id /\ t.cancel_requested = x.cancel_requested
          /\ t.hover = x.hover /\ t.cancel_from = x.cancel_from
          /\ t.cancel_age = x.cancel_age /\ t.emergency_age = x.emergency_age
  BY SMT DEF MissionRecords
<1> QED
  BY <1>1, <1>2

LEMMA CancelCase ==
  ASSUME SInv, HandleCancel
  PROVE  /\ CancelCall /\ Kept(fsm, fsm') /\ fsm' \in FsmStates
         /\ mission' \in MissionRecords /\ mission'.active /\ mission'.id = mission.id
         /\ mission'.cancel_requested /\ mission'.hover = mission.hover
         /\ mission'.cancel_from = fsm.exec_state
         /\ mission'.cancel_age = 0 /\ mission'.emergency_age = mission.emergency_age
         /\ mission.active /\ UNCHANGED << finished, result, completed >>
<1>0. Idle \in FsmStates /\ SameTask(fsm, Idle) /\ Idle.exec_state = fsm.exec_state
  BY IdleGoing DEF SInv
<1> DEFINE v == AdvanceTaskRevision(Idle)
           c == [v EXCEPT !.cancel_pending = TRUE]
<1>1. fsm' = Idle \/ fsm' = c
  BY Zenon DEF HandleCancel, CancelFollowRoute
<1>2. v \in FsmStates /\ SameTask(Idle, v) /\ v.exec_state = Idle.exec_state
  BY <1>0, AdvanceType, AdvanceSame, Zenon
<1> HIDE DEF v
<1>3. c \in FsmStates
  BY <1>2, Zenon DEF FsmStates
<1>4. Kept(v, c)
  BY <1>2, SMT DEF FsmStates, Kept
<1> HIDE DEF c
<1>5. Kept(fsm, fsm') /\ fsm' \in FsmStates
  BY <1>0, <1>1, <1>2, <1>3, <1>4, Zenon DEF Kept, SameTask
<1>6. mission \in MissionRecords
  BY DEF SInv, ServerTypeOK, MissionRecords, Ages, StuckAges
<1>7. fsm.exec_state \in ExecStates /\ 0 \in Ages
  BY ServerAssumption DEF SInv, TaskInv, IInv, TypeOK, FsmStates, Ages, Never
<1>8. mission' = [mission EXCEPT !.cancel_requested = TRUE, !.cancel_age = 0,
                                 !.cancel_from = fsm.exec_state]
      /\ mission.active
  BY DEF HandleCancel
<1>9. mission' \in MissionRecords
  BY <1>6, <1>7, <1>8, Zenon DEF MissionRecords
<1>10. /\ mission'.active = mission.active /\ mission'.id = mission.id
       /\ mission'.cancel_requested /\ mission'.hover = mission.hover
       /\ mission'.cancel_from = fsm.exec_state
       /\ mission'.cancel_age = 0 /\ mission'.emergency_age = mission.emergency_age
  <2> DEFINE t == [mission EXCEPT !.cancel_requested = TRUE, !.cancel_age = 0,
                                  !.cancel_from = fsm.exec_state]
  <2>1. /\ t.active = mission.active /\ t.id = mission.id /\ t.cancel_requested
        /\ t.hover = mission.hover /\ t.cancel_from = fsm.exec_state
        /\ t.cancel_age = 0 /\ t.emergency_age = mission.emergency_age
    BY <1>6, SMT DEF MissionRecords
  <2>2. mission' = t
    BY <1>8
  <2> HIDE DEF t
  <2> QED
    BY <2>1, <2>2
<1>11. CancelCall
  BY DEF HandleCancel, CancelCall
<1> QED
  BY <1>5, <1>8, <1>9, <1>10, <1>11 DEF HandleCancel

(* The verdict and the state it tells of.                                  *)
LEMMA Verdict ==
  ASSUME NEW m
  PROVE  LET v == MonitorVerdict(m)
         IN  /\ v[1] \in Reasons
             /\ v[1] = "NONE" => ~(m.cancel_requested /\ m.cancel_age > CancelStopTimeout)
                                 /\ ~(m.emergency_age > StuckTimeout)
             /\ v[1] = "OK" => fsm.route_outcome = "SUCCEEDED"
             /\ v[1] # "NONE" => v[2] # ""
             /\ v[1] # "NONE" /\ v[2] \notin {"timed out", "stuck"} =>
                  \/ fsm.route_outcome # "NONE"
                  \/ ~fsm.have_odom
                  \/ v[2] = "stopped" /\ m.cancel_requested /\ fsm.exec_state \in Waiting
BY DEF MonitorVerdict, Reasons, Waiting

LEMMA MonitorCase ==
  ASSUME SInv, MonitorCallback
  PROVE  /\ mission.active /\ Kept(fsm, fsm') /\ fsm' \in FsmStates
         /\ Aged.active /\ Aged.id = mission.id
         /\ Aged.cancel_requested = mission.cancel_requested
         /\ Aged.hover = mission.hover /\ Aged.cancel_from = mission.cancel_from
         /\ Aged \in MissionRecords
         /\ LET v == MonitorVerdict(Aged)
            IN  \/ /\ v[1] # "NONE" /\ ResetCall
                   /\ Finish(Aged, Idle, v[1], v[2]) /\ ~fsm'.cancel_pending
                \/ /\ v[1] = "NONE" /\ (ResetCall \/ CancelCall)
                   /\ mission' = Aged /\ fsm'.cancel_pending = fsm.cancel_pending
                   /\ Aged.cancel_age <= CancelStopTimeout
                   /\ Aged.emergency_age <= StuckTimeout
                   /\ UNCHANGED << finished, result, completed >>
<1>0. Idle \in FsmStates /\ SameTask(fsm, Idle) /\ Idle.exec_state = fsm.exec_state
  BY IdleGoing DEF SInv
<1>1. mission \in MissionRecords /\ mission.active /\ Clocked
  BY DEF SInv, ServerTypeOK, MissionRecords, Ages, StuckAges, MonitorCallback
<1> DEFINE c == IF mission.cancel_requested THEN mission.cancel_age + 1 ELSE mission.cancel_age
           e == IF fsm.exec_state = "EMERGENCY_STOP" THEN mission.emergency_age + 1 ELSE Never
           v == MonitorVerdict(Aged)
<1>2. c \in Ages /\ e \in StuckAges
  BY <1>1, ServerAssumption DEF MissionRecords, Ages, StuckAges, Clocked, Never
<1>3. Aged = [mission EXCEPT !.cancel_age = c, !.emergency_age = e]
  BY Zenon DEF Aged
<1> HIDE DEF c, e
<1>4. Aged \in MissionRecords
  BY <1>1, <1>2, <1>3, Zenon DEF MissionRecords
<1>5. /\ Aged.active = mission.active /\ Aged.id = mission.id
      /\ Aged.cancel_requested = mission.cancel_requested
      /\ Aged.hover = mission.hover /\ Aged.cancel_from = mission.cancel_from
      /\ Aged.cancel_age = c /\ Aged.emergency_age = e
  <2> DEFINE t == [mission EXCEPT !.cancel_age = c, !.emergency_age = e]
  <2>1. /\ t.active = mission.active /\ t.id = mission.id
        /\ t.cancel_requested = mission.cancel_requested
        /\ t.hover = mission.hover /\ t.cancel_from = mission.cancel_from
        /\ t.cancel_age = c /\ t.emergency_age = e
    <3>1. mission \in MissionRecords
      BY <1>1
    <3> QED
      BY <3>1, SMT DEF MissionRecords
  <2>2. Aged = t
    BY <1>3
  <2> HIDE DEF t
  <2> QED
    BY <2>1, <2>2
<1>6. \/ v[1] # "NONE" /\ Finish(Aged, Idle, v[1], v[2])
      \/ /\ v[1] = "NONE" /\ mission' = Aged /\ fsm' = Idle
         /\ UNCHANGED << finished, result, completed >>
  BY Zenon DEF MonitorCallback
<1> HIDE DEF v
<1>7. CASE v[1] # "NONE" /\ Finish(Aged, Idle, v[1], v[2])
  <2>1. fsm' = ResetFollowRouteCancel(Idle)
    BY <1>7 DEF Finish
  <2>2. /\ fsm' \in FsmStates /\ ~fsm'.cancel_pending /\ Kept(Idle, fsm')
    BY <1>0, <2>1, Reset, Zenon DEF Kept
  <2>3. Kept(fsm, fsm') /\ ResetCall
    BY <1>0, <2>1, <2>2, Zenon DEF Kept, SameTask, ResetCall
  <2> QED
    BY <1>1, <1>4, <1>5, <1>7, <2>2, <2>3, Zenon DEF v
<1>8. CASE /\ v[1] = "NONE" /\ mission' = Aged /\ fsm' = Idle
           /\ UNCHANGED << finished, result, completed >>
  <2>1. Kept(fsm, fsm') /\ fsm'.cancel_pending = fsm.cancel_pending /\ fsm' \in FsmStates
    BY <1>0, <1>8, Zenon DEF Kept, SameTask
  <2>2. ResetCall \/ CancelCall
    <3>1. CASE Idle.cancel_pending
      <4>1. CancelFollowRoute(Idle) = Idle
        BY <3>1, Zenon DEF CancelFollowRoute
      <4> QED
        BY <1>8, <4>1, Zenon DEF CancelCall
    <3>2. CASE ~Idle.cancel_pending
      BY <1>0, <1>8, <3>2, ResetOfNone, Zenon DEF ResetCall
    <3> QED
      BY <3>1, <3>2
  <2>3. Aged.cancel_age <= CancelStopTimeout /\ Aged.emergency_age <= StuckTimeout
    <3>1. /\ ~(Aged.cancel_requested /\ Aged.cancel_age > CancelStopTimeout)
          /\ ~(Aged.emergency_age > StuckTimeout)
      BY <1>8, Verdict, Zenon DEF v
    <3>2. /\ Aged.cancel_age \in Int /\ Aged.emergency_age \in Int
          /\ CancelStopTimeout \in Int /\ StuckTimeout \in Int
      BY <1>2, <1>5, ServerAssumption DEF Ages, StuckAges, Never
    <3>3. CASE mission.cancel_requested
      BY <1>5, <3>1, <3>2, <3>3
    <3>4. CASE ~mission.cancel_requested
      <4>1. Aged.cancel_age = mission.cancel_age
        BY <1>5, <3>4 DEF c
      <4> QED
        BY <1>1, <3>1, <3>2, <4>1 DEF Clocked
    <3> QED
      BY <3>3, <3>4
  <2> QED
    BY <1>1, <1>4, <1>5, <1>8, <2>1, <2>2, <2>3, Zenon DEF v
<1> QED
  BY <1>6, <1>7, <1>8

LEMMA NewMission ==
  ASSUME TypeOK, NEW id \in Missions
  PROVE  LET m == [NoActiveMission EXCEPT !.active = TRUE, !.id = id,
                                          !.hover = fsm.need_hover_stop]
         IN  /\ m \in MissionRecords /\ m.active /\ m.id = id /\ ~m.cancel_requested
             /\ m.hover = fsm.need_hover_stop
             /\ m.cancel_age = Never /\ m.emergency_age = Never
<1> DEFINE m == [NoActiveMission EXCEPT !.active = TRUE, !.id = id,
                                        !.hover = fsm.need_hover_stop]
<1>1. fsm.need_hover_stop \in BOOLEAN /\ "INIT" \in ExecStates
  BY DEF TypeOK, FsmStates, ExecStates
<1>2. Never \in Ages /\ Never \in StuckAges
  BY ServerAssumption DEF Ages, StuckAges, Never
<1>3. NoActiveMission \in MissionRecords
  BY <1>1, <1>2, Zenon DEF NoActiveMission, MissionRecords
<1>4. m \in MissionRecords
  BY <1>1, <1>3, Zenon DEF MissionRecords
<1>5. /\ m.active /\ m.id = id /\ ~m.cancel_requested
      /\ m.hover = fsm.need_hover_stop
      /\ m.cancel_age = Never /\ m.emergency_age = Never
  BY DEF NoActiveMission
<1> QED
  BY <1>4, <1>5

(* An answered mission is remembered, in a set that stays within its bound.*)
LEMMA Remembered ==
  ASSUME finished \subseteq Missions, IsFiniteSet(finished),
         Cardinality(finished) <= MaxFinished, NEW id \in Missions,
         finished' = IF Cardinality(finished) >= MaxFinished THEN {id}
                     ELSE finished \cup {id}
  PROVE  /\ finished' \subseteq Missions /\ IsFiniteSet(finished')
         /\ Cardinality(finished') <= MaxFinished /\ id \in finished'
<1>1. MaxFinished \in Nat \ {0} /\ Cardinality(finished) \in Nat
  BY ServerAssumption, FS_CardinalityType
<1>2. IsFiniteSet({id}) /\ Cardinality({id}) = 1
  BY FS_Singleton
<1>3. IsFiniteSet(finished \cup {id})
  BY FS_AddElement
<1>4. Cardinality(finished \cup {id}) \in {Cardinality(finished), Cardinality(finished) + 1}
  BY FS_AddElement
<1>5. CASE Cardinality(finished) >= MaxFinished
  BY <1>1, <1>2, <1>5
<1>6. CASE ~(Cardinality(finished) >= MaxFinished)
  <2>1. finished' = finished \cup {id}
    BY <1>6
  <2>2. Cardinality(finished') <= MaxFinished
    BY <1>1, <1>4, <1>6, <2>1
  <2> QED
    BY <1>3, <2>1, <2>2
<1> QED
  BY <1>5, <1>6

LEMMA FinishCase ==
  ASSUME ServerTypeOK, IsFiniteSet(finished), NEW m \in MissionRecords, m.id \in Missions,
         NEW s, NEW reason \in Reasons, NEW text, Finish(m, s, reason, text)
  PROVE  /\ mission' \in MissionRecords /\ ~mission'.active
         /\ finished' \subseteq Missions /\ IsFiniteSet(finished')
         /\ Cardinality(finished') <= MaxFinished /\ m.id \in finished'
         /\ result'.id = m.id /\ result'.reason = reason /\ result'.text = text
         /\ result'.cancel_from = m.cancel_from /\ completed' = completed
<1>1. mission' \in MissionRecords /\ ~mission'.active
  BY EndedMission, Zenon DEF Finish
<1>2. /\ finished' \subseteq Missions /\ IsFiniteSet(finished')
      /\ Cardinality(finished') <= MaxFinished /\ m.id \in finished'
  BY Remembered, Zenon DEF Finish, ServerTypeOK
<1>3. /\ result'.id = m.id /\ result'.reason = reason /\ result'.text = text
      /\ result'.cancel_from = m.cancel_from /\ completed' = completed
  BY DEF Finish
<1> QED
  BY <1>1, <1>2, <1>3

(* The invariant of the state machine through one of its steps.            *)
LEMMA TaskStep ==
  ASSUME TaskInv, [Next]_fsm  PROVE TaskInv'
<1>1. CASE Next
  <2>1. TypeOK'
    BY <1>1, SubscriptionsType, TimersType, ServerCallsType, Zenon
       DEF Next, Callbacks, TaskInv, IInv
  <2>2. Good(fsm')
    BY <1>1, SubscriptionsGood, TimersGood, ServerCallsGood, Zenon
       DEF Next, Callbacks, TaskInv
  <2>3. Right(fsm.bspline, fsm')
    BY <1>1, StepRight
  <2>4. Tasked(fsm)'
    BY <2>3, Zenon DEF Right, Steady, Sent, Tasked, Linked, Executed, Routed, Ended, Posed
  <2> QED
    BY <2>1, <2>2, <2>4 DEF TaskInv, IInv
<1>2. CASE UNCHANGED fsm
  <2>1. Tasked(fsm)'
    BY <1>2, Zenon DEF TaskInv, Tasked, Linked, Executed, Routed, Ended, Posed
  <2>2. IInv'
    BY <1>2, Zenon DEF TaskInv, IInv, TypeOK, Good, Current, Located, Armed, Limited, Authority,
                       HeartbeatAllows
  <2> QED
    BY <2>1, <2>2 DEF TaskInv
<1> QED
  BY <1>1, <1>2

LEMMA TypedRecords ==
  ServerTypeOK <=>
    /\ TypeOK /\ mission \in MissionRecords
    /\ finished \subseteq Missions /\ Cardinality(finished) <= MaxFinished
    /\ completed \subseteq Missions
    /\ result.reason \in Reasons /\ result.id \in Missions \cup {NoMission}
BY DEF ServerTypeOK, MissionRecords, Ages, StuckAges

LEMMA ServerStep ==
  ASSUME SInv, [ServerNext]_vars  PROVE SInv' /\ [Next]_fsm
<1>0. /\ TypeOK /\ mission \in MissionRecords /\ TaskInv /\ IsFiniteSet(finished)
      /\ finished \subseteq Missions /\ Cardinality(finished) <= MaxFinished
      /\ completed \subseteq Missions
      /\ result.reason \in Reasons /\ result.id \in Missions \cup {NoMission}
  BY TypedRecords DEF SInv
<1>a. ASSUME [Next]_fsm,
             /\ mission' \in MissionRecords /\ finished' \subseteq Missions
             /\ IsFiniteSet(finished') /\ Cardinality(finished') <= MaxFinished
             /\ completed' \subseteq Missions
             /\ result'.reason \in Reasons /\ result'.id \in Missions \cup {NoMission},
             Clocked', Owned'
      PROVE  SInv' /\ [Next]_fsm
  <2>1. TaskInv'
    BY <1>0, <1>a, TaskStep
  <2>2. TypeOK'
    BY <2>1 DEF TaskInv, IInv
  <2>3. ServerTypeOK'
    BY <1>a, <2>2 DEF ServerTypeOK, MissionRecords, Ages, StuckAges
  <2> QED
    BY <1>a, <2>1, <2>3 DEF SInv
<1>b. ASSUME UNCHANGED << finished, result, completed >>
      PROVE  /\ finished' \subseteq Missions
             /\ IsFiniteSet(finished') /\ Cardinality(finished') <= MaxFinished
             /\ completed' \subseteq Missions
             /\ result'.reason \in Reasons /\ result'.id \in Missions \cup {NoMission}
  <2>1. finished' = finished /\ result' = result /\ completed' = completed
    BY <1>b
  <2> QED
    BY <1>0, <2>1
<1>1. CASE FsmStep
  <2>1. [Next]_fsm /\ UNCHANGED << mission, finished, result >> /\ Fate(fsm, fsm')
    BY <1>0, <1>1, CallbacksFate DEF FsmStep, Next
  <2>2. fsm.mission \in Missions \cup {NoMission}
    BY <1>0 DEF TypeOK, FsmStates
  <2>3. completed' \subseteq Missions
    BY <1>0, <1>1, <2>2 DEF FsmStep
  <2>4. Clocked' /\ Owned'
    BY <2>1 DEF SInv, Clocked, Owned, Fate
  <2> QED
    BY <1>0, <1>a, <2>1, <2>3, <2>4
<1>2. CASE HandleGoal
  <2> DEFINE New(id) == [NoActiveMission EXCEPT !.active = TRUE, !.id = id,
                                                !.hover = fsm.need_hover_stop]
  <2>1. PICK id \in Missions \ finished :
          \/ /\ StartCall /\ mission' = New(id) /\ ~fsm'.cancel_pending
             /\ UNCHANGED << finished, result, completed >>
          \/ /\ Finish(New(id), fsm', "GOAL_REJECTED", "not accepted")
             /\ ~fsm'.cancel_pending /\ (StartCall \/ ResetCall)
    BY <1>2, GoalCase, Zenon
  <2>2. [Next]_fsm /\ Owned'
    BY <2>1, Zenon DEF Next, ServerCalls, Owned
  <2> DEFINE m == New(id)
  <2>3. /\ m \in MissionRecords /\ m.active /\ m.id = id
        /\ m.cancel_age = Never /\ m.emergency_age = Never
    BY <1>0, NewMission, Zenon
  <2>4. \/ mission' = m /\ UNCHANGED << finished, result, completed >>
        \/ Finish(m, fsm', "GOAL_REJECTED", "not accepted")
    BY <2>1, Zenon
  <2> HIDE DEF New, m
  <2>5. CASE mission' = m /\ UNCHANGED << finished, result, completed >>
    <3>1. Never <= CancelStopTimeout /\ Never <= StuckTimeout
      BY ServerAssumption DEF Never
    <3>2. Clocked'
      BY <2>3, <2>5, <3>1 DEF Clocked
    <3> QED
      BY <1>a, <1>b, <2>2, <2>3, <2>5, <3>2
  <2>6. CASE Finish(m, fsm', "GOAL_REJECTED", "not accepted")
    <3>1. "GOAL_REJECTED" \in Reasons
      BY DEF Reasons
    <3>2. ServerTypeOK /\ m.id \in Missions
      BY <2>3 DEF SInv
    <3>3. /\ mission' \in MissionRecords /\ ~mission'.active
          /\ finished' \subseteq Missions /\ IsFiniteSet(finished')
          /\ Cardinality(finished') <= MaxFinished
      BY <1>0, <2>3, <2>6, <3>1, <3>2, FinishCase
    <3>4. result'.id = m.id /\ result'.reason = "GOAL_REJECTED" /\ completed' = completed
      BY <1>0, <2>3, <2>6, <3>1, <3>2, FinishCase
    <3>5. Clocked'
      BY <3>3 DEF Clocked
    <3> QED
      BY <1>0, <1>a, <2>2, <3>1, <3>2, <3>3, <3>4, <3>5
  <2> QED
    BY <2>4, <2>5, <2>6
<1>3. CASE HandleCancel
  <2>1. /\ CancelCall /\ mission' \in MissionRecords /\ mission'.id = mission.id
        /\ mission'.active /\ mission'.cancel_requested
        /\ mission'.cancel_age = 0 /\ mission'.emergency_age = mission.emergency_age
        /\ mission.active /\ UNCHANGED << finished, result, completed >>
    BY <1>3, CancelCase
  <2>2. [Next]_fsm /\ Owned'
    BY <2>1 DEF Next, ServerCalls, Owned
  <2>3. 0 <= CancelStopTimeout
    BY ServerAssumption
  <2>4. Clocked'
    BY <2>1, <2>3 DEF SInv, Clocked
  <2> QED
    BY <1>a, <1>b, <2>1, <2>2, <2>4
<1>4. CASE MonitorCallback
  <2> DEFINE v == MonitorVerdict(Aged)
  <2>1. /\ mission.active /\ Aged.active /\ Aged.id = mission.id
        /\ Aged.cancel_requested = mission.cancel_requested /\ Aged \in MissionRecords
    BY <1>4, MonitorCase
  <2>2. \/ /\ v[1] # "NONE" /\ ResetCall
           /\ Finish(Aged, Idle, v[1], v[2]) /\ ~fsm'.cancel_pending
        \/ /\ v[1] = "NONE" /\ (ResetCall \/ CancelCall)
           /\ mission' = Aged /\ fsm'.cancel_pending = fsm.cancel_pending
           /\ Aged.cancel_age <= CancelStopTimeout
           /\ Aged.emergency_age <= StuckTimeout
           /\ UNCHANGED << finished, result, completed >>
    BY <1>4, MonitorCase
  <2>3. v[1] \in Reasons
    BY Verdict, Zenon
  <2> HIDE DEF v
  <2>4. [Next]_fsm
    BY <2>2, Zenon DEF Next, ServerCalls
  <2>5. CASE Finish(Aged, Idle, v[1], v[2]) /\ ~fsm'.cancel_pending
    <3>1. ServerTypeOK /\ Aged.id \in Missions
      BY <2>1 DEF SInv, Clocked
    <3>2. /\ mission' \in MissionRecords /\ ~mission'.active
          /\ finished' \subseteq Missions /\ IsFiniteSet(finished')
          /\ Cardinality(finished') <= MaxFinished
      BY <1>0, <2>1, <2>3, <2>5, <3>1, FinishCase
    <3>3. result'.id = Aged.id /\ result'.reason = v[1] /\ completed' = completed
      BY <1>0, <2>1, <2>3, <2>5, <3>1, FinishCase
    <3>4. Clocked' /\ Owned'
      BY <2>5, <3>2 DEF Clocked, Owned
    <3> QED
      BY <1>0, <1>a, <2>3, <2>4, <3>1, <3>2, <3>3, <3>4
  <2>6. CASE /\ mission' = Aged /\ fsm'.cancel_pending = fsm.cancel_pending
             /\ Aged.cancel_age <= CancelStopTimeout
             /\ Aged.emergency_age <= StuckTimeout
             /\ UNCHANGED << finished, result, completed >>
    <3>1. Clocked' /\ Owned'
      BY <2>1, <2>6 DEF SInv, Clocked, Owned
    <3> QED
      BY <1>a, <1>b, <2>1, <2>4, <2>6, <3>1
  <2> QED
    BY <2>2, <2>5, <2>6
<1>5. CASE UNCHANGED vars
  <2>1. /\ UNCHANGED << finished, result, completed >> /\ mission' = mission
        /\ fsm' = fsm
    BY <1>5 DEF vars, server
  <2>2. Clocked' /\ Owned'
    BY <2>1 DEF SInv, Clocked, Owned
  <2> QED
    BY <1>0, <1>a, <1>b, <2>1, <2>2
<1> QED
  BY <1>1, <1>2, <1>3, <1>4, <1>5 DEF ServerNext

LEMMA ServerStart == ServerInit => SInv
<1> SUFFICES ASSUME ServerInit  PROVE SInv
  OBVIOUS
<1>1. TaskInv
  BY InitType, InitGood, InitTasked DEF ServerInit, TaskInv, IInv
<1>2. IsFiniteSet(finished) /\ Cardinality(finished) = 0
  BY FS_EmptySet DEF ServerInit
<1>3. NoActiveMission \in MissionRecords /\ NoActiveMission.active = FALSE
  <2>1. Never \in Ages /\ Never \in StuckAges /\ "INIT" \in ExecStates
    BY ServerAssumption DEF Ages, StuckAges, Never, ExecStates
  <2>2. NoActiveMission \in MissionRecords
    BY <2>1, Zenon DEF NoActiveMission, MissionRecords
  <2> QED
    BY <2>2 DEF NoActiveMission
<1>4. ServerTypeOK
  <2>1. NoResult.reason \in Reasons /\ NoResult.id \in Missions \cup {NoMission}
    BY DEF NoResult, Reasons
  <2>2. 0 <= MaxFinished
    BY ServerAssumption
  <2> QED
    BY <1>1, <1>2, <1>3, <2>1, <2>2, TypedRecords DEF ServerInit, TaskInv, IInv
<1>5. Clocked
  BY <1>3 DEF Clocked, ServerInit
<1>6. Owned
  <2>1. ~fsm.cancel_pending
    BY SMT DEF ServerInit, Init, InitState
  <2> QED
    BY <2>1 DEF Owned
<1> QED
  BY <1>1, <1>2, <1>4, <1>5, <1>6 DEF SInv

(* The invariant of the server holds together with that of the state       *)
(* machine: the cancel that the planner still has to serve is that of the  *)
(* active mission, whose clocks have not run out.                          *)
THEOREM ServerInductive == ServerSpec => []SInv
<1>1. SInv /\ [ServerNext]_vars => SInv'
  BY ServerStep
<1> QED
  BY ServerStart, <1>1, PTL DEF ServerSpec

(* The server's records are well typed: its clocks stop at their limits,   *)
(* and the set of answered ids stays within MAX_FINISHED_MISSION_IDS.      *)
THEOREM ServerTypes == ServerSpec => []ServerTypeOK
<1>1. SInv => ServerTypeOK
  BY DEF SInv
<1> QED
  BY <1>1, ServerInductive, PTL

(* The action server uses the state machine as every theorem about it      *)
(* assumes: it starts a route only when no cancel is pending               *)
(* (follow_route_server.cpp: handleGoal, handleCancel, monitorCallback).   *)
THEOREM ServerDrivesPlanner == ServerSpec => DrivesPlanner
<1>1. ServerInit => Init
  BY DEF ServerInit
<1>2. SInv /\ [ServerNext]_vars => [Next]_fsm
  BY ServerStep
<1> QED
  BY <1>1, <1>2, ServerInductive, PTL DEF ServerSpec, DrivesPlanner, Spec

-----------------------------------------------------------------------------
(* What the client is told.                                                *)

(* A step leaves the history of results alone, or ends a mission.          *)
LEMMA GoalKnown ==
  ASSUME SInv, NEW id \in Missions \ finished, NEW m,
         m = [NoActiveMission EXCEPT !.active = TRUE, !.id = id,
                                     !.hover = fsm.need_hover_stop],
         NEW s, Finish(m, s, "GOAL_REJECTED", "not accepted")
  PROVE  /\ ~mission'.active /\ completed' = completed
         /\ id \in finished' /\ result'.id = id /\ result'.reason = "GOAL_REJECTED"
         /\ result'.text = "not accepted"
<1>1. m \in MissionRecords /\ m.id = id
  BY NewMission, Zenon DEF SInv, TaskInv, IInv
<1>2. "GOAL_REJECTED" \in Reasons /\ m.id \in Missions
  BY <1>1 DEF Reasons
<1>3. ~mission'.active /\ m.id \in finished' /\ completed' = completed
  BY <1>1, <1>2, FinishCase DEF SInv
<1>4. result'.id = m.id /\ result'.reason = "GOAL_REJECTED" /\ result'.text = "not accepted"
  BY <1>1, <1>2, FinishCase DEF SInv
<1> QED
  BY <1>1, <1>3, <1>4

LEMMA VerdictKnown ==
  ASSUME SInv, MonitorCallback, NEW v, v = MonitorVerdict(Aged), v[1] # "NONE"
  PROVE  /\ ~mission'.active /\ completed' = completed /\ mission.id \in finished'
         /\ result'.id = mission.id /\ result'.reason = v[1] /\ result'.text = v[2]
         /\ result'.cancel_from = mission.cancel_from
         /\ Finish(Aged, Idle, v[1], v[2])
<1>1. /\ Aged \in MissionRecords /\ Aged.id = mission.id /\ mission.active
      /\ Aged.cancel_from = mission.cancel_from
  BY MonitorCase
<1>2. Finish(Aged, Idle, v[1], v[2])
  BY MonitorCase
<1>3. v[1] \in Reasons
  BY Verdict, Zenon
<1>4. ServerTypeOK /\ IsFiniteSet(finished) /\ Aged.id \in Missions
  BY <1>1 DEF SInv, Clocked
<1>5. ~mission'.active /\ Aged.id \in finished' /\ completed' = completed
  BY <1>1, <1>2, <1>3, <1>4, FinishCase
<1>6. /\ result'.id = Aged.id /\ result'.reason = v[1] /\ result'.text = v[2]
      /\ result'.cancel_from = Aged.cancel_from
  BY <1>1, <1>2, <1>3, <1>4, FinishCase
<1> QED
  BY <1>1, <1>2, <1>5, <1>6

(* No mission is answered a second time while it is remembered: the one    *)
(* being served has no answer yet, because a goal with an answered id is   *)
(* turned away before it starts and the monitor publishes the result and   *)
(* clears the mission in one callback; and every result that is sent is of *)
(* a mission without one (follow_route_server.cpp: handleGoal,             *)
(* monitorCallback, finish).                                               *)
THEOREM AnsweredOnce ==
  ServerSpec =>
    /\ [](mission.active => mission.id \notin finished)
    /\ [][result' # result => result'.id \notin finished]_vars
<1>1. SInv /\ [ServerNext]_vars => [result' # result => result'.id \notin finished]_vars
  <2> SUFFICES ASSUME SInv, ServerNext, result' # result
               PROVE  result'.id \notin finished
    OBVIOUS
  <2>1. CASE FsmStep
    BY <2>1 DEF FsmStep
  <2>2. CASE HandleGoal
    <3>1. PICK id \in Missions \ finished :
            \/ result' = result
            \/ Finish([NoActiveMission EXCEPT !.active = TRUE, !.id = id,
                                              !.hover = fsm.need_hover_stop],
                      fsm', "GOAL_REJECTED", "not accepted")
      BY <2>2, GoalCase, Zenon
    <3>2. result'.id = id
      BY <3>1, GoalKnown
    <3> QED
      BY <3>2
  <2>3. CASE HandleCancel
    BY <2>3, CancelCase
  <2>4. CASE MonitorCallback
    <3>1. MonitorVerdict(Aged)[1] # "NONE" /\ mission.active
      BY <2>4, MonitorCase
    <3>2. result'.id = mission.id
      BY <2>4, <3>1, VerdictKnown
    <3> QED
      BY <3>1, <3>2 DEF SInv, Clocked
  <2> QED
    BY <2>1, <2>2, <2>3, <2>4 DEF ServerNext
<1>2. SInv => (mission.active => mission.id \notin finished)
  BY DEF SInv, Clocked
<1> QED
  BY <1>1, <1>2, ServerInductive, PTL DEF ServerSpec

LEMMA EarnedStep ==
  ASSUME ActionDeployment, EInv, [ServerNext]_vars
  PROVE  Earned' /\ Hovering' /\ Begun'
<1>0. SInv /\ Earned /\ Hovering /\ Begun /\ TaskInv
  BY DEF EInv, SInv
<1>1. CASE FsmStep
  <2>1. Fate(fsm, fsm') /\ UNCHANGED << mission, finished, result >>
    BY <1>0, <1>1, CallbacksFate DEF FsmStep
  <2>2. /\ fsm'.pending_path = NoTask
        /\ fsm'.reference_path_active =>
             fsm.reference_path_active /\ fsm'.mission = fsm.mission
        /\ fsm'.reference_path_active /\ fsm'.exec_state \in Waiting =>
             fsm.exec_state \in Waiting
        /\ fsm.route_outcome # "NONE" => fsm'.route_outcome # "NONE"
        /\ fsm'.route_outcome = "SUCCEEDED" =>
             \/ fsm.route_outcome = "SUCCEEDED"
             \/ fsm.reference_path_active /\ ~fsm'.reference_path_active
        /\ /\ fsm'.reference_path_active /\ fsm'.need_hover_stop
           /\ fsm'.route_outcome = "NONE"
           => fsm.need_hover_stop
    BY <1>0, <2>1, Zenon DEF Fate, ActionDeployment, Earned
  <2>3. completed \subseteq completed'
    BY <1>1 DEF FsmStep
  <2>4. mission.active /\ fsm'.route_outcome = "SUCCEEDED" => mission.id \in completed'
    <3>1. SUFFICES ASSUME mission.active, fsm'.route_outcome = "SUCCEEDED"
                   PROVE  mission.id \in completed'
      OBVIOUS
    <3>2. CASE fsm.route_outcome = "SUCCEEDED"
      BY <1>0, <2>3, <3>1, <3>2 DEF Earned
    <3>3. CASE fsm.reference_path_active /\ ~fsm'.reference_path_active
      <4>1. fsm.mission = mission.id /\ mission.id # NoMission
        BY <1>0, <3>1, <3>3, ServerAssumption DEF Earned, SInv, Clocked
      <4>2. completed' = completed \cup ({fsm.mission} \ {NoMission})
        BY <1>1, <3>1, <3>3 DEF FsmStep
      <4> QED
        BY <4>1, <4>2
    <3> QED
      BY <2>2, <3>1, <3>2, <3>3
  <2>5. mission' = mission /\ result' = result
    BY <2>1
  <2>6. Earned'
    BY <1>0, <2>2, <2>3, <2>4, <2>5 DEF Earned
  <2>7. Hovering' /\ Begun'
    BY <1>0, <2>2, <2>5, Zenon DEF Hovering, Begun
  <2> QED
    BY <2>6, <2>7
<1>2. CASE HandleGoal
  <2> DEFINE New(id) == [NoActiveMission EXCEPT !.active = TRUE, !.id = id,
                                                !.hover = fsm.need_hover_stop]
  <2>1. PICK id \in Missions \ finished :
          \/ /\ mission' = New(id)
             /\ fsm'.reference_path_active /\ fsm'.mission = id
             /\ fsm'.route_outcome = "NONE"
             /\ fsm'.need_hover_stop = fsm.need_hover_stop
             /\ fsm'.pending_path = fsm.pending_path
             /\ UNCHANGED << finished, result, completed >>
          \/ /\ Finish(New(id), fsm', "GOAL_REJECTED", "not accepted")
             /\ fsm'.pending_path = fsm.pending_path
    BY <1>0, <1>2, GoalCase, Zenon
  <2> DEFINE m == New(id)
  <2>2. /\ m \in MissionRecords /\ m.active /\ m.id = id /\ ~m.cancel_requested
        /\ m.hover = fsm.need_hover_stop
    BY <1>0, NewMission, Zenon DEF SInv, TaskInv, IInv
  <2>3. \/ /\ mission' = m
           /\ fsm'.reference_path_active /\ fsm'.mission = id
           /\ fsm'.route_outcome = "NONE"
           /\ fsm'.need_hover_stop = fsm.need_hover_stop
           /\ fsm'.pending_path = fsm.pending_path
           /\ UNCHANGED << finished, result, completed >>
        \/ /\ Finish(m, fsm', "GOAL_REJECTED", "not accepted")
           /\ fsm'.pending_path = fsm.pending_path
    BY <2>1, Zenon
  <2>4. m = New(id)
    OBVIOUS
  <2> HIDE DEF m
  <2>5. CASE /\ mission' = m
             /\ fsm'.reference_path_active /\ fsm'.mission = id
             /\ fsm'.route_outcome = "NONE"
             /\ fsm'.need_hover_stop = fsm.need_hover_stop
             /\ fsm'.pending_path = fsm.pending_path
             /\ UNCHANGED << finished, result, completed >>
    <3>1. Earned'
      BY <1>0, <2>2, <2>5 DEF Earned
    <3>2. Hovering' /\ Begun'
      BY <2>2, <2>5, Zenon DEF Hovering, Begun
    <3> QED
      BY <3>1, <3>2
  <2>6. CASE /\ Finish(m, fsm', "GOAL_REJECTED", "not accepted")
             /\ fsm'.pending_path = fsm.pending_path
    <3>1. /\ ~mission'.active /\ completed' = completed
          /\ result'.reason = "GOAL_REJECTED"
      BY <1>0, <2>4, <2>6, GoalKnown
    <3> QED
      BY <1>0, <2>6, <3>1 DEF Earned, Hovering, Begun
  <2> QED
    BY <2>3, <2>5, <2>6
<1>3. CASE HandleCancel
  <2>1. /\ Kept(fsm, fsm') /\ mission'.id = mission.id /\ mission'.hover = mission.hover
        /\ mission.active /\ mission'.cancel_from = fsm.exec_state
        /\ result' = result /\ completed' = completed
    BY <1>0, <1>3, CancelCase
  <2>2. Earned' /\ Hovering' /\ Begun'
    BY <1>0, <2>1, Zenon DEF Earned, Hovering, Begun, Kept
  <2> QED
    BY <2>2
<1>4. CASE MonitorCallback
  <2> DEFINE v == MonitorVerdict(Aged)
  <2>1. /\ mission.active /\ Kept(fsm, fsm') /\ Aged.id = mission.id
        /\ Aged.cancel_requested = mission.cancel_requested
        /\ Aged.hover = mission.hover /\ Aged.cancel_from = mission.cancel_from
    BY <1>0, <1>4, MonitorCase
  <2>a. v = MonitorVerdict(Aged)
    OBVIOUS
  <2>b. v[1] = "OK" => fsm.route_outcome = "SUCCEEDED"
    BY DEF MonitorVerdict
  <2>2. CASE v[1] # "NONE"
    <3> HIDE DEF v
    <3>1. /\ ~mission'.active /\ completed' = completed
          /\ result'.id = mission.id /\ result'.reason = v[1]
      BY <1>0, <1>4, <2>a, <2>2, VerdictKnown
    <3>2. v[1] = "OK" => fsm.route_outcome = "SUCCEEDED"
      BY <2>b
    <3> QED
      BY <1>0, <2>1, <3>1, <3>2 DEF Earned, Hovering, Begun, Kept
  <2>3. CASE v[1] = "NONE"
    <3>1. mission' = Aged /\ UNCHANGED << finished, result, completed >>
      BY <1>0, <1>4, <2>3, MonitorCase
    <3>2. result' = result /\ completed' = completed
      BY <3>1
    <3> HIDE DEF v
    <3> QED
      BY <1>0, <2>1, <3>1, <3>2, Zenon DEF Earned, Hovering, Begun, Kept
  <2> QED
    BY <2>2, <2>3
<1>5. CASE UNCHANGED vars
  <2>1. fsm' = fsm /\ mission' = mission /\ result' = result /\ completed' = completed
    BY <1>5 DEF vars, server
  <2> QED
    BY <1>0, <2>1, Zenon DEF Earned, Hovering, Begun
<1> QED
  BY <1>1, <1>2, <1>3, <1>4, <1>5 DEF ServerNext

LEMMA EarnedStart == ServerInit => Earned /\ Hovering /\ Begun
<1> SUFFICES ASSUME ServerInit  PROVE Earned /\ Hovering /\ Begun
  OBVIOUS
<1>1. fsm.pending_path = NoTask
  BY SMT DEF ServerInit, Init, InitState
<1>2. ~mission.active /\ result.reason # "OK"
  BY DEF ServerInit, NoActiveMission, NoResult
<1> QED
  BY <1>1, <1>2, Zenon DEF Earned, Hovering, Begun

(* The route, the mission and the result agree over every interleaving of  *)
(* goals, cancels, verdicts and callbacks of the state machine.            *)
THEOREM MissionsInductive == ASSUME ActionDeployment  PROVE ServerSpec => []EInv
<1>1. EInv /\ SInv' /\ [ServerNext]_vars => EInv'
  BY EarnedStep DEF EInv
<1>2. SInv /\ ServerInit => EInv
  BY EarnedStart DEF EInv
<1> QED
  BY <1>1, <1>2, ServerStart, ServerInductive, PTL DEF ServerSpec

(* A goal is answered with success only if its own route was followed to   *)
(* its end: an outcome of an earlier route is reset before it can be       *)
(* polled (startFollowRoute, monitorCallback).                             *)
THEOREM SuccessEarned == ASSUME ActionDeployment  PROVE ServerSpec => []SuccessIsEarned
<1>1. EInv => SuccessIsEarned
  BY DEF EInv, Earned, SuccessIsEarned
<1> QED
  BY <1>1, MissionsInductive, PTL

(* A mission's route never ends without an outcome for the monitor, but in *)
(* the cases NoOrphanMission names (finishProcess, execFSMCallback,        *)
(* odometryCallback).                                                      *)
THEOREM NoMissionIsOrphaned == ASSUME ActionDeployment  PROVE ServerSpec => NoOrphanMission
<1> DEFINE Orphaned ==
      /\ mission.active /\ ~mission.hover /\ ~mission.cancel_requested
      /\ fsm.reference_path_active /\ ~fsm'.reference_path_active
      /\ fsm'.tf_ready /\ (fsm'.exec_state = "INIT" => ~fsm'.have_odom)
<1>1. EInv /\ [ServerNext]_vars => [Orphaned => fsm'.route_outcome # "NONE"]_vars
  <2> SUFFICES ASSUME EInv, ServerNext, Orphaned  PROVE fsm'.route_outcome # "NONE"
    OBVIOUS
  <2>0. SInv /\ Earned /\ Hovering /\ TaskInv /\ mission.active
    BY DEF EInv, SInv
  <2>1. CASE FsmStep
    <3>1. Fate(fsm, fsm')
      BY <2>0, <2>1, CallbacksFate DEF FsmStep
    <3>2. /\ fsm.route_outcome # "NONE" => fsm'.route_outcome # "NONE"
          /\ fsm.reference_path_active /\ ~fsm'.reference_path_active
             /\ ~fsm.cancel_pending =>
               Lost(fsm') \/ fsm.need_hover_stop \/ fsm'.route_outcome # "NONE"
      BY <2>0, <3>1, Zenon DEF Fate, ActionDeployment, Earned
    <3>3. ~fsm.cancel_pending
      BY <2>0 DEF SInv, Owned
    <3>4. fsm.need_hover_stop => fsm.route_outcome # "NONE"
      BY <2>0 DEF Hovering
    <3> QED
      BY <3>2, <3>3, <3>4, Zenon DEF Lost
  <2>2. CASE HandleGoal
    BY <2>0, <2>2, Zenon DEF HandleGoal
  <2>3. CASE HandleCancel \/ MonitorCallback
    <3>1. Kept(fsm, fsm')
      BY <2>0, <2>3, CancelCase, MonitorCase
    <3> QED
      BY <3>1, Zenon DEF Kept
  <2> QED
    BY <2>1, <2>2, <2>3 DEF ServerNext
<1> QED
  BY <1>1, MissionsInductive, PTL DEF ServerSpec, NoOrphanMission

(* An answer is never forgotten as long as no set of answers is emptied.   *)
LEMMA NeverForgotten ==
  ASSUME FewMissions, SInv, NEW id \in Missions \ finished, NEW m, m.id = id,
         NEW s, NEW reason, NEW text, Finish(m, s, reason, text)
  PROVE  finished \subseteq finished'
<1>1. finished \subseteq Missions
  BY DEF SInv, ServerTypeOK
<1>2. IsFiniteSet(finished) /\ IsFiniteSet(Missions)
  BY DEF SInv, FewMissions
<1>3. Cardinality(finished) < Cardinality(Missions)
  <2>1. finished \cup {id} \subseteq Missions
    BY <1>1
  <2>2. /\ IsFiniteSet(finished \cup {id})
        /\ Cardinality(finished \cup {id}) = Cardinality(finished) + 1
    BY <1>2, FS_AddElement
  <2>3. Cardinality(finished \cup {id}) <= Cardinality(Missions)
    BY <1>2, <2>1, FS_Subset
  <2>4. Cardinality(finished) \in Nat /\ Cardinality(Missions) \in Nat
    BY <1>2, FS_CardinalityType
  <2> QED
    BY <2>2, <2>3, <2>4
<1>4. ~(Cardinality(finished) >= MaxFinished)
  <2>1. /\ Cardinality(finished) \in Nat /\ Cardinality(Missions) \in Nat
        /\ MaxFinished \in Nat /\ Cardinality(Missions) <= MaxFinished
    BY <1>2, FS_CardinalityType, ServerAssumption DEF FewMissions
  <2> QED
    BY <1>3, <2>1
<1> QED
  BY <1>4 DEF Finish

LEMMA AnsweredStep ==
  ASSUME ActionDeployment, FewMissions, AInv, [ServerNext]_vars
  PROVE  Answered'
<1>0. SInv /\ Earned /\ Begun /\ Answered /\ TaskInv
  BY DEF AInv, EInv, SInv
<1>1. CASE FsmStep
  <2>1. Fate(fsm, fsm') /\ mission' = mission /\ finished' = finished /\ result' = result
    BY <1>0, <1>1, CallbacksFate DEF FsmStep
  <2>2. /\ fsm'.reference_path_active =>
             fsm.reference_path_active /\ fsm'.mission = fsm.mission
        /\ fsm.route_outcome # "NONE" => fsm'.route_outcome # "NONE"
    BY <1>0, <2>1, Zenon DEF Fate, ActionDeployment, Earned
  <2> QED
    BY <1>0, <2>1, <2>2, Zenon DEF Answered, Decided, Driving
<1>2. CASE HandleGoal
  <2> DEFINE New(id) == [NoActiveMission EXCEPT !.active = TRUE, !.id = id,
                                                !.hover = fsm.need_hover_stop]
  <2>1. PICK id \in Missions \ finished :
          \/ /\ mission' = New(id) /\ fsm'.mission = id
             /\ UNCHANGED << finished, result, completed >>
          \/ /\ Finish(New(id), fsm', "GOAL_REJECTED", "not accepted")
             /\ \/ ~fsm'.reference_path_active
                \/ /\ fsm'.mission = fsm.mission
                   /\ fsm'.reference_path_active = fsm.reference_path_active
    BY <1>0, <1>2, GoalCase, Zenon
  <2> DEFINE m == New(id)
  <2>2. m.active /\ m.id = id /\ m = New(id)
    BY <1>0, NewMission, Zenon DEF TaskInv, IInv
  <2>3. \/ /\ mission' = m /\ fsm'.mission = id
           /\ finished' = finished /\ result' = result
        \/ /\ Finish(m, fsm', "GOAL_REJECTED", "not accepted")
           /\ \/ ~fsm'.reference_path_active
              \/ /\ fsm'.mission = fsm.mission
                 /\ fsm'.reference_path_active = fsm.reference_path_active
    BY <2>1, Zenon
  <2>4. ~mission.active
    BY <1>2 DEF HandleGoal
  <2> HIDE DEF m
  <2>5. CASE /\ mission' = m /\ fsm'.mission = id
             /\ finished' = finished /\ result' = result
    <3>1. Decided /\ id = result.id => id \in finished
      BY <1>0 DEF Answered, Decided
    <3> QED
      BY <1>0, <2>2, <2>5, <3>1, Zenon DEF Answered, Decided, Driving
  <2>6. CASE /\ Finish(m, fsm', "GOAL_REJECTED", "not accepted")
             /\ \/ ~fsm'.reference_path_active
                \/ /\ fsm'.mission = fsm.mission
                   /\ fsm'.reference_path_active = fsm.reference_path_active
    <3>1. ~mission'.active /\ id \in finished' /\ result'.id = id
      BY <1>0, <2>2, <2>6, GoalKnown
    <3>2. finished \subseteq finished'
      BY <1>0, <2>2, <2>6, NeverForgotten
    <3>3. fsm'.reference_path_active => fsm'.mission \in finished
      BY <1>0, <2>4, <2>6, Zenon DEF Answered
    <3>4. ~(fsm'.reference_path_active /\ fsm'.mission = result'.id)
      BY <3>1, <3>3
    <3> QED
      BY <3>1, <3>2, <3>3, <3>4 DEF Answered, Driving
  <2> QED
    BY <2>3, <2>5, <2>6
<1>3. CASE HandleCancel
  <2>1. Kept(fsm, fsm') /\ mission'.active
    BY <1>0, <1>3, CancelCase
  <2>2. finished' = finished /\ result' = result
    BY <1>3 DEF HandleCancel
  <2> QED
    BY <1>0, <2>1, <2>2, Zenon DEF Answered, Decided, Driving, Kept
<1>4. CASE MonitorCallback
  <2> DEFINE v == MonitorVerdict(Aged)
  <2>1. /\ mission.active /\ Kept(fsm, fsm') /\ Aged.active
        /\ Aged.cancel_requested = mission.cancel_requested
    BY <1>0, <1>4, MonitorCase
  <2>2. v = MonitorVerdict(Aged)
    OBVIOUS
  <2>3. v[1] # "NONE" /\ v[2] \notin {"timed out", "stuck"} =>
          \/ fsm.route_outcome # "NONE"
          \/ ~fsm.have_odom
          \/ v[2] = "stopped" /\ Aged.cancel_requested /\ fsm.exec_state \in Waiting
    BY DEF MonitorVerdict, Waiting
  <2>4. v[1] = "NONE" => mission' = Aged /\ finished' = finished /\ result' = result
    BY <1>0, <1>4, MonitorCase
  <2> HIDE DEF v
  <2>5. CASE v[1] = "NONE"
    BY <1>0, <2>1, <2>4, <2>5, Zenon DEF Answered, Decided, Driving, Kept
  <2>6. CASE v[1] # "NONE"
    <3>1. /\ ~mission'.active /\ mission.id \in finished' /\ result'.id = mission.id
          /\ result'.text = v[2] /\ result'.cancel_from = mission.cancel_from
      BY <1>0, <1>4, <2>2, <2>6, VerdictKnown
    <3>2. fsm'.reference_path_active => fsm.reference_path_active /\ fsm'.mission = mission.id
      BY <1>0, <2>1, Zenon DEF Kept, Earned
    <3>3. Decided' /\ fsm'.reference_path_active => fsm'.route_outcome # "NONE"
      <4>1. SUFFICES ASSUME Decided', fsm'.reference_path_active, fsm.route_outcome = "NONE"
                     PROVE  FALSE
        BY <2>1 DEF Kept
      <4>2. fsm.have_odom
        BY <1>0, <3>2, <4>1 DEF TaskInv, Tasked, Posed
      <4>3. v[2] \notin {"timed out", "stuck"}
        BY <3>1, <4>1 DEF Decided
      <4>4. /\ v[2] = "stopped" /\ mission.cancel_requested
            /\ fsm.exec_state \in Waiting
        BY <2>1, <2>3, <2>6, <4>1, <4>2, <4>3
      <4>5. mission.cancel_from \notin Waiting
        BY <3>1, <4>1, <4>4, Zenon DEF Decided
      <4> QED
        BY <1>0, <2>1, <3>2, <4>1, <4>4, <4>5, Zenon DEF Begun
    <3> QED
      BY <3>1, <3>2, <3>3, Zenon DEF Answered, Driving
  <2> QED
    BY <2>5, <2>6
<1>5. CASE UNCHANGED vars
  BY <1>0, <1>5, Zenon DEF vars, server, Answered, Decided, Driving
<1> QED
  BY <1>1, <1>2, <1>3, <1>4, <1>5 DEF ServerNext

LEMMA AnsweredStart == ServerInit => Answered
<1>1. ASSUME ServerInit  PROVE ~fsm.reference_path_active /\ result.text = ""
  <2>1. ~fsm.reference_path_active
    BY <1>1, SMT DEF ServerInit, Init, InitState
  <2>2. result.text = ""
    BY <1>1 DEF ServerInit, NoResult
  <2> QED
    BY <2>1, <2>2
<1> QED
  BY <1>1, Zenon DEF Answered, Driving

(* A client that was told of a verdict may rely on it: the route of its    *)
(* mission is either no longer followed, or followed in EMERGENCY_STOP     *)
(* without the right to move (finish, finishProcess, cancelFollowRoute).   *)
THEOREM AnsweredIsNotDriven ==
  ASSUME ActionDeployment, FewMissions
  PROVE  ServerSpec => []DecidedMissionNotDriven
<1>1. EInv /\ Answered /\ [ServerNext]_vars => Answered'
  BY AnsweredStep DEF AInv
<1>2. EInv /\ Answered => DecidedMissionNotDriven
  <2> SUFFICES ASSUME EInv, Answered, Decided, Driving(result.id)
               PROVE  fsm.granted = NoTraj
    BY DEF DecidedMissionNotDriven, Decided, Waiting
  <2>1. fsm.route_outcome # "NONE" /\ fsm.reference_path_active
    BY DEF Answered, Driving
  <2>2. IInv /\ Ended(fsm)
    BY DEF EInv, SInv, TaskInv, Tasked
  <2>3. fsm.exec_state = "EMERGENCY_STOP"
    BY <2>1, <2>2 DEF Ended
  <2>4. fsm.granted = Authority(fsm)
    BY <2>2 DEF IInv, Good, Current
  <2> QED
    BY <2>3, <2>4, SMT DEF Authority, HeartbeatAllows, Moving
<1> QED
  BY <1>1, <1>2, AnsweredStart, MissionsInductive, PTL DEF ServerSpec
=============================================================================
