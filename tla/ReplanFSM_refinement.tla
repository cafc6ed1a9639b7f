------------------------ MODULE ReplanFSM_refinement ------------------------
(***************************************************************************)
(* The state machine implements MotionAuthority: every callback, whatever  *)
(* helpers it applies in turn, latches at most one new trajectory and      *)
(* grants nothing it has revoked.                                          *)
(*                                                                         *)
(* A callback may clear a trajectory and publish the next one (a replan    *)
(* tries twice), so two ids may be used up in one step; with only two ids  *)
(* the second would be the one still latched.  Hence ManyIds.              *)
(***************************************************************************)
EXTENDS ReplanFSM_proofs

ManyIds == MaxTrajId > 2

(* What becomes of the latched trajectory and of the grant between two     *)
(* states: kept, perhaps without the grant; cleared; or replaced.          *)
Keeps(s, t) ==
  /\ t.bspline = s.bspline /\ t.traj_id = s.traj_id
  /\ t.granted = s.granted \/ t.granted = NoTraj
Clears(s, t) == t.bspline = NoTraj /\ t.granted = NoTraj
Publishes(s, t) ==
  /\ t.bspline = t.traj_id /\ t.traj_id \in TrajIds /\ t.bspline # s.bspline
  /\ t.granted = t.bspline \/ t.granted = NoTraj

Loses(s, t)  == Keeps(s, t) \/ Clears(s, t)
Serves(s, t) == Loses(s, t) \/ Publishes(s, t)

(* The bspline topic never holds a trajectory other than local_data_, so a *)
(* new id is new to the topic too.                                         *)
Latch(s) == s.bspline = 0 \/ s.bspline = NoTraj \/ s.bspline = s.traj_id

LEMMA ServesKeepsLatch ==
  ASSUME NEW s, NEW t, Latch(s), Serves(s, t)
  PROVE  Latch(t)
BY Zenon DEF Latch, Serves, Loses, Keeps, Clears, Publishes

(* A loss after a loss, or after a new trajectory, stays what it is.       *)
LEMMA LosesTwice ==
  ASSUME NEW s, NEW t, NEW u, Loses(t, u)
  PROVE  /\ Loses(s, t) => Loses(s, u)
         /\ Publishes(s, t) => Serves(s, u)
         /\ Serves(s, t) => Serves(s, u)
BY Zenon DEF Serves, Loses, Keeps, Clears, Publishes

LEMMA ServesImplements ==
  ASSUME TypeOK, TypeOK', Serves(fsm, fsm')
  PROVE  [Abstract!Next]_<<IF fsm.bspline = 0 THEN NoTraj ELSE fsm.bspline, fsm.granted>>
<1>1. CASE Keeps(fsm, fsm')
  BY <1>1, Zenon DEF Keeps, Abstract!Next, Abstract!Revoke
<1>2. CASE Clears(fsm, fsm')
  <2>1. fsm'.bspline # 0
    BY <1>2 DEF Clears, NoTraj
  <2> QED
    BY <1>2, <2>1, Zenon DEF Clears, Abstract!Next, Abstract!Clear
<1>3. CASE Publishes(fsm, fsm')
  <2>1. fsm'.bspline # 0 /\ fsm'.bspline # NoTraj
    BY <1>3 DEF Publishes, NoTraj, TrajIds
  <2> QED
    BY <1>3, <2>1, Zenon DEF Publishes, Abstract!Next, Abstract!Publish
<1> QED
  BY <1>1, <1>2, <1>3, Zenon DEF Serves, Loses

-----------------------------------------------------------------------------
(* Helpers.                                                                *)
LEMMA SameKeeps ==
  ASSUME NEW s, NEW t, SameMotion(s, t)
  PROVE  Loses(s, t)
BY Zenon DEF SameMotion, Loses, Keeps

(* A state change gives no grant: only from a moving state may it enter    *)
(* a moving one.                                                           *)
LEMMA ChangeLoses ==
  ASSUME NEW s \in FsmStates, NEW new \in ExecStates, Current(s),
         new \in Moving => s.exec_state \in Moving
  PROVE  Loses(s, ChangeFSMExecState(s, new))
BY SMT DEF FsmStates, ChangeFSMExecState, PublishTrajectoryClear, PublishBspline,
   PublishPlannerHeartbeat, Current, Authority, HeartbeatAllows, NoTraj, Loses, Keeps, Clears

LEMMA TriggerLoses ==
  ASSUME NEW s \in FsmStates, Current(s)
  PROVE  Loses(s, TriggerPlanning(s))
<1>1. /\ "GEN_NEW_TRAJ" \in ExecStates /\ "GEN_NEW_TRAJ" \notin Moving
      /\ "REPLAN_TRAJ" \in ExecStates /\ "EXEC_TRAJ" \in Moving
  BY DEF ExecStates, Moving
<1>2. Loses(s, s)
  BY Zenon DEF Loses, Keeps
<1> QED
  BY <1>1, <1>2, ChangeLoses, Zenon DEF TriggerPlanning

LEMMA FinishLoses ==
  ASSUME NEW s \in FsmStates, Current(s)
  PROVE  Loses(s, FinishProcess(s))
<1> DEFINE outcome == IF s.reference_path_active /\ s.route_outcome = "NONE"
                      THEN "ABORTED" ELSE s.route_outcome
           u == [s EXCEPT !.replan_fail_count = 0, !.need_hover_stop = TRUE,
                          !.flag_escape_emergency = TRUE, !.route_outcome = outcome]
           v == AdvanceTaskRevision(u)
<1>1. FinishProcess(s) = s \/ FinishProcess(s) = ChangeFSMExecState(v, "EMERGENCY_STOP")
  BY Zenon DEF FinishProcess
<1>2. u \in FsmStates
  <2>1. outcome \in Outcomes /\ 0 \in Nat
    BY DEF FsmStates, Outcomes
  <2> HIDE DEF outcome
  <2> QED  BY <2>1, Zenon DEF FsmStates
<1>3. SameMotion(s, u)
  BY SMT DEF FsmStates, SameMotion
<1> HIDE DEF u
<1>4. v \in FsmStates /\ SameMotion(u, v)
  BY <1>2, AdvanceType, AdvanceEffect, Zenon
<1> HIDE DEF v
<1>5. SameMotion(s, v) /\ Current(v)
  BY <1>3, <1>4, SameCurrent, Zenon DEF SameMotion
<1>6. "EMERGENCY_STOP" \in ExecStates /\ "EMERGENCY_STOP" \notin Moving
  BY DEF ExecStates, Moving
<1>7. Loses(v, ChangeFSMExecState(v, "EMERGENCY_STOP"))
  BY <1>4, <1>5, <1>6, ChangeLoses, Zenon
<1>8. Loses(s, v) /\ Loses(s, s)
  BY <1>5, SameKeeps, Zenon DEF Loses, Keeps
<1> QED
  BY <1>1, <1>7, <1>8, LosesTwice, Zenon

(* A state change followed by the count of failures.                       *)
LEMMA ChangeFinishLoses ==
  ASSUME NEW s \in FsmStates, NEW new \in ExecStates, Current(s),
         new \in Moving => s.exec_state \in Moving
  PROVE  Loses(s, FinishProcess(ChangeFSMExecState(s, new)))
<1> DEFINE t == ChangeFSMExecState(s, new)
<1>1. t \in FsmStates /\ Current(t) /\ Loses(s, t)
  BY ChangeStateType, ChangeStateEffect, ChangeLoses, Zenon
<1> HIDE DEF t
<1>2. Loses(s, FinishProcess(t))
  BY <1>1, FinishLoses, LosesTwice, Zenon
<1> QED
  BY <1>2, Zenon DEF t

(* The clear that precedes every loss of the task.                         *)
LEMMA ClearedLoses ==
  ASSUME NEW s \in FsmStates
  PROVE  LET t == PublishTrajectoryClear(AdvanceTaskRevision(s)) IN
         t \in FsmStates /\ Loses(s, t)
<1>1. AdvanceTaskRevision(s) \in FsmStates
  BY AdvanceType
<1> QED
  BY <1>1, ClearType, ClearEffect, Zenon DEF Loses, Clears

LEMMA DropLoses ==
  ASSUME NEW s \in FsmStates
  PROVE  Loses(s, DropTask(s))
BY SMT DEF FsmStates, DropTask, DropRoute, Loses, Keeps

-----------------------------------------------------------------------------
(* Planning.                                                               *)
LEMMA NextTrajIdIsNew ==
  ASSUME NEW s \in FsmStates
  PROVE  /\ NextTrajId(s) \in TrajIds /\ NextTrajId(s) # s.traj_id
         /\ NextTrajId(s) # 0 /\ NextTrajId(s) # NoTraj
BY FsmAssumption DEF NextTrajId, TrajIds, NoTraj, FsmStates

LEMMA AnnouncedPublishes ==
  ASSUME NEW s \in FsmStates, s.bspline # NextTrajId(s)
  PROVE  Publishes(s, Announced(s))
<1>1. /\ Announced(s).traj_id = NextTrajId(s) /\ Announced(s).bspline = NextTrajId(s)
      /\ \/ Announced(s).granted = NextTrajId(s)
         \/ Announced(s).granted = NoTraj
  BY SMT DEF FsmStates, Announced, CommitLocalTrajectory, PublishBspline,
     PublishPlannerHeartbeat, Authority, HeartbeatAllows
<1> QED
  BY <1>1, NextTrajIdIsNew, Zenon DEF Publishes

(* A failure either leaves everything or has used up an id and cleared.    *)
LEMMA ReboundServes ==
  ASSUME NEW s \in FsmStates, s.bspline # NextTrajId(s), NEW r \in ReboundOutcomes(s)
  PROVE  /\ r.ok => Publishes(s, r.st)
         /\ ~r.ok => r.st = s \/ (Clears(s, r.st) /\ r.st.traj_id = NextTrajId(s))
<1> DEFINE c == CommitLocalTrajectory(s)
           t == PublishTrajectoryClear(c)
<1>1. c \in FsmStates /\ c.traj_id = NextTrajId(s)
  BY CommitType DEF CommitLocalTrajectory, FsmStates
<1> HIDE DEF c
<1>2. Clears(s, t) /\ t.traj_id = NextTrajId(s)
  BY <1>1, ClearEffect, Zenon DEF Clears
<1>3. \/ r.st = s /\ r.ok = FALSE
      \/ r.st = t /\ r.ok = FALSE
      \/ r.st = Announced(s) /\ r.ok = TRUE
  BY ReboundCases, Zenon DEF t, c
<1> HIDE DEF t
<1>4. Publishes(s, Announced(s))
  BY AnnouncedPublishes
<1>5. CASE r.st = t /\ r.ok = FALSE
  BY <1>2, <1>5, Zenon
<1> QED
  BY <1>3, <1>4, <1>5, Zenon

LEMMA FreshId ==
  ASSUME NEW s \in FsmStates, Latch(s)
  PROVE  s.bspline # NextTrajId(s)
BY NextTrajIdIsNew, Zenon DEF Latch

(* The second attempt of a replan may follow a clear: its id is the second *)
(* after the one latched when the callback began.                          *)
LEMMA SecondIdIsNew ==
  ASSUME ManyIds, NEW s \in FsmStates, Latch(s), NEW t \in FsmStates,
         t.traj_id = NextTrajId(s)
  PROVE  NextTrajId(t) # s.bspline /\ NextTrajId(t) \in TrajIds
<1> DEFINE n == s.traj_id
           m == t.traj_id
<1>1. n \in 0..MaxTrajId /\ m \in 0..MaxTrajId /\ MaxTrajId \in Nat /\ MaxTrajId > 2
  BY FsmAssumption DEF FsmStates, ManyIds
<1>2. m = IF n >= MaxTrajId THEN 1 ELSE n + 1
  BY DEF NextTrajId
<1>3. NextTrajId(t) = IF m >= MaxTrajId THEN 1 ELSE m + 1
  BY DEF NextTrajId
<1> HIDE DEF n, m
<1>4. NextTrajId(t) # n
  BY <1>1, <1>2, <1>3
<1>5. NextTrajId(t) # 0 /\ NextTrajId(t) # NoTraj /\ NextTrajId(t) \in TrajIds
  BY NextTrajIdIsNew
<1> QED
  BY <1>4, <1>5, Zenon DEF Latch, n

LEMMA ReplanServes ==
  ASSUME ManyIds, NEW s \in FsmStates, Latch(s), NEW r \in ReplanOutcomes(s)
  PROVE  (r.ok => Publishes(s, r.st)) /\ (~r.ok => Loses(s, r.st))
<1>1. s.bspline # NextTrajId(s) /\ Loses(s, s)
  BY FreshId, Zenon DEF Loses, Keeps
<1>2. CASE r.st = s /\ r.ok = FALSE
  BY <1>1, <1>2, Zenon
<1>3. CASE r \in ReboundOutcomes(s)
  BY <1>1, <1>3, ReboundServes, Zenon DEF Loses
<1>4. ASSUME NEW q \in ReboundOutcomes(s), q.ok = FALSE, r \in ReboundOutcomes(q.st)
      PROVE  (r.ok => Publishes(s, r.st)) /\ (~r.ok => Loses(s, r.st))
  <2>1. q.st \in FsmStates /\ (q.st = s \/ (Clears(s, q.st) /\ q.st.traj_id = NextTrajId(s)))
    BY <1>1, <1>4, ReboundType, ReboundServes, Zenon
  <2>2. CASE q.st = s
    BY <1>1, <1>4, <2>2, ReboundServes, Zenon DEF Loses
  <2>3. CASE Clears(s, q.st) /\ q.st.traj_id = NextTrajId(s)
    <3>1. NextTrajId(q.st) # s.bspline
      BY <2>1, <2>3, SecondIdIsNew, Zenon
    <3>2. q.st.bspline # NextTrajId(q.st)
      BY <2>1, <2>3, NextTrajIdIsNew, Zenon DEF Clears
    <3>3. /\ r.ok => r.st = Announced(q.st) /\ Publishes(q.st, r.st)
          /\ ~r.ok => r.st = q.st \/ Clears(q.st, r.st)
      BY <1>4, <2>1, <3>2, ReboundServes, ReboundCases, Zenon
    <3>4. Announced(q.st).bspline = NextTrajId(q.st)
      BY <2>1, SMT DEF FsmStates, Announced, CommitLocalTrajectory, PublishBspline,
         PublishPlannerHeartbeat
    <3> QED
      BY <2>3, <3>1, <3>3, <3>4, Zenon DEF Publishes, Loses, Clears
  <2> QED
    BY <2>1, <2>2, <2>3
<1> QED
  BY <1>2, <1>3, <1>4, ReplanCases, Zenon

(* Entering EXEC_TRAJ with a trajectory just published grants that one.    *)
LEMMA EnterPublishes ==
  ASSUME NEW s, NEW t \in FsmStates, Publishes(s, t)
  PROVE  Publishes(s, ChangeFSMExecState(t, "EXEC_TRAJ"))
<1> DEFINE u == ChangeFSMExecState(t, "EXEC_TRAJ")
<1>1. /\ u.bspline = t.bspline /\ u.traj_id = t.traj_id
      /\ u.granted = t.granted \/ u.granted = t.traj_id \/ u.granted = NoTraj
  BY SMT DEF FsmStates, ChangeFSMExecState, PublishPlannerHeartbeat, Authority, HeartbeatAllows
<1> HIDE DEF u
<1>2. Publishes(s, u)
  BY <1>1, Zenon DEF Publishes
<1> QED
  BY <1>2, Zenon DEF u

LEMMA PlannedServes ==
  ASSUME NEW s \in FsmStates, NEW r, r.st \in FsmStates,
         r.ok => Publishes(s, r.st), ~r.ok => Loses(s, r.st)
  PROVE  Serves(s, Planned(r))
<1>1. ASSUME NEW x \in FsmStates, NEW n \in Nat
      PROVE  /\ [x EXCEPT !.replan_fail_count = n] \in FsmStates
             /\ Loses(x, [x EXCEPT !.replan_fail_count = n])
             /\ Publishes(s, x) => Publishes(s, [x EXCEPT !.replan_fail_count = n])
  <2>1. [x EXCEPT !.replan_fail_count = n] \in FsmStates
    BY Zenon DEF FsmStates
  <2>2. SameMotion(x, [x EXCEPT !.replan_fail_count = n])
    BY SMT DEF FsmStates, SameMotion
  <2> QED
    BY <2>1, <2>2, SameKeeps, Zenon DEF Publishes, SameMotion
<1>2. r.st.replan_fail_count + 1 \in Nat /\ 0 \in Nat
  BY DEF FsmStates
<1>3. CASE r.ok
  BY <1>1, <1>2, <1>3, EnterPublishes, Zenon DEF Planned, Serves
<1>4. CASE ~r.ok
  <2>1. Loses(s, [r.st EXCEPT !.replan_fail_count = @ + 1])
    BY <1>1, <1>2, <1>4, LosesTwice, Zenon
  <2> QED
    BY <1>4, <2>1, Zenon DEF Planned, Serves
<1> QED
  BY <1>3, <1>4

LEMMA HoldPublishes ==
  ASSUME NEW s \in FsmStates, Latch(s)
  PROVE  Publishes(s, CallEmergencyStop(s))
<1> DEFINE t == CallEmergencyStop(s)
<1>1. /\ t.traj_id = NextTrajId(s) /\ t.bspline = NextTrajId(s)
      /\ t.granted = NextTrajId(s) \/ t.granted = NoTraj
  BY SMT DEF FsmStates, CallEmergencyStop, PublishBspline, PublishPlannerHeartbeat,
     Authority, HeartbeatAllows
<1> HIDE DEF t
<1>2. Publishes(s, t)
  BY <1>1, FreshId, NextTrajIdIsNew, Zenon DEF Publishes
<1> QED
  BY <1>2, Zenon DEF t

-----------------------------------------------------------------------------
(* Callbacks.                                                              *)
LEMMA IdleServes ==
  ASSUME IInv, Latch(fsm)
  PROVE  /\ Idle \in FsmStates /\ Good(Idle) /\ Current(Idle) /\ Latch(Idle)
         /\ Idle.exec_state = fsm.exec_state
         /\ \A t : Serves(Idle, t) => Serves(fsm, t)
<1>1. Idle \in FsmStates /\ Good(Idle) /\ SameMotion(fsm, Idle)
  BY IdleGood
<1>2. \A t : Serves(Idle, t) => Serves(fsm, t)
  BY <1>1, Zenon DEF SameMotion, Serves, Loses, Keeps, Clears, Publishes
<1> QED
  BY <1>1, <1>2, Zenon DEF Good, Latch, SameMotion

LEMMA RouteLoses ==
  ASSUME NEW s \in FsmStates, Good(s), NEW r \in Tasks, NEW m \in Missions \cup {NoMission},
         NEW o \in RouteOutcomes(s, r, m)
  PROVE  Loses(s, o.st)
<1>1. r \in Targets /\ NoMission \in Missions \cup {NoMission}
  BY DEF Targets
<1> DEFINE t == [s EXCEPT !.trigger = TRUE, !.reference_path_active = FALSE,
                          !.mission = m, !.task = r]
           Same(x, y) == y \in FsmStates /\ SameMotion(x, y)
<1>2. t \in FsmStates
  BY <1>1, Zenon DEF FsmStates
<1>3. SameMotion(s, t)
  BY SMT DEF FsmStates, SameMotion
<1>4. RouteTaken(s, r, m) = AdvanceTaskRevision(t)
  BY Zenon DEF RouteTaken
<1> HIDE DEF t
<1>5. Same(s, RouteTaken(s, r, m))
  BY <1>2, <1>3, <1>4, AdvanceType, AdvanceEffect, Zenon DEF SameMotion
<1>6. ASSUME NEW x \in FsmStates
      PROVE  /\ Same(x, [x EXCEPT !.end_pt = r, !.have_target = TRUE,
                           !.reference_path_active = TRUE, !.route_outcome = "NONE"])
             /\ Same(x, [x EXCEPT !.mission = NoMission])
             /\ Same(x, [x EXCEPT !.end_pt = r])
             /\ Same(x, [x EXCEPT !.have_target = FALSE])
  <2>1. /\ SameMotion(x, [x EXCEPT !.end_pt = r, !.have_target = TRUE,
                            !.reference_path_active = TRUE, !.route_outcome = "NONE"])
        /\ SameMotion(x, [x EXCEPT !.mission = NoMission])
        /\ SameMotion(x, [x EXCEPT !.end_pt = r])
        /\ SameMotion(x, [x EXCEPT !.have_target = FALSE])
    BY SMT DEF FsmStates, SameMotion
  <2> QED
    BY <1>1, <2>1, RouteUpdatesType, Zenon
<1>7. Same(s, RoutePlanned(s, r, m)) /\ Same(s, RouteRefused(s, r, m))
  BY <1>5, <1>6, Zenon DEF RoutePlanned, RouteRefused, SameMotion
<1>8. Loses(s, TriggerPlanning(RoutePlanned(s, r, m)))
  BY <1>7, SameCurrent, SameKeeps, TriggerLoses, LosesTwice, Zenon DEF Good
<1>9. /\ Same(s, [RouteRefused(s, r, m) EXCEPT !.have_target = FALSE])
      /\ Same(s, [RouteRefused(s, r, m) EXCEPT !.end_pt = r])
  BY <1>6, <1>7, Zenon DEF SameMotion
<1> QED
  BY <1>8, <1>9, RouteCases, SameKeeps, Zenon

LEMMA PresetLoses ==
  ASSUME NEW s \in FsmStates, Current(s), NEW t \in PresetOutcomes(s)
  PROVE  Loses(s, t)
<1> DEFINE u == [s EXCEPT !.mission = NoMission, !.active_waypoints = NumWaypoints,
                          !.current_wp = 0, !.trigger = TRUE, !.task = Preset]
           v == AdvanceTaskRevision(u)
<1>1. /\ Preset \in Targets /\ "GEN_NEW_TRAJ" \in ExecStates /\ "GEN_NEW_TRAJ" \notin Moving
      /\ 0 \in 0..NumWaypoints /\ NumWaypoints \in 0..NumWaypoints
  BY FsmAssumption DEF Targets, ExecStates, Moving
<1>2. u \in FsmStates
  BY <1>1, ZenonT(30) DEF FsmStates
<1>3. SameMotion(s, u)
  BY Zenon DEF FsmStates, SameMotion
<1>4. PICK r \in NextWaypointOutcomes(v) :
        t = IF r.ok THEN ChangeFSMExecState(r.st, "GEN_NEW_TRAJ") ELSE r.st
  BY Zenon DEF PresetOutcomes
<1> HIDE DEF u
<1>5. v \in FsmStates /\ SameMotion(s, v)
  BY <1>2, <1>3, AdvanceType, AdvanceEffect, Zenon DEF SameMotion
<1> HIDE DEF v
<1>6. r.st \in FsmStates /\ SameMotion(s, r.st)
  BY <1>5, NextWaypointType, GoodNextWaypoint, Zenon DEF SameMotion
<1>7. Loses(s, r.st) /\ Loses(r.st, ChangeFSMExecState(r.st, "GEN_NEW_TRAJ"))
  BY <1>1, <1>6, SameKeeps, SameCurrent, ChangeLoses, Zenon
<1> QED
  BY <1>4, <1>7, LosesTwice, Zenon

LEMMA PoseTakenLoses ==
  ASSUME IInv, NEW back \in BOOLEAN
  PROVE  Loses(Idle, PoseTaken(back))
<1> DEFINE c == PublishTrajectoryClear(AdvanceTaskRevision(Idle))
           s == IF back THEN DropTask(c) ELSE Idle
           ready == s.goal_height_ready \/ fsm.navi_mode = MANUAL_TARGET
           t == [s EXCEPT !.have_odom = TRUE, !.odom_timeout_active = FALSE,
                          !.goal_height_ready = ready]
<1>1. PoseTaken(back) = t
  BY Zenon DEF PoseTaken
<1>2. Idle \in FsmStates /\ c \in FsmStates /\ Loses(Idle, c)
  BY IdleGood, ClearedLoses
<1> HIDE DEF c
<1>3. s \in FsmStates /\ Loses(Idle, s)
  <2>1. Loses(Idle, Idle)
    BY Zenon DEF Loses, Keeps
  <2> QED
    BY <1>2, <2>1, DropTaskType, DropLoses, LosesTwice, Zenon
<1> HIDE DEF s, ready
<1>4. SameMotion(s, t)
  BY <1>3, SMT DEF FsmStates, SameMotion
<1> HIDE DEF t
<1> QED
  BY <1>1, <1>3, <1>4, SameKeeps, LosesTwice, Zenon

LEMMA SubscriptionsServe ==
  ASSUME IInv, Subscriptions
  PROVE  Loses(Idle, fsm')
<1>0. Idle \in FsmStates /\ Good(Idle) /\ Current(Idle)
  BY IdleGood DEF Good
<1>1. CASE WaypointCallback
  <2>1. PICK g \in Tasks :
          \/ fsm' = [Idle EXCEPT !.trigger = TRUE]
          \/ fsm' = [[Idle EXCEPT !.trigger = TRUE] EXCEPT !.end_pt = g]
          \/ fsm' = TriggerPlanning(AdvanceTaskRevision(
                [[[Idle EXCEPT !.trigger = TRUE] EXCEPT !.end_pt = g]
                   EXCEPT !.mission = NoMission, !.have_target = TRUE, !.task = g]))
    BY <1>1, Zenon DEF WaypointCallback
  <2>2. g \in Targets
    BY DEF Targets
  <2> DEFINE Same(x, y) == y \in FsmStates /\ SameMotion(x, y)
  <2>3. ASSUME NEW x \in FsmStates
        PROVE  /\ Same(x, [x EXCEPT !.trigger = TRUE])
               /\ Same(x, [x EXCEPT !.end_pt = g])
               /\ Same(x, [x EXCEPT !.mission = NoMission, !.have_target = TRUE, !.task = g])
    <3>1. /\ SameMotion(x, [x EXCEPT !.trigger = TRUE])
          /\ SameMotion(x, [x EXCEPT !.end_pt = g])
          /\ SameMotion(x, [x EXCEPT !.mission = NoMission, !.have_target = TRUE, !.task = g])
      BY SMT DEF FsmStates, SameMotion
    <3>2. [x EXCEPT !.trigger = TRUE] \in FsmStates
      BY Zenon DEF FsmStates
    <3>3. [x EXCEPT !.end_pt = g] \in FsmStates
      BY <2>2, Zenon DEF FsmStates
    <3>4. [x EXCEPT !.mission = NoMission, !.have_target = TRUE, !.task = g] \in FsmStates
      BY <2>2, Zenon DEF FsmStates
    <3> QED
      BY <3>1, <3>2, <3>3, <3>4
  <2>4. ASSUME NEW x \in FsmStates, SameMotion(Idle, x)
        PROVE  Loses(Idle, x) /\ Loses(Idle, TriggerPlanning(AdvanceTaskRevision(x)))
    <3>1. AdvanceTaskRevision(x) \in FsmStates /\ SameMotion(x, AdvanceTaskRevision(x))
      BY AdvanceType, AdvanceEffect
    <3>2. Current(AdvanceTaskRevision(x)) /\ Loses(Idle, AdvanceTaskRevision(x)) /\ Loses(Idle, x)
      BY <1>0, <2>4, <3>1, SameCurrent, SameKeeps, LosesTwice, Zenon
    <3> QED
      BY <3>1, <3>2, TriggerLoses, LosesTwice, Zenon
  <2>5. ASSUME NEW x, NEW y, NEW z, SameMotion(x, y), SameMotion(y, z)
        PROVE  SameMotion(x, z)
    BY <2>5, Zenon DEF SameMotion
  <2> DEFINE a == [Idle EXCEPT !.trigger = TRUE]
             b == [a EXCEPT !.end_pt = g]
             d == [b EXCEPT !.mission = NoMission, !.have_target = TRUE, !.task = g]
  <2>6. Same(Idle, a)
    BY <1>0, <2>3
  <2> HIDE DEF a
  <2>7. Same(Idle, b)
    BY <2>3, <2>5, <2>6, Zenon
  <2> HIDE DEF b
  <2>8. Same(Idle, d)
    BY <2>3, <2>5, <2>7, Zenon
  <2> HIDE DEF d
  <2> QED
    BY <2>1, <2>4, <2>6, <2>7, <2>8, Zenon DEF a, b, d
<1>2. CASE PathCallback
  <2>1. PICK r \in Tasks :
          \/ fsm' = [Idle EXCEPT !.pending_path = r]
          \/ \E o \in RouteOutcomes(Idle, r, NoMission) : fsm' = o.st
    BY <1>2, Zenon DEF PathCallback
  <2>2. SameMotion(Idle, [Idle EXCEPT !.pending_path = r])
    BY <1>0, SMT DEF FsmStates, SameMotion
  <2>3. NoMission \in Missions \cup {NoMission}
    OBVIOUS
  <2> QED
    BY <1>0, <2>1, <2>2, <2>3, SameKeeps, RouteLoses, Zenon
<1>3. CASE OdometryCallback
  <2>1. PICK back \in BOOLEAN :
          \/ \E o \in RouteOutcomes([PoseTaken(back) EXCEPT !.pending_path = NoTask],
                                   PoseTaken(back).pending_path, NoMission) :
               PoseTaken(back).pending_path # NoTask /\ fsm' = o.st
          \/ fsm' \in PresetOutcomes([PoseTaken(back) EXCEPT !.preset_started = TRUE])
          \/ fsm' = PoseTaken(back)
          \/ fsm' = [PoseTaken(back) EXCEPT !.pending_path = NoTask]
    <3>1. \A b \in {FALSE} \cup {b \in {ClockJumps} : b /\ fsm.have_odom} : b \in BOOLEAN
      BY FsmAssumption, Zenon
    <3> QED
      BY <1>3, <3>1, Zenon DEF OdometryCallback
  <2> DEFINE p == PoseTaken(back)
  <2>2. p \in FsmStates /\ Good(p) /\ Loses(Idle, p)
    BY <1>3, GoodPoseTaken, PoseTakenLoses, Zenon DEF OdometryCallback
  <2> HIDE DEF p
  <2> DEFINE y == [p EXCEPT !.pending_path = NoTask]
             z == [p EXCEPT !.preset_started = TRUE]
  <2>3. y \in FsmStates /\ z \in FsmStates /\ p.pending_path \in Tasks \cup {NoTask}
    <3>1. y \in FsmStates
      BY <2>2, Zenon DEF FsmStates
    <3>2. z \in FsmStates
      BY <2>2, Zenon DEF FsmStates
    <3>3. p.pending_path \in Tasks \cup {NoTask}
      BY <2>2, Zenon DEF FsmStates
    <3> QED
      BY <3>1, <3>2, <3>3
  <2>4. /\ SameMotion(p, y) /\ SameGuards(p, y) /\ SameCounts(p, y)
        /\ SameMotion(p, z) /\ SameGuards(p, z) /\ SameCounts(p, z)
    BY <2>2, SMT DEF FsmStates, SameMotion, SameGuards, SameCounts
  <2> HIDE DEF y, z
  <2>5. Good(y) /\ Current(z) /\ Loses(Idle, y) /\ Loses(Idle, z)
    BY <2>2, <2>4, GoodSame, SameKeeps, LosesTwice, Zenon DEF Good
  <2>6. CASE \E o \in RouteOutcomes(y, p.pending_path, NoMission) :
               p.pending_path # NoTask /\ fsm' = o.st
    <3>1. PICK o \in RouteOutcomes(y, p.pending_path, NoMission) :
            p.pending_path # NoTask /\ fsm' = o.st
      BY <2>6, Zenon
    <3>2. p.pending_path \in Tasks /\ NoMission \in Missions \cup {NoMission}
      BY <2>3, <3>1, Zenon
    <3>3. Loses(y, o.st)
      BY <2>3, <2>5, <3>2, RouteLoses, Zenon
    <3> QED
      BY <2>5, <3>1, <3>3, LosesTwice, Zenon
  <2>7. CASE fsm' \in PresetOutcomes(z)
    BY <2>3, <2>5, <2>7, PresetLoses, LosesTwice, Zenon
  <2>8. CASE fsm' = p \/ fsm' = y
    BY <2>2, <2>5, <2>8, Zenon
  <2> QED
    BY <2>1, <2>6, <2>7, <2>8, Zenon DEF p, y, z
<1>4. CASE TfReadyCallback
  <2> DEFINE s == IF fsm.tf_ready \/ fsm.have_odom
                  THEN PublishTrajectoryClear(AdvanceTaskRevision(Idle)) ELSE Idle
             d == DropTask(s)
  <2>1. \/ fsm' = [Idle EXCEPT !.tf_ready = TRUE]
        \/ fsm' = [d EXCEPT !.tf_ready = FALSE, !.have_odom = FALSE]
    BY <1>4, Zenon DEF TfReadyCallback
  <2>2. ASSUME NEW x \in FsmStates
        PROVE  /\ SameMotion(x, [x EXCEPT !.tf_ready = TRUE])
               /\ SameMotion(x, [x EXCEPT !.tf_ready = FALSE, !.have_odom = FALSE])
    BY SMT DEF FsmStates, SameMotion
  <2>3. s \in FsmStates /\ Loses(Idle, s)
    <3>1. Loses(Idle, Idle)
      BY Zenon DEF Loses, Keeps
    <3> QED
      BY <1>0, <3>1, ClearedLoses, Zenon
  <2> HIDE DEF s
  <2>4. d \in FsmStates /\ Loses(Idle, d)
    BY <2>3, DropTaskType, DropLoses, LosesTwice, Zenon
  <2> HIDE DEF d
  <2> QED
    BY <1>0, <2>1, <2>2, <2>4, SameKeeps, LosesTwice, Zenon
<1> QED
  BY <1>1, <1>2, <1>3, <1>4 DEF Subscriptions

LEMMA ServerCallsServe ==
  ASSUME IInv, ServerCalls
  PROVE  Loses(Idle, fsm')
<1>0. Idle \in FsmStates /\ Good(Idle) /\ Loses(Idle, Idle)
  BY IdleGood, Zenon DEF Loses, Keeps
<1>1. ASSUME NEW s \in FsmStates, NEW b \in BOOLEAN
      PROVE  Loses(s, [s EXCEPT !.cancel_pending = b])
  <2>1. SameMotion(s, [s EXCEPT !.cancel_pending = b])
    BY SMT DEF FsmStates, SameMotion
  <2> QED
    BY <2>1, SameKeeps
<1>2. CASE StartCall
  BY <1>0, <1>2, RouteLoses, Zenon DEF StartCall
<1>3. CASE CancelCall
  <2>1. AdvanceTaskRevision(Idle) \in FsmStates /\ Loses(Idle, AdvanceTaskRevision(Idle))
    BY <1>0, AdvanceType, AdvanceEffect, SameKeeps, Zenon
  <2>2. Loses(Idle, [AdvanceTaskRevision(Idle) EXCEPT !.cancel_pending = TRUE])
    BY <1>1, <2>1, LosesTwice, Zenon
  <2> QED
    BY <1>0, <1>3, <2>2, Zenon DEF CancelCall, CancelFollowRoute
<1>4. CASE ResetCall
  BY <1>0, <1>1, <1>4, Zenon DEF ResetCall, ResetFollowRouteCancel
<1> QED
  BY <1>2, <1>3, <1>4, Zenon DEF ServerCalls

LEMMA TimersServe ==
  ASSUME ManyIds, IInv, Latch(fsm), ExecFSMCallback \/ CheckCollisionCallback \/ HeartbeatTimer
  PROVE  Serves(Idle, fsm')
<1>0. /\ Idle \in FsmStates /\ Current(Idle) /\ Latch(Idle)
      /\ Idle.exec_state = fsm.exec_state /\ Loses(Idle, Idle)
  BY IdleServes, Zenon DEF Loses, Keeps
<1>a. /\ {"WAIT_TARGET", "GEN_NEW_TRAJ", "REPLAN_TRAJ", "EMERGENCY_STOP"} \subseteq ExecStates
      /\ {"WAIT_TARGET", "GEN_NEW_TRAJ", "EMERGENCY_STOP"} \cap Moving = {}
      /\ {"EXEC_TRAJ", "REPLAN_TRAJ"} = Moving
  BY DEF ExecStates, Moving
(* The state machine leaves a state that is motionwise the idle one.       *)
<1>b. ASSUME NEW s \in FsmStates, SameMotion(Idle, s), NEW new \in ExecStates,
             new \in Moving => Idle.exec_state \in Moving
      PROVE  /\ Serves(Idle, ChangeFSMExecState(s, new))
             /\ Serves(Idle, FinishProcess(ChangeFSMExecState(s, new)))
  <2>1. Current(s) /\ Loses(Idle, s) /\ s.exec_state = Idle.exec_state
    BY <1>0, <1>b, SameCurrent, SameKeeps, Zenon DEF SameMotion
  <2> QED
    BY <1>b, <2>1, ChangeLoses, ChangeFinishLoses, LosesTwice, Zenon DEF Serves
<1>c. SameMotion(Idle, Idle)
  BY DEF SameMotion
<1>1. CASE ExecOdomTimeout
  <2> DEFINE s == IF fsm.odom_timeout_active THEN Idle
                  ELSE PublishTrajectoryClear(AdvanceTaskRevision(Idle))
             outcome == IF s.reference_path_active /\ s.route_outcome = "NONE"
                        THEN "LOCALIZATION_LOST" ELSE s.route_outcome
             t == [s EXCEPT !.odom_timeout_active = TRUE, !.have_odom = FALSE,
                            !.route_outcome = outcome]
  <2>1. fsm' = DropTask(t)
    BY <1>1, Zenon DEF ExecOdomTimeout
  <2>2. s \in FsmStates /\ Loses(Idle, s)
    BY <1>0, ClearedLoses, Zenon
  <2>3. outcome \in Outcomes
    <3> HIDE DEF s
    <3> QED  BY <2>2 DEF FsmStates, Outcomes
  <2> HIDE DEF s, outcome
  <2>4. t \in FsmStates
    BY <2>2, <2>3, Zenon DEF FsmStates
  <2>5. SameMotion(s, t)
    BY <2>2, SMT DEF FsmStates, SameMotion
  <2> HIDE DEF t
  <2> QED
    BY <2>1, <2>2, <2>4, <2>5, SameKeeps, DropLoses, LosesTwice, Zenon DEF Serves
<1>2. CASE ExecInit \/ ExecWaitTarget \/ ExecEmergencyRecover \/ ExecRouteContinue
  BY <1>0, <1>2, <1>a, <1>b, <1>c
     DEF ExecInit, ExecWaitTarget, ExecEmergencyRecover, ExecRouteContinue
<1>3. CASE ExecReplanDue \/ SafetyStop
  <2>1. ExecReplanDue => Idle.exec_state \in Moving
    BY <1>0, <1>a, Zenon DEF ExecReplanDue, Following, ExecIn
  <2> QED
    BY <1>0, <1>3, <1>a, <1>b, <1>c, <2>1 DEF ExecReplanDue, SafetyStop
<1>4. CASE ExecGenNewTraj
  <2>1. PICK r \in ReboundOutcomes(Idle) :
          fsm' = FinishProcess([Planned(r) EXCEPT !.flag_escape_emergency = @ \/ r.ok])
    BY <1>4, Zenon DEF ExecGenNewTraj
  <2> DEFINE p == Planned(r)
             q == [p EXCEPT !.flag_escape_emergency = @ \/ r.ok]
  <2>2. p \in FsmStates /\ Current(p)
    BY <1>0, PlannedEffect, Zenon
  <2>3. /\ r.st \in FsmStates
        /\ r.ok => Publishes(Idle, r.st)
        /\ ~r.ok => Loses(Idle, r.st)
    BY <1>0, FreshId, ReboundType, ReboundServes, Zenon DEF Loses
  <2>4. Serves(Idle, p)
    BY <1>0, <2>3, PlannedServes, Zenon
  <2> HIDE DEF p
  <2>5. q \in FsmStates /\ SameMotion(p, q)
    <3>1. ASSUME NEW x \in FsmStates, NEW b \in BOOLEAN
          PROVE  [x EXCEPT !.flag_escape_emergency = b] \in FsmStates
      BY Zenon DEF FsmStates
    <3>2. ASSUME NEW x \in FsmStates, NEW b \in BOOLEAN
          PROVE  SameMotion(x, [x EXCEPT !.flag_escape_emergency = b])
      BY SMT DEF FsmStates, SameMotion
    <3>3. (p.flag_escape_emergency \/ r.ok) \in BOOLEAN
      BY Zenon
    <3> QED
      BY <2>2, <3>1, <3>2, <3>3, Zenon
  <2> HIDE DEF q
  <2>6. Current(q) /\ Serves(Idle, q)
    BY <2>2, <2>4, <2>5, SameCurrent, SameKeeps, LosesTwice, Zenon
  <2>7. Serves(Idle, FinishProcess(q))
    BY <2>5, <2>6, FinishLoses, LosesTwice, Zenon
  <2> QED
    BY <2>1, <2>7, Zenon DEF p, q
<1>5. CASE ExecReplanTraj
  <2>1. PICK r \in ReplanOutcomes(Idle) : fsm' = FinishProcess(Planned(r))
    BY <1>5, Zenon DEF ExecReplanTraj
  <2>2. Planned(r) \in FsmStates /\ Current(Planned(r))
    BY <1>0, PlannedEffect, Zenon
  <2>3. Serves(Idle, Planned(r))
    BY <1>0, ReplanType, ReplanServes, PlannedServes, Zenon
  <2> QED
    BY <2>1, <2>2, <2>3, FinishLoses, LosesTwice, Zenon
<1>6. CASE SafetyReplan
  <2>1. PICK r \in ReplanOutcomes(Idle) :
          fsm' = ChangeFSMExecState(r.st, IF r.ok THEN "EXEC_TRAJ" ELSE "REPLAN_TRAJ")
    BY <1>6, Zenon DEF SafetyReplan
  <2>2. /\ r.st \in FsmStates /\ Current(r.st) /\ r.st.exec_state \in Moving
        /\ r.ok => Publishes(Idle, r.st)
        /\ ~r.ok => Loses(Idle, r.st)
    BY <1>0, <1>6, ReplanType, ReplanEffect, ReplanServes, Zenon DEF SafetyReplan, SafetyChecks
  <2>3. CASE r.ok
    BY <2>1, <2>2, <2>3, EnterPublishes, Zenon DEF Serves
  <2>4. CASE ~r.ok
    <3>1. Loses(r.st, ChangeFSMExecState(r.st, "REPLAN_TRAJ"))
      BY <1>a, <2>2, ChangeLoses
    <3> QED
      BY <2>1, <2>2, <2>4, <3>1, LosesTwice, Zenon DEF Serves
  <2> QED
    BY <2>3, <2>4
<1>7. CASE ExecCancel \/ ExecEmergencyExit
  <2> DEFINE s == [Idle EXCEPT !.cancel_pending = FALSE, !.end_pt = Here, !.have_target = TRUE,
                               !.reference_path_active = FALSE, !.trigger = TRUE]
             e == [Idle EXCEPT !.need_hover_stop = FALSE, !.have_target = FALSE,
                               !.trigger = FALSE, !.reference_path_active = FALSE]
  <2>1. \/ fsm' = ChangeFSMExecState(s, "REPLAN_TRAJ") /\ Idle.exec_state = "EXEC_TRAJ"
        \/ fsm' = FinishProcess(ChangeFSMExecState(e, "WAIT_TARGET"))
    BY <1>0, <1>7, Zenon DEF ExecCancel, ExecEmergencyExit, ExecIn
  <2>2. s \in FsmStates
    <3>1. Here \in Targets
      BY DEF Targets
    <3> QED
      BY <1>0, <3>1, ZenonT(30) DEF FsmStates
  <2>3. e \in FsmStates
    BY <1>0, ZenonT(30) DEF FsmStates
  <2>4. SameMotion(Idle, s) /\ SameMotion(Idle, e)
    BY <1>0, SMT DEF FsmStates, SameMotion
  <2> HIDE DEF s, e
  <2> QED
    BY <1>a, <1>b, <2>1, <2>2, <2>3, <2>4
<1>8. CASE ExecNextWaypoint
  <2> DEFINE s == [Idle EXCEPT !.current_wp = @ + 1]
  <2>1. PICK r \in NextWaypointOutcomes(s) :
          fsm' = ChangeFSMExecState(
                   IF r.ok THEN r.st ELSE [r.st EXCEPT !.replan_fail_count = @ + 1],
                   "GEN_NEW_TRAJ")
    BY <1>8, Zenon DEF ExecNextWaypoint
  <2>2. s \in FsmStates /\ SameMotion(Idle, s)
    <3>1. ASSUME NEW x \in FsmStates, NEW w \in 0..NumWaypoints
          PROVE  [x EXCEPT !.current_wp = w] \in FsmStates
      BY Zenon DEF FsmStates
    <3>2. ASSUME NEW x \in FsmStates, NEW w
          PROVE  SameMotion(x, [x EXCEPT !.current_wp = w])
      BY SMT DEF FsmStates, SameMotion
    <3>3. Idle.current_wp + 1 \in 0..NumWaypoints
      BY <1>8, FsmAssumption
         DEF ExecNextWaypoint, MoreWaypoints, Idle, IInv, TypeOK, FsmStates
    <3> QED
      BY <1>0, <3>1, <3>2, <3>3, Zenon
  <2> HIDE DEF s
  <2>3. r.st \in FsmStates /\ SameMotion(Idle, r.st)
    BY <2>2, NextWaypointType, GoodNextWaypoint, Zenon DEF SameMotion
  <2> DEFINE x == r.st
             v == [x EXCEPT !.replan_fail_count = @ + 1]
  <2>4. v \in FsmStates /\ SameMotion(x, v)
    <3>1. ASSUME NEW z \in FsmStates, NEW n \in Nat
          PROVE  [z EXCEPT !.replan_fail_count = n] \in FsmStates
      BY Zenon DEF FsmStates
    <3>2. ASSUME NEW z \in FsmStates, NEW n \in Nat
          PROVE  SameMotion(z, [z EXCEPT !.replan_fail_count = n])
      BY SMT DEF FsmStates, SameMotion
    <3>3. x.replan_fail_count + 1 \in Nat
      BY <2>3 DEF FsmStates
    <3> QED
      BY <2>3, <3>1, <3>2, <3>3, Zenon
  <2> HIDE DEF v
  <2>5. SameMotion(Idle, v)
    BY <2>3, <2>4, Zenon DEF SameMotion
  <2>6. /\ Serves(Idle, ChangeFSMExecState(v, "GEN_NEW_TRAJ"))
        /\ Serves(Idle, ChangeFSMExecState(r.st, "GEN_NEW_TRAJ"))
    BY <1>a, <1>b, <2>3, <2>4, <2>5
  <2> QED
    BY <2>1, <2>6, Zenon DEF v, x
<1>9. CASE ExecRouteDone \/ ExecTaskDone
  <2> DEFINE a == IF fsm.navi_mode = PRESET_TARGET THEN 0 ELSE Idle.active_waypoints
             w == IF fsm.navi_mode = PRESET_TARGET THEN 0 ELSE Idle.current_wp
             d == [Idle EXCEPT !.reference_path_active = FALSE, !.have_target = FALSE,
                               !.route_outcome = "SUCCEEDED", !.mission = NoMission]
             e == [Idle EXCEPT !.active_waypoints = a, !.current_wp = w,
                               !.have_target = FALSE, !.mission = NoMission]
  <2>1. \/ fsm' = ChangeFSMExecState(AdvanceTaskRevision(d), "WAIT_TARGET")
        \/ fsm' = ChangeFSMExecState(AdvanceTaskRevision(e), "WAIT_TARGET")
    BY <1>9, Zenon DEF ExecRouteDone, ExecTaskDone
  <2>2. a \in 0..NumWaypoints /\ w \in 0..NumWaypoints
    BY <1>0, FsmAssumption DEF FsmStates
  <2> HIDE DEF a, w
  <2>3. d \in FsmStates
    BY <1>0, ZenonT(30) DEF FsmStates, Outcomes
  <2>4. e \in FsmStates
    BY <1>0, <2>2, ZenonT(30) DEF FsmStates
  <2>5. SameMotion(Idle, d) /\ SameMotion(Idle, e)
    BY <1>0, SMT DEF FsmStates, SameMotion
  <2> HIDE DEF d, e
  <2>6. ASSUME NEW x \in FsmStates, SameMotion(Idle, x)
        PROVE  Serves(Idle, ChangeFSMExecState(AdvanceTaskRevision(x), "WAIT_TARGET"))
    <3>1. AdvanceTaskRevision(x) \in FsmStates /\ SameMotion(Idle, AdvanceTaskRevision(x))
      BY <2>6, AdvanceType, AdvanceEffect, Zenon DEF SameMotion
    <3> QED
      BY <1>a, <1>b, <3>1
  <2> QED
    BY <2>1, <2>3, <2>4, <2>5, <2>6, Zenon
<1>10. CASE ExecEmergencyHold
  <2> DEFINE h == CallEmergencyStop(Idle)
             q == [h EXCEPT !.flag_escape_emergency = FALSE]
  <2>1. fsm' = FinishProcess(q)
    BY <1>10, Zenon DEF ExecEmergencyHold
  <2>2. h \in FsmStates /\ Current(h) /\ Serves(Idle, h)
    BY <1>0, HoldType, HoldEffect, HoldPublishes, Zenon DEF Serves
  <2> HIDE DEF h
  <2>3. q \in FsmStates
    BY <2>2, Zenon DEF FsmStates
  <2>4. SameMotion(h, q)
    BY <2>2, SMT DEF FsmStates, SameMotion
  <2> HIDE DEF q
  <2> QED
    BY <2>1, <2>2, <2>3, <2>4, SameCurrent, SameKeeps, FinishLoses, LosesTwice, Zenon
<1>11. CASE HeartbeatTimer
  <2> DEFINE t == PublishPlannerHeartbeat(Idle)
  <2>1. t.bspline = Idle.bspline /\ t.traj_id = Idle.traj_id /\ t.granted = Authority(Idle)
    BY <1>0, SMT DEF FsmStates, PublishPlannerHeartbeat
  <2> HIDE DEF t
  <2>2. Loses(Idle, t)
    BY <1>0, <2>1, Zenon DEF Current, Loses, Keeps
  <2> QED
    BY <1>11, <2>2, Zenon DEF HeartbeatTimer, Serves, t
<1> QED
  BY <1>1, <1>2, <1>3, <1>4, <1>5, <1>6, <1>7, <1>8, <1>9, <1>10, <1>11,
     Zenon DEF ExecFSMCallback, CheckCollisionCallback

LEMMA StepServes ==
  ASSUME ManyIds, IInv, Latch(fsm), Next
  PROVE  Serves(fsm, fsm')
<1>1. Serves(Idle, fsm')
  BY TimersServe, SubscriptionsServe, ServerCallsServe, Zenon DEF Next, Callbacks, Serves
<1> QED
  BY <1>1, IdleServes, Zenon

(* What the controller relies on: the planner, for any tasks, missions and *)
(* bounds, in any mode, and with the action server's calls, latches one    *)
(* trajectory at a time and never gives a grant again once it is revoked.  *)
THEOREM ImplementsAuthority ==
  ASSUME ManyIds  PROVE  Spec => ServesAsAuthority
<1> DEFINE latched == IF fsm.bspline = 0 THEN NoTraj ELSE fsm.bspline
<1>1. Init => Abstract!Init /\ Latch(fsm)
  BY DEF Init, InitState, Abstract!Init, Latch
<1>2. IInv /\ IInv' /\ Latch(fsm) /\ [Next]_fsm =>
        [Abstract!Next]_<<latched, fsm.granted>> /\ Latch(fsm)'
  <2> SUFFICES ASSUME IInv, IInv', Latch(fsm), [Next]_fsm
               PROVE  [Abstract!Next]_<<latched, fsm.granted>> /\ Latch(fsm)'
    OBVIOUS
  <2>1. Serves(fsm, fsm')
    <3>1. CASE Next
      BY <3>1, StepServes
    <3>2. CASE UNCHANGED fsm
      BY <3>2, Zenon DEF Serves, Loses, Keeps
    <3> QED
      BY <3>1, <3>2
  <2>2. Latch(fsm')
    BY <2>1, ServesKeepsLatch
  <2> QED
    BY <2>1, <2>2, ServesImplements, Zenon DEF IInv, Latch
<1> QED
  BY <1>1, <1>2, Inductive, PTL DEF Spec, ServesAsAuthority, Abstract!Spec
=============================================================================
