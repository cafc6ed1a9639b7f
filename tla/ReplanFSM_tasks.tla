--------------------------- MODULE ReplanFSM_tasks ---------------------------
(***************************************************************************)
(* What a callback does to the task, the route and the messages: an active *)
(* route is the task pursued until it ends, a trajectory under execution   *)
(* keeps its progress, a grant follows its trajectory in the messages of   *)
(* one callback, and whatever takes the task over advances the revision.   *)
(***************************************************************************)
EXTENDS ReplanFSM_proofs

-----------------------------------------------------------------------------
(* The inductive invariant, besides IInv of ReplanFSM_proofs.              *)

(* Progress is measured along the trajectory last published, if at all.    *)
Linked(s) ==
  s.progress_id = NoTraj \/ (s.progress_id = s.traj_id /\ s.bspline = s.traj_id)

Executed(s) == s.exec_state = "EXEC_TRAJ" => s.progress_id = s.traj_id

(* Only in mode 3 is there a route, so no goal and no waypoint can move    *)
(* the target under it.                                                    *)
Routed(s) ==
  s.reference_path_active =>
    /\ s.navi_mode = REFERENCE_PATH
    /\ s.have_target /\ s.trigger /\ s.end_pt = s.task

Ended(s) ==
  s.reference_path_active /\ s.route_outcome # "NONE" =>
    /\ s.route_outcome = "ABORTED"
    /\ s.exec_state = "EMERGENCY_STOP" /\ s.need_hover_stop

(* A task begins with a pose and is dropped with it; once there is a pose, *)
(* no route waits for one and the waypoints of mode 2 have begun.          *)
Posed(s) ==
  /\ s.reference_path_active => s.have_odom
  /\ s.pending_path # NoTask => s.navi_mode = REFERENCE_PATH /\ ~s.have_odom
  /\ s.navi_mode = PRESET_TARGET /\ (s.have_odom \/ s.preset_started) => s.task = Preset

Tasked(s) == Linked(s) /\ Executed(s) /\ Routed(s) /\ Ended(s) /\ Posed(s)
TaskInv   == IInv /\ Tasked(fsm)
-----------------------------------------------------------------------------
(* What the helpers leave alone: none but those that say so touches the    *)
(* task.                                                                   *)
SameTask(s, t) ==
  /\ t.navi_mode = s.navi_mode /\ t.trigger = s.trigger /\ t.have_target = s.have_target
  /\ t.preset_started = s.preset_started /\ t.pending_path = s.pending_path
  /\ t.need_hover_stop = s.need_hover_stop /\ t.cancel_pending = s.cancel_pending
  /\ t.reference_path_active = s.reference_path_active
  /\ t.route_outcome = s.route_outcome /\ t.end_pt = s.end_pt /\ t.task = s.task
  /\ t.have_odom = s.have_odom /\ t.mission = s.mission

SameRevision(s, t) == t.task_revision = s.task_revision
SameMessages(s, t) ==
  /\ t.out = s.out /\ t.bspline = s.bspline
  /\ t.traj_id = s.traj_id /\ t.progress_id = s.progress_id

LEMMA SameTaskTwice ==
  ASSUME NEW s, NEW t, NEW u, SameTask(s, t), SameTask(t, u)
  PROVE  SameTask(s, u)
BY Zenon DEF SameTask

LEMMA IdleSame ==
  ASSUME TypeOK
  PROVE  /\ Idle \in FsmStates /\ SameTask(fsm, Idle) /\ SameRevision(fsm, Idle)
         /\ Idle.exec_state = fsm.exec_state /\ Idle.out = << >>
         /\ Idle.bspline = fsm.bspline /\ Idle.traj_id = fsm.traj_id
         /\ Idle.progress_id = fsm.progress_id
BY IdleType, SMT DEF TypeOK, Idle, FsmStates, SameTask, SameRevision

LEMMA HeartbeatSame ==
  ASSUME NEW s \in FsmStates
  PROVE  LET t == PublishPlannerHeartbeat(s)
         IN  SameTask(s, t) /\ SameRevision(s, t) /\ t.exec_state = s.exec_state
BY SMT DEF FsmStates, PublishPlannerHeartbeat, SameTask, SameRevision

LEMMA BsplineSame ==
  ASSUME NEW s \in FsmStates, NEW id
  PROVE  LET t == PublishBspline(s, id)
         IN  SameTask(s, t) /\ SameRevision(s, t) /\ t.exec_state = s.exec_state
BY SMT DEF FsmStates, PublishBspline, SameTask, SameRevision

LEMMA ClearSame ==
  ASSUME NEW s \in FsmStates
  PROVE  LET t == PublishTrajectoryClear(s)
         IN  SameTask(s, t) /\ SameRevision(s, t) /\ t.exec_state = s.exec_state
BY SMT DEF FsmStates, PublishTrajectoryClear, PublishBspline, PublishPlannerHeartbeat,
       SameTask, SameRevision

LEMMA ChangeSame ==
  ASSUME NEW s \in FsmStates, NEW new \in ExecStates
  PROVE  LET t == ChangeFSMExecState(s, new)
         IN  /\ SameTask(s, t) /\ SameRevision(s, t) /\ t.exec_state = new
             /\ new \notin {"WAIT_TARGET", "EMERGENCY_STOP"} =>
                  t.progress_id = s.progress_id /\ t.traj_id = s.traj_id
BY SMT DEF FsmStates, ChangeFSMExecState, PublishTrajectoryClear, PublishBspline,
       PublishPlannerHeartbeat, SameTask, SameRevision

LEMMA CommitSame ==
  ASSUME NEW s \in FsmStates
  PROVE  LET t == CommitLocalTrajectory(s)
         IN  /\ SameTask(s, t) /\ SameRevision(s, t) /\ t.exec_state = s.exec_state
             /\ t.out = s.out /\ t.bspline = s.bspline /\ t.progress_id = s.progress_id
BY SMT DEF FsmStates, CommitLocalTrajectory, SameTask, SameRevision

LEMMA AnnouncedSame ==
  ASSUME NEW s \in FsmStates
  PROVE  LET t == Announced(s)
         IN  /\ SameTask(s, t) /\ SameRevision(s, t) /\ t.exec_state = s.exec_state
             /\ t.progress_id = t.traj_id
BY SMT DEF FsmStates, Announced, CommitLocalTrajectory, PublishBspline,
       PublishPlannerHeartbeat, SameTask, SameRevision

LEMMA HoldSame ==
  ASSUME NEW s \in FsmStates
  PROVE  LET t == CallEmergencyStop(s)
         IN  SameTask(s, t) /\ SameRevision(s, t) /\ t.exec_state = s.exec_state
BY SMT DEF FsmStates, CallEmergencyStop, PublishBspline, PublishPlannerHeartbeat,
       SameTask, SameRevision

LEMMA DropTaskSame ==
  ASSUME NEW s \in FsmStates
  PROVE  LET t == DropTask(s)
         IN  /\ t.exec_state = "INIT" /\ ~t.reference_path_active /\ ~t.preset_started
             /\ t.navi_mode = s.navi_mode /\ t.task = s.task /\ t.have_odom = s.have_odom
             /\ t.pending_path = s.pending_path
             /\ SameRevision(s, t) /\ SameMessages(s, t)
BY SMT DEF FsmStates, DropTask, DropRoute, SameRevision, SameMessages

LEMMA AdvanceSame ==
  ASSUME NEW s \in FsmStates
  PROVE  LET t == AdvanceTaskRevision(s)
         IN  /\ SameTask(s, t) /\ SameMessages(s, t) /\ t.exec_state = s.exec_state
             /\ t.task_revision = (s.task_revision + 1) % RevModulus
BY SMT DEF FsmStates, AdvanceTaskRevision, SameTask, SameMessages

LEMMA ReboundSame ==
  ASSUME NEW s \in FsmStates, NEW r \in ReboundOutcomes(s)
  PROVE  /\ SameTask(s, r.st) /\ SameRevision(s, r.st) /\ r.st.exec_state = s.exec_state
         /\ r.ok => r.st.progress_id = r.st.traj_id
<1> DEFINE c == CommitLocalTrajectory(s)
           t == PublishTrajectoryClear(c)
<1>1. c \in FsmStates /\ SameTask(s, c) /\ SameRevision(s, c) /\ c.exec_state = s.exec_state
  BY CommitType, CommitSame, Zenon
<1> HIDE DEF c
<1>2. SameTask(c, t) /\ SameRevision(c, t) /\ t.exec_state = c.exec_state
  BY <1>1, ClearSame, Zenon
<1>3. \/ r.st = s /\ r.ok = FALSE
      \/ r.st = t /\ r.ok = FALSE
      \/ r.st = Announced(s) /\ r.ok = TRUE
  BY ReboundCases, Zenon DEF t, c
<1> HIDE DEF t
<1>4. CASE r.st = s /\ r.ok = FALSE
  BY <1>4, Zenon DEF SameTask, SameRevision
<1>5. CASE r.st = t /\ r.ok = FALSE
  BY <1>1, <1>2, <1>5, SameTaskTwice, Zenon DEF SameRevision
<1>6. CASE r.st = Announced(s) /\ r.ok = TRUE
  BY <1>6, AnnouncedSame, Zenon
<1> QED
  BY <1>3, <1>4, <1>5, <1>6

LEMMA ReplanSame ==
  ASSUME NEW s \in FsmStates, NEW r \in ReplanOutcomes(s)
  PROVE  /\ SameTask(s, r.st) /\ SameRevision(s, r.st) /\ r.st.exec_state = s.exec_state
         /\ r.ok => r.st.progress_id = r.st.traj_id
<1>1. CASE r.st = s /\ r.ok = FALSE
  BY <1>1, Zenon DEF SameTask, SameRevision
<1>2. CASE r \in ReboundOutcomes(s)
  BY <1>2, ReboundSame, Zenon
<1>3. CASE \E q \in ReboundOutcomes(s) : r \in ReboundOutcomes(q.st)
  <2>1. PICK q \in ReboundOutcomes(s) : r \in ReboundOutcomes(q.st)
    BY <1>3
  <2>2. /\ q.st \in FsmStates /\ SameTask(s, q.st) /\ SameRevision(s, q.st)
        /\ q.st.exec_state = s.exec_state
    BY ReboundType, ReboundSame, Zenon
  <2>3. /\ SameTask(q.st, r.st) /\ SameRevision(q.st, r.st) /\ r.st.exec_state = q.st.exec_state
        /\ r.ok => r.st.progress_id = r.st.traj_id
    BY <2>1, <2>2, ReboundSame, Zenon
  <2> QED
    BY <2>2, <2>3, SameTaskTwice, Zenon DEF SameRevision
<1> QED
  BY <1>1, <1>2, <1>3, ReplanCases, Zenon

-----------------------------------------------------------------------------
(* The messages of a callback.                                             *)

Messages      == Heartbeats \cup Bsplines
Earlier(m, i) == {j \in 1..(i - 1) : m[j].topic = "bspline"}
HasLast(e)    == e = {} \/ \E j \in e : \A k \in e : k <= j

(* The messages sent so far: each grant follows its trajectory, and the    *)
(* bspline member is the last one sent.  b is the bspline before.          *)
Told(b, s) ==
  /\ \A i \in 1..(Len(s.out) + 1) : HasLast(Earlier(s.out, i))
  /\ \A i \in 1..Len(s.out) :
       s.out[i].topic = "heartbeat" /\ s.out[i].id # NoTraj =>
         s.out[i].id = LatestBspline(b, s.out, i)
  /\ s.bspline = LatestBspline(b, s.out, Len(s.out) + 1)

Newest(b, m, e) == IF e = {} THEN b ELSE m[CHOOSE j \in e : \A k \in e : k <= j].id

LEMMA LatestIsNewest ==
  ASSUME NEW b, NEW m, NEW i
  PROVE  LatestBspline(b, m, i) = Newest(b, m, Earlier(m, i))
BY Zenon DEF LatestBspline, Newest, Earlier

LEMMA NewestOfSame ==
  ASSUME NEW b, NEW m, NEW n, NEW e, HasLast(e), \A j \in e : m[j] = n[j]
  PROVE  Newest(b, m, e) = Newest(b, n, e)
<1>1. CASE e = {}
  BY <1>1, Zenon DEF Newest
<1>2. CASE e # {}
  <2> DEFINE last == CHOOSE j \in e : \A k \in e : k <= j
  <2>1. \E j \in e : \A k \in e : k <= j
    BY <1>2 DEF HasLast
  <2>2. last \in e
    BY <2>1, Zenon
  <2>3. Newest(b, m, e) = m[last].id /\ Newest(b, n, e) = n[last].id
    BY <1>2, Zenon DEF Newest
  <2> HIDE DEF last
  <2> QED
    BY <2>2, <2>3
<1> QED
  BY <1>1, <1>2

LEMMA LatestOfSame ==
  ASSUME NEW b, NEW m, NEW n, NEW i, NEW k,
         Earlier(n, k) = Earlier(m, i), HasLast(Earlier(m, i)),
         \A j \in Earlier(m, i) : m[j] = n[j]
  PROVE  LatestBspline(b, n, k) = LatestBspline(b, m, i)
<1> DEFINE e == Earlier(m, i)
<1>1. LatestBspline(b, m, i) = Newest(b, m, e) /\ LatestBspline(b, n, k) = Newest(b, n, e)
  BY LatestIsNewest, Zenon
<1> HIDE DEF e
<1>2. Newest(b, m, e) = Newest(b, n, e)
  BY NewestOfSame, Zenon DEF e
<1> QED
  BY <1>1, <1>2

(* A message sent changes nothing of what came before it.                  *)
LEMMA AppendedBefore ==
  ASSUME NEW m \in Seq(Messages), NEW x \in Messages, NEW i \in 1..(Len(m) + 1)
  PROVE  /\ Earlier(Append(m, x), i) = Earlier(m, i)
         /\ \A b : HasLast(Earlier(m, i)) =>
              LatestBspline(b, Append(m, x), i) = LatestBspline(b, m, i)
<1> DEFINE n == Append(m, x)
<1>1. \A j \in 1..(i - 1) : n[j] = m[j]
  OBVIOUS
<1>2. i \in Nat
  OBVIOUS
<1> HIDE DEF n
<1>3. Earlier(n, i) = Earlier(m, i)
  BY <1>1 DEF Earlier
<1>4. \A j \in Earlier(m, i) : m[j] = n[j]
  BY <1>1 DEF Earlier
<1>5. ASSUME NEW b, HasLast(Earlier(m, i))
      PROVE  LatestBspline(b, n, i) = LatestBspline(b, m, i)
  BY <1>3, <1>4, <1>5, LatestOfSame
<1> QED
  BY <1>3, <1>5, Zenon DEF n

LEMMA AppendedLast ==
  ASSUME NEW m \in Seq(Messages), NEW x \in Messages, NEW b,
         HasLast(Earlier(m, Len(m) + 1))
  PROVE  LET n == Append(m, x)
         IN  /\ HasLast(Earlier(n, Len(m) + 2))
             /\ x.topic # "bspline" =>
                  LatestBspline(b, n, Len(m) + 2) = LatestBspline(b, m, Len(m) + 1)
             /\ x.topic = "bspline" => LatestBspline(b, n, Len(m) + 2) = x.id
<1> DEFINE n == Append(m, x)
<1>1. Len(m) \in Nat /\ n[Len(m) + 1] = x /\ \A j \in 1..Len(m) : n[j] = m[j]
  OBVIOUS
<1> DEFINE l == Len(m)
<1> HIDE DEF n, l
<1>2. l \in Nat /\ n[l + 1] = x /\ (\A j \in 1..l : n[j] = m[j])
      /\ (l + 1) - 1 = l /\ (l + 2) - 1 = l + 1 /\ l + 1 \in Nat /\ l + 2 \in Nat
  BY <1>1 DEF l
<1>3. CASE x.topic # "bspline"
  <2>1. Earlier(n, l + 2) = Earlier(m, l + 1)
    <3>1. 1..(l + 1) = (1..l) \cup {l + 1}
      BY <1>2
    <3> QED
      BY <1>2, <1>3, <3>1, Zenon DEF Earlier
  <2>2. \A j \in Earlier(m, l + 1) : m[j] = n[j]
    BY <1>2, Zenon DEF Earlier
  <2>3. LatestBspline(b, n, l + 2) = LatestBspline(b, m, l + 1)
    <3>1. HasLast(Earlier(m, l + 1))
      BY DEF l
    <3> QED
      BY <2>1, <2>2, <3>1, LatestOfSame
  <2> QED
    BY <1>3, <2>1, <2>3, Zenon DEF l, n
<1>4. CASE x.topic = "bspline"
  <2> DEFINE e == Earlier(n, l + 2)
             last == CHOOSE j \in e : \A q \in e : q <= j
  <2>1. l + 1 \in e /\ \A q \in e : q \in Int /\ q <= l + 1
    BY <1>2, <1>4 DEF Earlier
  <2>2. LatestBspline(b, n, l + 2) = n[last].id
    BY <2>1, Zenon DEF LatestBspline, Earlier
  <2> HIDE DEF e
  <2>3. last \in e /\ \A q \in e : q <= last
    BY <2>1
  <2>4. last = l + 1
    BY <1>2, <2>1, <2>3
  <2>5. HasLast(e)
    BY <2>1, Zenon DEF HasLast
  <2> QED
    BY <1>2, <1>4, <2>2, <2>4, <2>5, Zenon DEF e, l, n
<1> QED
  BY <1>3, <1>4

(* A message that is a trajectory, or a grant of the last one.             *)
LEMMA ToldAppend ==
  ASSUME NEW s \in FsmStates, NEW t \in FsmStates, NEW b, NEW x \in Messages, Told(b, s),
         t.out = Append(s.out, x),
         \/ x.topic = "bspline" /\ t.bspline = x.id
         \/ /\ x.topic = "heartbeat" /\ t.bspline = s.bspline
            /\ x.id = NoTraj \/ x.id = s.bspline
  PROVE  Told(b, t)
<1> DEFINE m == s.out
           l == Len(m)
           n == Append(m, x)
<1>1. m \in Seq(Messages) /\ l \in Nat
  BY DEF FsmStates, Messages
<1>2. Len(n) = l + 1 /\ n[l + 1] = x /\ \A i \in 1..l : n[i] = m[i]
  BY <1>1
<1>3. /\ \A i \in 1..(l + 1) : HasLast(Earlier(m, i))
      /\ \A i \in 1..l : m[i].topic = "heartbeat" /\ m[i].id # NoTraj =>
           m[i].id = LatestBspline(b, m, i)
      /\ s.bspline = LatestBspline(b, m, l + 1)
  BY Zenon DEF Told
<1>4. \A i \in 1..(l + 1) : /\ Earlier(n, i) = Earlier(m, i)
                            /\ LatestBspline(b, n, i) = LatestBspline(b, m, i)
  BY <1>1, <1>3, AppendedBefore, Zenon
<1>5. /\ HasLast(Earlier(n, l + 2))
      /\ x.topic # "bspline" => LatestBspline(b, n, l + 2) = LatestBspline(b, m, l + 1)
      /\ x.topic = "bspline" => LatestBspline(b, n, l + 2) = x.id
  <2>1. HasLast(Earlier(m, l + 1))
    BY <1>1, <1>3
  <2> QED
    BY <1>1, <2>1, AppendedLast, Zenon
<1> HIDE DEF m, l, n
<1>6. \A i \in 1..((l + 1) + 1) : HasLast(Earlier(n, i))
  <2>1. (l + 1) + 1 = l + 2 /\ 1..(l + 2) = (1..(l + 1)) \cup {l + 2}
    BY <1>1
  <2> QED
    BY <1>3, <1>4, <1>5, <2>1, Zenon
<1>7. ASSUME NEW i \in 1..(l + 1), n[i].topic = "heartbeat" /\ n[i].id # NoTraj
      PROVE  n[i].id = LatestBspline(b, n, i)
  <2>1. CASE i = l + 1
    BY <1>2, <1>3, <1>4, <1>7, <2>1, Zenon
  <2>2. CASE i \in 1..l
    BY <1>2, <1>3, <1>4, <1>7, <2>2, Zenon
  <2> QED
    BY <1>1, <2>1, <2>2
<1>8. t.bspline = LatestBspline(b, n, (l + 1) + 1)
  <2>1. (l + 1) + 1 = l + 2
    BY <1>1
  <2> QED
    BY <1>3, <1>5, <2>1, Zenon
<1> QED
  BY <1>2, <1>6, <1>7, <1>8, Zenon DEF Told, m, l, n

(* ... and the progress is along the last trajectory sent.                 *)
Sent(b, s) == Told(b, s) /\ Linked(s)

LEMMA SentSame ==
  ASSUME NEW b, NEW s, NEW t, SameMessages(s, t)
  PROVE  /\ Told(b, s) => Told(b, t)
         /\ Sent(b, s) => Sent(b, t)
BY Zenon DEF SameMessages, Sent, Told, Linked

LEMMA SentIdle ==
  ASSUME TypeOK, Linked(fsm)  PROVE  Sent(fsm.bspline, Idle)
<1>1. /\ Idle.out = << >> /\ Idle.bspline = fsm.bspline
      /\ Idle.traj_id = fsm.traj_id /\ Idle.progress_id = fsm.progress_id
  BY IdleSame
<1>2. Earlier(<< >>, 1) = {}
  BY DEF Earlier
<1>3. HasLast({})
  BY DEF HasLast
<1>4. LatestBspline(fsm.bspline, << >>, 1) = fsm.bspline
  BY <1>2, LatestIsNewest, Zenon DEF Newest
<1>5. Len(<< >>) = 0 /\ 1..(0 + 1) = {1} /\ 1..0 = {} /\ 0 + 1 = 1
  OBVIOUS
<1>6. Told(fsm.bspline, Idle)
  <2>1. \A i \in 1..(Len(<< >>) + 1) : HasLast(Earlier(<< >>, i))
    BY <1>2, <1>3, <1>5
  <2>2. \A i \in 1..Len(<< >>) : FALSE
    BY <1>5
  <2>3. Idle.bspline = LatestBspline(fsm.bspline, << >>, Len(<< >>) + 1)
    BY <1>1, <1>4, <1>5
  <2> QED
    BY <1>1, <2>1, <2>2, <2>3, Zenon DEF Told
<1> QED
  BY <1>1, <1>6, Zenon DEF Sent, Linked

LEMMA SentHeartbeat ==
  ASSUME NEW b, NEW s \in FsmStates, Sent(b, s)
  PROVE  Sent(b, PublishPlannerHeartbeat(s))
<1> DEFINE t == PublishPlannerHeartbeat(s)
           x == [topic |-> "heartbeat", id |-> Authority(s)]
<1>1. t \in FsmStates
  BY HeartbeatType
<1>2. /\ t.out = Append(s.out, x) /\ t.bspline = s.bspline
      /\ t.traj_id = s.traj_id /\ t.progress_id = s.progress_id
  BY SMT DEF FsmStates, PublishPlannerHeartbeat
<1>3. Authority(s) = NoTraj \/ Authority(s) = s.bspline
  <2>1. HeartbeatAllows(s) => s.progress_id # NoTraj /\ s.progress_id = s.traj_id
    BY DEF HeartbeatAllows, NoTraj, FsmStates
  <2> QED
    BY <2>1, Zenon DEF Authority, Sent, Linked
<1>4. Authority(s) \in TrajIds \cup {NoTraj}
  BY DEF Authority, HeartbeatAllows, FsmStates, TrajIds, NoTraj
<1>5. x \in Messages /\ x.topic = "heartbeat" /\ x.id = Authority(s)
  BY <1>4 DEF Messages, Heartbeats
<1> HIDE DEF t, x
<1>6. Told(b, t)
  BY <1>1, <1>2, <1>3, <1>5, ToldAppend, Zenon DEF Sent
<1>7. Linked(t)
  BY <1>2, Zenon DEF Sent, Linked
<1> QED
  BY <1>6, <1>7, Zenon DEF Sent, t

LEMMA ToldBspline ==
  ASSUME NEW b, NEW s \in FsmStates, NEW id \in TrajIds \cup {NoTraj}, Told(b, s)
  PROVE  LET t == PublishBspline(s, id)
         IN  /\ Told(b, t) /\ t \in FsmStates /\ t.bspline = id
             /\ t.traj_id = s.traj_id /\ t.progress_id = s.progress_id
<1> DEFINE t == PublishBspline(s, id)
           x == [topic |-> "bspline", id |-> id]
<1>1. t \in FsmStates
  BY BsplineType
<1>2. /\ t.out = Append(s.out, x) /\ t.bspline = id
      /\ t.traj_id = s.traj_id /\ t.progress_id = s.progress_id
  BY SMT DEF FsmStates, PublishBspline
<1>3. x \in Messages /\ x.topic = "bspline" /\ x.id = id
  BY DEF Messages, Bsplines
<1> HIDE DEF t, x
<1>4. Told(b, t)
  BY <1>1, <1>2, <1>3, ToldAppend, Zenon
<1> QED
  BY <1>1, <1>2, <1>4, Zenon DEF t

(* The members that follow a trajectory's progress are set between the     *)
(* trajectory and the heartbeat.                                           *)
LEMMA SentLinked ==
  ASSUME NEW b, NEW s \in FsmStates, NEW id \in TrajIds \cup {NoTraj}, Told(b, s),
         id = NoTraj \/ (id = s.traj_id /\ id = s.bspline)
  PROVE  LET t == [s EXCEPT !.progress_id = id]
         IN  Sent(b, PublishPlannerHeartbeat(t))
<1> DEFINE t == [s EXCEPT !.progress_id = id]
<1>1. t \in FsmStates
  BY Zenon DEF FsmStates
<1>2. /\ t.out = s.out /\ t.bspline = s.bspline /\ t.traj_id = s.traj_id
      /\ t.progress_id = id
  BY SMT DEF FsmStates
<1> HIDE DEF t
<1>3. Told(b, t) /\ Linked(t)
  BY <1>2, Zenon DEF Told, Linked
<1> QED
  BY <1>1, <1>3, SentHeartbeat, Zenon DEF Sent, t

LEMMA SentClear ==
  ASSUME NEW b, NEW s \in FsmStates, Told(b, s)
  PROVE  Sent(b, PublishTrajectoryClear(s))
<1> DEFINE p == PublishBspline(s, NoTraj)
<1>1. NoTraj \in TrajIds \cup {NoTraj}
  OBVIOUS
<1>2. Told(b, p) /\ p \in FsmStates
  BY <1>1, ToldBspline, Zenon
<1> HIDE DEF p
<1>3. Sent(b, PublishPlannerHeartbeat([p EXCEPT !.progress_id = NoTraj]))
  BY <1>1, <1>2, SentLinked, Zenon
<1> QED
  BY <1>3, Zenon DEF PublishTrajectoryClear, p

LEMMA SentChange ==
  ASSUME NEW b, NEW s \in FsmStates, NEW new \in ExecStates, Sent(b, s)
  PROVE  Sent(b, ChangeFSMExecState(s, new))
<1> DEFINE id      == IF new = "EMERGENCY_STOP" THEN NoTraj ELSE s.progress_id
           entered == [s EXCEPT !.exec_state = new, !.progress_id = id]
<1>1. id \in TrajIds \cup {NoTraj} /\ (id = NoTraj \/ id = s.progress_id)
  BY DEF FsmStates
<1>2. ChangeFSMExecState(s, new) =
        IF new = s.exec_state THEN s
        ELSE IF new = "WAIT_TARGET" THEN PublishTrajectoryClear(entered)
        ELSE PublishPlannerHeartbeat(entered)
  BY Zenon DEF ChangeFSMExecState
<1> HIDE DEF id
<1>3. entered \in FsmStates
  BY <1>1, Zenon DEF FsmStates
<1>4. /\ entered.out = s.out /\ entered.bspline = s.bspline
      /\ entered.traj_id = s.traj_id /\ entered.progress_id = id
  BY SMT DEF FsmStates
<1> HIDE DEF entered
<1>5. Sent(b, entered)
  BY <1>1, <1>4, Zenon DEF Sent, Told, Linked
<1> QED
  BY <1>2, <1>3, <1>5, SentClear, SentHeartbeat, Zenon DEF Sent

LEMMA SentAnnounced ==
  ASSUME NEW b, NEW s \in FsmStates, Told(b, s)
  PROVE  Sent(b, Announced(s))
<1> DEFINE c == CommitLocalTrajectory(s)
<1>1. c \in FsmStates /\ c.traj_id \in TrajIds
  BY CommitType
<1>2. c.out = s.out /\ c.bspline = s.bspline
  BY CommitSame, Zenon
<1>3. Announced(s) = PublishPlannerHeartbeat(
                       PublishBspline([c EXCEPT !.progress_id = c.traj_id], c.traj_id))
  BY Zenon DEF Announced
<1> HIDE DEF c
<1> DEFINE d == [c EXCEPT !.progress_id = c.traj_id]
           p == PublishBspline(d, c.traj_id)
<1>4. d \in FsmStates
  BY <1>1, Zenon DEF FsmStates
<1>5. d.out = s.out /\ d.bspline = s.bspline /\ d.traj_id = c.traj_id /\ d.progress_id = c.traj_id
  BY <1>1, <1>2, SMT DEF FsmStates
<1> HIDE DEF d
<1>6. Told(b, d)
  BY <1>5, Zenon DEF Told
<1> DEFINE id == c.traj_id
<1>7. id \in TrajIds \cup {NoTraj}
  BY <1>1
<1>8. /\ Told(b, p) /\ p \in FsmStates /\ p.bspline = id
      /\ p.traj_id = d.traj_id /\ p.progress_id = d.progress_id
  <2> HIDE DEF id
  <2> QED  BY <1>4, <1>6, <1>7, ToldBspline, Zenon DEF id
<1> HIDE DEF p
<1>9. Linked(p)
  BY <1>5, <1>8, Zenon DEF Linked
<1> QED
  BY <1>3, <1>8, <1>9, SentHeartbeat, Zenon DEF Sent, p, d

LEMMA SentRebound ==
  ASSUME NEW b, NEW s \in FsmStates, Sent(b, s), NEW r \in ReboundOutcomes(s)
  PROVE  Sent(b, r.st)
<1> DEFINE c == CommitLocalTrajectory(s)
<1>1. c \in FsmStates /\ c.out = s.out /\ c.bspline = s.bspline
  BY CommitType, CommitSame, Zenon
<1> HIDE DEF c
<1>2. Told(b, c)
  BY <1>1, Zenon DEF Sent, Told
<1>3. Sent(b, PublishTrajectoryClear(c))
  BY <1>1, <1>2, SentClear
<1> QED
  BY <1>3, SentAnnounced, ReboundCases, Zenon DEF c, Sent

LEMMA SentReplan ==
  ASSUME NEW b, NEW s \in FsmStates, Sent(b, s), NEW r \in ReplanOutcomes(s)
  PROVE  Sent(b, r.st)
<1>1. CASE r.st = s
  BY <1>1
<1>2. CASE r \in ReboundOutcomes(s)
  BY <1>2, SentRebound
<1>3. CASE \E q \in ReboundOutcomes(s) : r \in ReboundOutcomes(q.st)
  <2>1. PICK q \in ReboundOutcomes(s) : r \in ReboundOutcomes(q.st)
    BY <1>3
  <2>2. q.st \in FsmStates /\ Sent(b, q.st)
    BY ReboundType, SentRebound, Zenon
  <2> QED
    BY <2>1, <2>2, SentRebound, Zenon
<1> QED
  BY <1>1, <1>2, <1>3, ReplanCases, Zenon

LEMMA SentHold ==
  ASSUME NEW b, NEW s \in FsmStates, Told(b, s)
  PROVE  Sent(b, CallEmergencyStop(s))
<1> DEFINE h == [s EXCEPT !.traj_id = NextTrajId(s), !.hold = TRUE, !.target = Here,
                          !.progress_id = NextTrajId(s)]
           p == PublishBspline(h, h.traj_id)
<1>1. Here \in Targets
  BY DEF Targets
<1>2. h \in FsmStates
  BY <1>1, NextTrajIdType, Zenon DEF FsmStates
<1>3. /\ h.traj_id \in TrajIds \cup {NoTraj} /\ h.progress_id = h.traj_id
      /\ h.out = s.out /\ h.bspline = s.bspline
  BY NextTrajIdType, SMT DEF FsmStates
<1>4. CallEmergencyStop(s) = PublishPlannerHeartbeat(p)
  BY Zenon DEF CallEmergencyStop
<1> HIDE DEF h
<1>5. Told(b, h)
  BY <1>3, Zenon DEF Told
<1>6. Told(b, p) /\ p \in FsmStates /\ Linked(p)
  BY <1>2, <1>3, <1>5, ToldBspline, Zenon DEF Linked
<1> HIDE DEF p
<1> QED
  BY <1>4, <1>6, SentHeartbeat, Zenon DEF Sent

LEMMA SentPlanned ==
  ASSUME NEW b, NEW s \in FsmStates, Sent(b, s),
         NEW r \in ReboundOutcomes(s) \cup ReplanOutcomes(s)
  PROVE  Sent(b, Planned(r))
<1>1. r.st \in FsmStates /\ Sent(b, r.st)
  BY ReboundType, ReplanType, SentRebound, SentReplan, Zenon
<1>2. ASSUME NEW x \in FsmStates, NEW n \in Nat
      PROVE  LET y == [x EXCEPT !.replan_fail_count = n]
             IN  y \in FsmStates /\ SameMessages(x, y)
  <2>1. [x EXCEPT !.replan_fail_count = n] \in FsmStates
    BY Zenon DEF FsmStates
  <2>2. SameMessages(x, [x EXCEPT !.replan_fail_count = n])
    BY SMT DEF FsmStates, SameMessages
  <2> QED
    BY <2>1, <2>2
<1>3. r.st.replan_fail_count + 1 \in Nat /\ 0 \in Nat /\ "EXEC_TRAJ" \in ExecStates
  BY <1>1 DEF FsmStates, ExecStates
<1>4. /\ Sent(b, [r.st EXCEPT !.replan_fail_count = 0])
      /\ [r.st EXCEPT !.replan_fail_count = 0] \in FsmStates
      /\ Sent(b, [r.st EXCEPT !.replan_fail_count = @ + 1])
  BY <1>1, <1>2, <1>3, SentSame, Zenon
<1> QED
  BY <1>3, <1>4, SentChange, Zenon DEF Planned

-----------------------------------------------------------------------------
(* The invariant through the helpers.                                      *)

Steady(b, s) == s \in FsmStates /\ Sent(b, s) /\ Routed(s) /\ Ended(s) /\ Posed(s)
Right(b, s)  == Steady(b, s) /\ Executed(s)

LEMMA TaskSame ==
  ASSUME NEW s, NEW t, SameTask(s, t)
  PROVE  /\ Routed(s) => Routed(t)
         /\ Posed(s) => Posed(t)
         /\ Ended(s) /\ (t.exec_state = s.exec_state \/ s.exec_state # "EMERGENCY_STOP")
              => Ended(t)
         /\ Ended(s) /\ ~s.need_hover_stop => Ended(t)
         /\ ~s.reference_path_active => Ended(t)
BY Zenon DEF SameTask, Routed, Posed, Ended

LEMMA SteadyChange ==
  ASSUME NEW b, NEW s, Steady(b, s), NEW new \in ExecStates,
         s.exec_state # "EMERGENCY_STOP" \/ ~s.need_hover_stop \/ ~s.reference_path_active,
         new = "EXEC_TRAJ" => s.progress_id = s.traj_id
  PROVE  LET t == ChangeFSMExecState(s, new)
         IN  /\ Right(b, t) /\ SameTask(s, t) /\ SameRevision(s, t)
             /\ t.exec_state = new
<1> DEFINE t == ChangeFSMExecState(s, new)
<1>1. s \in FsmStates
  BY DEF Steady
<1>2. /\ t \in FsmStates /\ SameTask(s, t) /\ SameRevision(s, t) /\ t.exec_state = new
      /\ new \notin {"WAIT_TARGET", "EMERGENCY_STOP"} =>
           t.progress_id = s.progress_id /\ t.traj_id = s.traj_id
  BY <1>1, ChangeStateType, ChangeSame, Zenon
<1>3. Sent(b, t)
  BY <1>1, SentChange, Zenon DEF Steady
<1> HIDE DEF t
<1>4. Executed(t)
  BY <1>2 DEF Executed
<1>5. Routed(t) /\ Posed(t) /\ Ended(t)
  BY <1>2, TaskSame, Zenon DEF Steady
<1> QED
  BY <1>2, <1>3, <1>4, <1>5, Zenon DEF Right, Steady, t

LEMMA RightTrigger ==
  ASSUME NEW b, NEW s, Right(b, s)
  PROVE  LET t == TriggerPlanning(s)
         IN  Right(b, t) /\ SameTask(s, t) /\ SameRevision(s, t)
<1>1. /\ "GEN_NEW_TRAJ" \in ExecStates /\ "REPLAN_TRAJ" \in ExecStates
      /\ "GEN_NEW_TRAJ" # "EXEC_TRAJ" /\ "REPLAN_TRAJ" # "EXEC_TRAJ"
      /\ "WAIT_TARGET" # "EMERGENCY_STOP" /\ "EXEC_TRAJ" # "EMERGENCY_STOP"
  BY DEF ExecStates
<1>2. SameTask(s, s) /\ SameRevision(s, s)
  BY DEF SameTask, SameRevision
<1>3. CASE s.exec_state = "WAIT_TARGET"
  BY <1>1, <1>3, SteadyChange, Zenon DEF TriggerPlanning, Right
<1>4. CASE s.exec_state = "EXEC_TRAJ"
  BY <1>1, <1>4, SteadyChange, Zenon DEF TriggerPlanning, Right
<1>5. CASE s.exec_state # "WAIT_TARGET" /\ s.exec_state # "EXEC_TRAJ"
  BY <1>2, <1>5, Zenon DEF TriggerPlanning
<1> QED
  BY <1>3, <1>4, <1>5

LEMMA RightAdvance ==
  ASSUME NEW b, NEW s, Right(b, s)
  PROVE  LET t == AdvanceTaskRevision(s)
         IN  /\ Right(b, t) /\ SameTask(s, t) /\ t.exec_state = s.exec_state
             /\ t.task_revision = (s.task_revision + 1) % RevModulus
<1> DEFINE t == AdvanceTaskRevision(s)
<1>1. s \in FsmStates
  BY DEF Right, Steady
<1>2. /\ t \in FsmStates /\ SameTask(s, t) /\ SameMessages(s, t) /\ t.exec_state = s.exec_state
      /\ t.task_revision = (s.task_revision + 1) % RevModulus
  BY <1>1, AdvanceType, AdvanceSame, Zenon
<1> HIDE DEF t
<1>3. Routed(t) /\ Posed(t) /\ Ended(t)
  BY <1>2, TaskSame, Zenon DEF Right, Steady
<1>4. Sent(b, t) /\ Executed(t)
  BY <1>2, SentSame, Zenon DEF Right, Steady, Executed, SameMessages
<1> QED
  BY <1>2, <1>3, <1>4, Zenon DEF Right, Steady, t

(* The failure limit decides the outcome of an active route and stops the  *)
(* robot in the same step.                                                 *)
LEMMA RightFinish ==
  ASSUME NEW b, NEW s, Right(b, s)
  PROVE  LET t == FinishProcess(s)
         IN  /\ Right(b, t) /\ t.task = s.task
             /\ t.reference_path_active = s.reference_path_active
<1> DEFINE outcome == IF s.reference_path_active /\ s.route_outcome = "NONE"
                      THEN "ABORTED" ELSE s.route_outcome
           u == [s EXCEPT !.replan_fail_count = 0, !.need_hover_stop = TRUE,
                          !.flag_escape_emergency = TRUE, !.route_outcome = outcome]
           v == AdvanceTaskRevision(u)
           t == ChangeFSMExecState(v, "EMERGENCY_STOP")
<1>0. s \in FsmStates
  BY DEF Right, Steady
<1>1. CASE s.replan_fail_count < MaxFail
  BY <1>1, Zenon DEF FinishProcess
<1>2. CASE ~(s.replan_fail_count < MaxFail)
  <2>1. FinishProcess(s) = t
    BY <1>2, Zenon DEF FinishProcess
  <2>2. /\ outcome \in Outcomes /\ 0 \in Nat
        /\ s.reference_path_active => outcome \in {"ABORTED", s.route_outcome} /\ outcome # "NONE"
    BY <1>0 DEF FsmStates, Outcomes
  <2> HIDE DEF outcome
  <2>3. u \in FsmStates
    BY <1>0, <2>2, Zenon DEF FsmStates
  <2>4. /\ SameMessages(s, u) /\ u.exec_state = s.exec_state /\ u.need_hover_stop = TRUE
        /\ u.route_outcome = outcome /\ u.navi_mode = s.navi_mode /\ u.trigger = s.trigger
        /\ u.have_target = s.have_target /\ u.preset_started = s.preset_started
        /\ u.pending_path = s.pending_path
        /\ u.reference_path_active = s.reference_path_active
        /\ u.end_pt = s.end_pt /\ u.task = s.task /\ u.have_odom = s.have_odom
    BY <1>0, SMT DEF FsmStates, SameMessages
  <2> HIDE DEF u
  <2>5. Sent(b, u) /\ Routed(u) /\ Posed(u)
    BY <2>4, SentSame, Zenon DEF Right, Steady, Routed, Posed
  <2>6. v \in FsmStates /\ SameTask(u, v) /\ SameMessages(u, v) /\ v.exec_state = u.exec_state
    BY <2>3, AdvanceType, AdvanceSame, Zenon
  <2> HIDE DEF v
  <2>7. Sent(b, v) /\ Routed(v) /\ Posed(v)
    BY <2>5, <2>6, SentSame, TaskSame, Zenon
  <2>8. "EMERGENCY_STOP" \in ExecStates /\ "EMERGENCY_STOP" # "EXEC_TRAJ"
    BY DEF ExecStates
  <2>9. t \in FsmStates /\ Sent(b, t) /\ SameTask(v, t) /\ t.exec_state = "EMERGENCY_STOP"
    BY <2>6, <2>7, <2>8, ChangeStateType, ChangeSame, SentChange, Zenon
  <2> HIDE DEF t
  <2>10. SameTask(u, t)
    BY <2>6, <2>9, SameTaskTwice, Zenon
  <2>11. Routed(t) /\ Posed(t)
    BY <2>5, <2>10, TaskSame, Zenon
  <2>12. t.reference_path_active = s.reference_path_active /\ t.task = s.task
         /\ t.route_outcome = outcome /\ t.need_hover_stop = TRUE
    BY <2>4, <2>10, Zenon DEF SameTask
  <2>13. t.reference_path_active => t.route_outcome = "ABORTED"
    <3>1. s.reference_path_active /\ s.route_outcome # "NONE" => s.route_outcome = "ABORTED"
      BY Zenon DEF Right, Steady, Ended
    <3> QED
      BY <2>12, <3>1 DEF outcome
  <2>14. Ended(t) /\ Executed(t)
    BY <2>8, <2>9, <2>12, <2>13, Zenon DEF Ended, Executed
  <2> QED
    BY <2>1, <2>9, <2>11, <2>12, <2>14, Zenon DEF Right, Steady
<1> QED
  BY <1>1, <1>2

(* Planning leaves the task alone; only what it announced is executed.     *)
LEMMA SteadyPlanning ==
  ASSUME NEW b, NEW s, Right(b, s), NEW r \in ReboundOutcomes(s) \cup ReplanOutcomes(s)
  PROVE  /\ Steady(b, r.st) /\ SameTask(s, r.st) /\ SameRevision(s, r.st)
         /\ r.st.exec_state = s.exec_state
         /\ r.ok => r.st.progress_id = r.st.traj_id
<1>1. s \in FsmStates /\ Sent(b, s)
  BY DEF Right, Steady
<1>2. /\ r.st \in FsmStates /\ Sent(b, r.st) /\ SameTask(s, r.st) /\ SameRevision(s, r.st)
      /\ r.st.exec_state = s.exec_state
      /\ r.ok => r.st.progress_id = r.st.traj_id
  BY <1>1, ReboundType, ReplanType, SentRebound, SentReplan, ReboundSame, ReplanSame, Zenon
<1>3. Routed(r.st) /\ Posed(r.st) /\ Ended(r.st)
  BY <1>2, TaskSame, Zenon DEF Right, Steady
<1> QED
  BY <1>2, <1>3, Zenon DEF Steady

LEMMA CountSame ==
  ASSUME NEW b, NEW s, Steady(b, s), NEW n \in Nat
  PROVE  LET t == [s EXCEPT !.replan_fail_count = n]
         IN  /\ Steady(b, t) /\ SameTask(s, t) /\ SameRevision(s, t)
             /\ t.exec_state = s.exec_state
             /\ t.progress_id = s.progress_id /\ t.traj_id = s.traj_id
<1> DEFINE t == [s EXCEPT !.replan_fail_count = n]
<1>1. s \in FsmStates
  BY DEF Steady
<1>2. t \in FsmStates
  BY <1>1, Zenon DEF FsmStates
<1>3. /\ SameTask(s, t) /\ SameRevision(s, t) /\ t.exec_state = s.exec_state
      /\ SameMessages(s, t) /\ t.progress_id = s.progress_id /\ t.traj_id = s.traj_id
  BY <1>1, SMT DEF FsmStates, SameTask, SameRevision, SameMessages
<1> HIDE DEF t
<1>4. Sent(b, t) /\ Routed(t) /\ Posed(t) /\ Ended(t)
  BY <1>3, SentSame, TaskSame, Zenon DEF Steady
<1> QED
  BY <1>2, <1>3, <1>4, Zenon DEF Steady, t

LEMMA RightPlanned ==
  ASSUME NEW b, NEW s, Right(b, s), s.exec_state \in {"GEN_NEW_TRAJ", "REPLAN_TRAJ"},
         NEW r \in ReboundOutcomes(s) \cup ReplanOutcomes(s)
  PROVE  /\ Right(b, Planned(r)) /\ SameTask(s, Planned(r))
<1>1. /\ Steady(b, r.st) /\ SameTask(s, r.st) /\ r.st.exec_state = s.exec_state
      /\ r.ok => r.st.progress_id = r.st.traj_id
  BY SteadyPlanning, Zenon
<1>2. /\ r.st.replan_fail_count + 1 \in Nat /\ 0 \in Nat /\ "EXEC_TRAJ" \in ExecStates
      /\ s.exec_state # "EMERGENCY_STOP" /\ s.exec_state # "EXEC_TRAJ"
  BY <1>1 DEF Steady, FsmStates, ExecStates
<1>3. CASE r.ok
  <2> DEFINE u == [r.st EXCEPT !.replan_fail_count = 0]
  <2>1. /\ Steady(b, u) /\ SameTask(r.st, u) /\ u.exec_state = r.st.exec_state
        /\ u.progress_id = r.st.progress_id /\ u.traj_id = r.st.traj_id
    BY <1>1, <1>2, CountSame, Zenon
  <2>2. Planned(r) = ChangeFSMExecState(u, "EXEC_TRAJ")
    BY <1>3, Zenon DEF Planned
  <2> HIDE DEF u
  <2>3. Right(b, Planned(r)) /\ SameTask(u, Planned(r))
    BY <1>1, <1>2, <1>3, <2>1, <2>2, SteadyChange, Zenon
  <2> QED
    BY <1>1, <2>1, <2>3, SameTaskTwice, Zenon
<1>4. CASE ~r.ok
  <2> DEFINE u == [r.st EXCEPT !.replan_fail_count = r.st.replan_fail_count + 1]
  <2>1. Steady(b, u) /\ SameTask(r.st, u) /\ u.exec_state = r.st.exec_state
    BY <1>1, <1>2, CountSame, Zenon
  <2>2. Planned(r) = u
    BY <1>4, Zenon DEF Planned
  <2> HIDE DEF u
  <2>3. Executed(u)
    BY <1>1, <1>2, <2>1, Zenon DEF Executed
  <2> QED
    BY <1>1, <2>1, <2>2, <2>3, SameTaskTwice, Zenon DEF Right
<1> QED
  BY <1>3, <1>4

-----------------------------------------------------------------------------
(* Tasks that take over.                                                   *)

(* The new task, or the route taken away.                                  *)
TakenOver(s, t) ==
  \/ t.task # s.task
  \/ /\ s.reference_path_active /\ ~t.reference_path_active
     /\ s.exec_state # "EMERGENCY_STOP" /\ ~s.cancel_pending
Revised(s, t) == TakenOver(s, t) => t.task_revision = (s.task_revision + 1) % RevModulus

(* An edit of the task that the invariant allows.                          *)
LEMMA RightEdit ==
  ASSUME NEW b, NEW s, Right(b, s), NEW t \in FsmStates, SameMessages(s, t),
         t.exec_state = s.exec_state, Routed(t), Ended(t), Posed(t)
  PROVE  Right(b, t)
<1>1. Sent(b, t)
  BY SentSame, Zenon DEF Right, Steady
<1>2. Executed(t)
  BY Zenon DEF Right, Executed, SameMessages
<1> QED
  BY <1>1, <1>2, Zenon DEF Right, Steady

HandedOver(s, r, m) ==
  [s EXCEPT !.trigger = TRUE, !.reference_path_active = FALSE, !.mission = m, !.task = r]

LEMMA HandedOverEdit ==
  ASSUME NEW s \in FsmStates, NEW r \in Targets, NEW m \in Missions \cup {NoMission}
  PROVE  LET t == HandedOver(s, r, m)
         IN  /\ t \in FsmStates /\ SameMessages(s, t) /\ t.exec_state = s.exec_state
             /\ ~t.reference_path_active /\ t.navi_mode = s.navi_mode /\ t.trigger = TRUE
             /\ t.task = r /\ t.pending_path = s.pending_path /\ t.have_odom = s.have_odom
             /\ t.task_revision = s.task_revision
<1> DEFINE t == HandedOver(s, r, m)
<1>1. t \in FsmStates
  BY Zenon DEF FsmStates, HandedOver
<1>2. /\ SameMessages(s, t) /\ t.exec_state = s.exec_state
      /\ ~t.reference_path_active /\ t.navi_mode = s.navi_mode /\ t.trigger = TRUE
      /\ t.task = r /\ t.pending_path = s.pending_path /\ t.have_odom = s.have_odom
      /\ t.task_revision = s.task_revision
  BY SMT DEF FsmStates, SameMessages, HandedOver
<1> QED
  BY <1>1, <1>2

(* A route takes over: with its revision, and either as the whole task or  *)
(* as no task at all.                                                      *)
LEMMA RightRoute ==
  ASSUME NEW b, NEW s, Right(b, s), s.navi_mode = REFERENCE_PATH, s.have_odom,
         NEW r \in Tasks, NEW m \in Missions \cup {NoMission},
         NEW o \in RouteOutcomes(s, r, m)
  PROVE  Right(b, o.st) /\ o.st.task_revision = (s.task_revision + 1) % RevModulus
<1>0. /\ s \in FsmStates /\ r \in Targets /\ REFERENCE_PATH # PRESET_TARGET
      /\ NoMission \in Missions \cup {NoMission} /\ s.pending_path = NoTask
  BY DEF Right, Steady, Posed, Targets, REFERENCE_PATH, PRESET_TARGET
<1> DEFINE t == HandedOver(s, r, m)
           u == RouteTaken(s, r, m)
           p == RoutePlanned(s, r, m)
           x == RouteRefused(s, r, m)
<1>2. /\ t \in FsmStates /\ SameMessages(s, t) /\ t.exec_state = s.exec_state
      /\ ~t.reference_path_active /\ t.navi_mode = REFERENCE_PATH /\ t.trigger = TRUE
      /\ t.task = r /\ t.pending_path = s.pending_path /\ t.have_odom = s.have_odom
      /\ t.task_revision = s.task_revision
  <2>1. t \in FsmStates
    BY <1>0, HandedOverEdit, Zenon
  <2>2. SameMessages(s, t) /\ t.exec_state = s.exec_state
    BY <1>0, HandedOverEdit, Zenon
  <2>3. ~t.reference_path_active /\ t.navi_mode = s.navi_mode /\ t.trigger = TRUE
    BY <1>0, HandedOverEdit, Zenon
  <2>4. t.task = r /\ t.pending_path = s.pending_path /\ t.have_odom = s.have_odom
    BY <1>0, HandedOverEdit, Zenon
  <2>5. t.task_revision = s.task_revision
    BY <1>0, HandedOverEdit, Zenon
  <2> QED
    BY <2>1, <2>2, <2>3, <2>4, <2>5
<1>3. u = AdvanceTaskRevision(t)
  BY Zenon DEF RouteTaken, HandedOver
<1> HIDE DEF t
<1>4. Right(b, t)
  <2>1. Routed(t) /\ Ended(t) /\ Posed(t)
    BY <1>0, <1>2, Zenon DEF Routed, Ended, Posed
  <2> QED
    BY <1>2, <2>1, RightEdit, Zenon
<1>5. /\ Right(b, u) /\ SameTask(t, u) /\ u.exec_state = t.exec_state
      /\ u.task_revision = (s.task_revision + 1) % RevModulus
  BY <1>2, <1>3, <1>4, RightAdvance, Zenon
<1>6. /\ ~u.reference_path_active /\ u.navi_mode = REFERENCE_PATH /\ u.trigger = TRUE
      /\ u.task = r /\ u.pending_path = NoTask /\ u.have_odom /\ u \in FsmStates
  BY <1>0, <1>2, <1>5, Zenon DEF SameTask, Right, Steady
<1>7. p \in FsmStates /\ x \in FsmStates
  BY <1>0, <1>6, RouteUpdatesType, Zenon DEF RoutePlanned, RouteRefused
<1>8. /\ SameMessages(u, p) /\ p.exec_state = u.exec_state /\ p.reference_path_active = TRUE
      /\ p.navi_mode = REFERENCE_PATH /\ p.trigger = TRUE /\ p.have_target = TRUE
      /\ p.end_pt = r /\ p.task = r /\ p.route_outcome = "NONE" /\ p.pending_path = NoTask
      /\ p.have_odom /\ p.task_revision = u.task_revision
  BY <1>6, SMT DEF FsmStates, RoutePlanned, SameMessages
<1>9. /\ SameMessages(u, x) /\ x.exec_state = u.exec_state /\ ~x.reference_path_active
      /\ x.navi_mode = REFERENCE_PATH /\ x.pending_path = NoTask
      /\ x.task_revision = u.task_revision
  BY <1>6, SMT DEF FsmStates, RouteRefused, SameMessages
<1> HIDE DEF u, p, x
<1>10. Right(b, p)
  <2>1. Routed(p) /\ Ended(p) /\ Posed(p)
    BY <1>0, <1>8, Zenon DEF Routed, Ended, Posed
  <2> QED
    BY <1>5, <1>7, <1>8, <2>1, RightEdit, Zenon
<1>11. /\ Right(b, TriggerPlanning(p))
       /\ TriggerPlanning(p).task_revision = (s.task_revision + 1) % RevModulus
  BY <1>5, <1>8, <1>10, RightTrigger, Zenon DEF SameRevision
<1>12. ASSUME NEW y, y = [x EXCEPT !.have_target = FALSE] \/ y = [x EXCEPT !.end_pt = r]
       PROVE  Right(b, y) /\ y.task_revision = (s.task_revision + 1) % RevModulus
  <2>1. y \in FsmStates
    BY <1>0, <1>7, <1>12, RouteUpdatesType, Zenon
  <2>2. /\ SameMessages(x, y) /\ y.exec_state = x.exec_state /\ ~y.reference_path_active
        /\ y.navi_mode = REFERENCE_PATH /\ y.pending_path = NoTask
        /\ y.task_revision = x.task_revision
    <3>1. CASE y = [x EXCEPT !.have_target = FALSE]
      BY <1>7, <1>9, <3>1, SMT DEF FsmStates, SameMessages
    <3>2. CASE y = [x EXCEPT !.end_pt = r]
      BY <1>7, <1>9, <3>2, SMT DEF FsmStates, SameMessages
    <3> QED
      BY <1>12, <3>1, <3>2
  <2>3. SameMessages(u, y) /\ y.exec_state = u.exec_state
    BY <1>9, <2>2, Zenon DEF SameMessages
  <2>4. Routed(y) /\ Ended(y) /\ Posed(y)
    BY <1>0, <2>2, Zenon DEF Routed, Ended, Posed
  <2>5. Right(b, y)
    BY <1>5, <2>1, <2>3, <2>4, RightEdit, Zenon
  <2> QED
    BY <1>5, <1>9, <2>2, <2>5, Zenon
<1> DEFINE Fine(y) == Right(b, y) /\ y.task_revision = (s.task_revision + 1) % RevModulus
<1>13. /\ Fine(TriggerPlanning(p))
       /\ Fine([x EXCEPT !.have_target = FALSE]) /\ Fine([x EXCEPT !.end_pt = r])
  BY <1>11, <1>12, Zenon
<1> HIDE DEF Fine
<1>14. Fine(o.st)
  BY <1>13, RouteCases, Zenon DEF p, x
<1> QED
  BY <1>14, Zenon DEF Fine

(* The waypoints of mode 2, in which there is never a route.               *)
LEMMA RightPreset ==
  ASSUME NEW b, NEW s \in FsmStates, Sent(b, s), Executed(s), Routed(s),
         s.navi_mode = PRESET_TARGET, s.pending_path = NoTask, NEW t \in PresetOutcomes(s)
  PROVE  Right(b, t) /\ t.task = Preset
         /\ t.task_revision = (s.task_revision + 1) % RevModulus
<1> DEFINE u == [s EXCEPT !.mission = NoMission, !.active_waypoints = NumWaypoints,
                          !.current_wp = 0, !.trigger = TRUE, !.task = Preset]
           v == AdvanceTaskRevision(u)
<1>0. /\ s \in FsmStates /\ Preset \in Targets /\ "GEN_NEW_TRAJ" \in ExecStates
      /\ "GEN_NEW_TRAJ" # "EXEC_TRAJ" /\ REFERENCE_PATH # PRESET_TARGET
      /\ 0 \in 0..NumWaypoints /\ NumWaypoints \in 0..NumWaypoints
      /\ ~s.reference_path_active
  BY FsmAssumption
     DEF Routed, Targets, ExecStates, REFERENCE_PATH, PRESET_TARGET
<1>1. u \in FsmStates
  BY <1>0, ZenonT(30) DEF FsmStates
<1>2. /\ SameMessages(s, u) /\ u.exec_state = s.exec_state /\ u.navi_mode = s.navi_mode
      /\ u.reference_path_active = s.reference_path_active /\ u.have_odom = s.have_odom
      /\ u.pending_path = s.pending_path /\ u.task = Preset
      /\ u.task_revision = s.task_revision
  BY <1>0, SMT DEF FsmStates, SameMessages
<1>3. PICK r \in NextWaypointOutcomes(v) :
        t = IF r.ok THEN ChangeFSMExecState(r.st, "GEN_NEW_TRAJ") ELSE r.st
  BY Zenon DEF PresetOutcomes
<1> HIDE DEF u
<1>4. Right(b, u)
  <2>1. Routed(u) /\ Ended(u) /\ Posed(u)
    BY <1>0, <1>2, Zenon DEF Routed, Ended, Posed
  <2>2. Sent(b, u) /\ Executed(u)
    BY <1>2, SentSame, Zenon DEF Executed, SameMessages
  <2> QED
    BY <1>1, <2>1, <2>2, Zenon DEF Right, Steady
<1>5. /\ Right(b, v) /\ SameTask(u, v) /\ v.exec_state = u.exec_state
      /\ v.task_revision = (u.task_revision + 1) % RevModulus
  BY <1>4, RightAdvance, Zenon
<1> HIDE DEF v
<1> DEFINE w == r.st
<1>6. /\ w \in FsmStates /\ SameMessages(v, w) /\ w.exec_state = v.exec_state
      /\ w.navi_mode = v.navi_mode /\ w.reference_path_active = v.reference_path_active
      /\ w.have_odom = v.have_odom /\ w.pending_path = v.pending_path /\ w.task = v.task
      /\ w.task_revision = v.task_revision
  <2>1. v \in FsmStates
    BY <1>5 DEF Right, Steady
  <2>2. w \in FsmStates
    BY <2>1, NextWaypointType
  <2>3. \/ w = [v EXCEPT !.end_pt = Preset]
        \/ w = [[v EXCEPT !.end_pt = Preset] EXCEPT !.have_target = TRUE]
    BY NextWaypointCases, Zenon
  <2> HIDE DEF w
  <2>4. CASE w = [v EXCEPT !.end_pt = Preset]
    BY <2>1, <2>2, <2>4, SMT DEF FsmStates, SameMessages
  <2>5. CASE w = [[v EXCEPT !.end_pt = Preset] EXCEPT !.have_target = TRUE]
    BY <2>1, <2>2, <2>5, SMT DEF FsmStates, SameMessages
  <2> QED
    BY <2>3, <2>4, <2>5
<1> HIDE DEF w
<1>7. /\ w.navi_mode = PRESET_TARGET /\ ~w.reference_path_active /\ w.task = Preset
      /\ w.task_revision = (s.task_revision + 1) % RevModulus
  BY <1>0, <1>2, <1>5, <1>6, Zenon DEF SameTask
<1>8. Right(b, w)
  <2>1. Routed(w) /\ Ended(w)
    BY <1>7, Zenon DEF Routed, Ended
  <2>2. Posed(w)
    BY <1>5, <1>6, <1>7, Zenon DEF Right, Steady, Posed
  <2> QED
    BY <1>5, <1>6, <2>1, <2>2, RightEdit, Zenon
<1> DEFINE z == ChangeFSMExecState(w, "GEN_NEW_TRAJ")
<1>9. Right(b, z) /\ SameTask(w, z) /\ SameRevision(w, z)
  BY <1>0, <1>7, <1>8, SteadyChange, Zenon DEF Right
<1> HIDE DEF z
<1>10. z.task = Preset /\ z.task_revision = (s.task_revision + 1) % RevModulus
  BY <1>7, <1>9, Zenon DEF SameTask, SameRevision
<1> QED
  BY <1>3, <1>7, <1>8, <1>9, <1>10, Zenon DEF z, w

(* A pose: what waits for one may no longer wait.  A receive time before   *)
(* the last one drops the task first.                                      *)
LEMMA PoseEffect ==
  ASSUME TaskInv, NEW back \in BOOLEAN
  PROVE  LET p == PoseTaken(back)
         IN  /\ p \in FsmStates /\ Sent(fsm.bspline, p) /\ Executed(p) /\ Routed(p) /\ Ended(p)
             /\ p.have_odom /\ p.navi_mode = fsm.navi_mode /\ p.task = fsm.task
             /\ p.pending_path = fsm.pending_path
             /\ ~back => /\ p.task_revision = fsm.task_revision
                         /\ p.reference_path_active = fsm.reference_path_active
                         /\ p.preset_started = fsm.preset_started
             /\ back  => /\ p.task_revision = (fsm.task_revision + 1) % RevModulus
                         /\ ~p.reference_path_active /\ ~p.preset_started
<1> DEFINE b == fsm.bspline
           v == AdvanceTaskRevision(Idle)
           c == PublishTrajectoryClear(v)
           d == DropTask(c)
           s == IF back THEN d ELSE Idle
           ready == s.goal_height_ready \/ fsm.navi_mode = MANUAL_TARGET
           p == [s EXCEPT !.have_odom = TRUE, !.odom_timeout_active = FALSE,
                          !.goal_height_ready = ready]
<1>0. PoseTaken(back) = p /\ PoseTaken(back) \in FsmStates
  BY PoseTakenType, Zenon DEF PoseTaken, TaskInv, IInv
<1>1. Right(b, Idle) /\ SameTask(fsm, Idle) /\ SameRevision(fsm, Idle)
  <2>1. /\ Idle \in FsmStates /\ SameTask(fsm, Idle) /\ SameRevision(fsm, Idle)
        /\ Idle.exec_state = fsm.exec_state
        /\ Idle.progress_id = fsm.progress_id /\ Idle.traj_id = fsm.traj_id
    BY IdleSame DEF TaskInv, IInv
  <2>2. Routed(Idle) /\ Posed(Idle) /\ Ended(Idle) /\ Executed(Idle)
    BY <2>1, TaskSame, Zenon DEF TaskInv, Tasked, Executed
  <2> QED
    BY <2>1, <2>2, SentIdle, Zenon DEF TaskInv, Tasked, IInv, Right, Steady
<1>2. /\ Right(b, v) /\ SameTask(Idle, v)
      /\ v.task_revision = (Idle.task_revision + 1) % RevModulus
  BY <1>1, RightAdvance, Zenon
<1> HIDE DEF v
<1>3. /\ c \in FsmStates /\ Sent(b, c) /\ SameTask(v, c) /\ SameRevision(v, c)
  BY <1>2, ClearType, ClearSame, SentClear, Zenon DEF Right, Steady, Sent
<1> HIDE DEF c
<1>4. /\ d \in FsmStates /\ d.exec_state = "INIT" /\ ~d.reference_path_active /\ ~d.preset_started
      /\ d.navi_mode = c.navi_mode /\ d.task = c.task /\ d.have_odom = c.have_odom
      /\ d.pending_path = c.pending_path /\ SameRevision(c, d) /\ SameMessages(c, d)
  BY <1>3, DropTaskType, DropTaskSame, Zenon
<1> HIDE DEF d
<1>5. /\ s \in FsmStates /\ Sent(b, s) /\ Executed(s) /\ Routed(s) /\ Ended(s)
      /\ s.navi_mode = fsm.navi_mode /\ s.task = fsm.task /\ s.pending_path = fsm.pending_path
      /\ ~back => /\ s.task_revision = fsm.task_revision
                  /\ s.reference_path_active = fsm.reference_path_active
                  /\ s.preset_started = fsm.preset_started
      /\ back  => /\ s.task_revision = (fsm.task_revision + 1) % RevModulus
                  /\ ~s.reference_path_active /\ ~s.preset_started
  <2>1. CASE ~back
    BY <1>1, <2>1, Zenon DEF Right, Steady, SameTask, SameRevision
  <2>2. CASE back
    <3>1. s = d
      BY <2>2
    <3>2. Sent(b, d)
      BY <1>3, <1>4, SentSame, Zenon
    <3>3. Executed(d) /\ Routed(d) /\ Ended(d)
      BY <1>4 DEF Executed, Routed, Ended
    <3>4. /\ d.navi_mode = fsm.navi_mode /\ d.task = fsm.task
          /\ d.pending_path = fsm.pending_path
          /\ d.task_revision = (fsm.task_revision + 1) % RevModulus
      BY <1>1, <1>2, <1>3, <1>4, Zenon DEF SameTask, SameRevision
    <3> HIDE DEF s
    <3> QED
      BY <1>4, <2>2, <3>1, <3>2, <3>3, <3>4, Zenon
  <2> QED
    BY <2>1, <2>2
<1>6. ready \in BOOLEAN
  BY Zenon
<1> HIDE DEF s, ready
<1>7. /\ SameMessages(s, p) /\ p.exec_state = s.exec_state /\ p.have_odom = TRUE
      /\ p.navi_mode = s.navi_mode /\ p.task = s.task /\ p.pending_path = s.pending_path
      /\ p.task_revision = s.task_revision
      /\ p.reference_path_active = s.reference_path_active
      /\ p.preset_started = s.preset_started
      /\ p.have_target = s.have_target /\ p.trigger = s.trigger /\ p.end_pt = s.end_pt
      /\ p.route_outcome = s.route_outcome /\ p.need_hover_stop = s.need_hover_stop
  <2>1. s \in FsmStates
    BY <1>5
  <2> QED
    BY <2>1, SMT DEF FsmStates, SameMessages
<1> HIDE DEF p
<1>8. Sent(b, p) /\ Executed(p) /\ Routed(p) /\ Ended(p)
  BY <1>5, <1>7, SentSame, Zenon DEF Executed, SameMessages, Routed, Ended
<1> QED
  BY <1>0, <1>5, <1>7, <1>8, Zenon

-----------------------------------------------------------------------------
(* The callbacks.                                                          *)

LEMMA IdleRight ==
  ASSUME TaskInv
  PROVE  /\ Right(fsm.bspline, Idle) /\ Idle \in FsmStates
         /\ SameTask(fsm, Idle) /\ SameRevision(fsm, Idle)
         /\ Idle.exec_state = fsm.exec_state
         /\ Idle.progress_id = fsm.progress_id /\ Idle.traj_id = fsm.traj_id
<1>1. /\ Idle \in FsmStates /\ SameTask(fsm, Idle) /\ SameRevision(fsm, Idle)
      /\ Idle.exec_state = fsm.exec_state
      /\ Idle.progress_id = fsm.progress_id /\ Idle.traj_id = fsm.traj_id
  BY IdleSame DEF TaskInv, IInv
<1>2. Routed(Idle) /\ Posed(Idle) /\ Ended(Idle) /\ Executed(Idle)
  BY <1>1, TaskSame, Zenon DEF TaskInv, Tasked, Executed
<1> QED
  BY <1>1, <1>2, SentIdle, Zenon DEF TaskInv, Tasked, IInv, Right, Steady

(* A callback that leaves the task and the route alone owes no revision.   *)
LEMMA KeptTask ==
  ASSUME NEW s, NEW t, t.task = s.task,
         t.reference_path_active = s.reference_path_active \/ ~s.reference_path_active
  PROVE  Revised(s, t)
BY Zenon DEF Revised, TakenOver

(* An edit of members that say nothing of a route.                         *)
SameRoute(s, t) ==
  /\ SameMessages(s, t) /\ t.exec_state = s.exec_state /\ t.navi_mode = s.navi_mode
  /\ t.reference_path_active = s.reference_path_active
  /\ t.have_odom = s.have_odom /\ t.pending_path = s.pending_path
  /\ t.preset_started = s.preset_started /\ t.task_revision = s.task_revision

LEMMA RouteFree ==
  ASSUME NEW b, NEW s, Right(b, s), NEW t \in FsmStates, SameRoute(s, t),
         ~s.reference_path_active, t.task = s.task \/ s.navi_mode # PRESET_TARGET
  PROVE  Right(b, t)
<1>1. Routed(t) /\ Ended(t) /\ Posed(t)
  BY Zenon DEF SameRoute, Routed, Ended, Right, Steady, Posed
<1> QED
  BY <1>1, RightEdit, Zenon DEF SameRoute

LEMMA WaypointRight ==
  ASSUME TaskInv, WaypointCallback
  PROVE  Right(fsm.bspline, fsm') /\ Revised(fsm, fsm')
<1> DEFINE b == fsm.bspline
<1>0. Right(b, Idle) /\ Idle \in FsmStates /\ SameTask(fsm, Idle) /\ SameRevision(fsm, Idle)
  BY IdleRight
<1>1. PICK g \in Tasks :
        \/ fsm' = [Idle EXCEPT !.trigger = TRUE]
        \/ fsm' = [[Idle EXCEPT !.trigger = TRUE] EXCEPT !.end_pt = g]
        \/ fsm' = TriggerPlanning(AdvanceTaskRevision(
              [[[Idle EXCEPT !.trigger = TRUE] EXCEPT !.end_pt = g]
                 EXCEPT !.mission = NoMission, !.have_target = TRUE, !.task = g]))
  BY Zenon DEF WaypointCallback
<1>2. /\ g \in Targets /\ MANUAL_TARGET # PRESET_TARGET
      /\ fsm.navi_mode = MANUAL_TARGET /\ ~fsm.reference_path_active
  BY DEF Targets, WaypointCallback, TaskInv, Tasked, Routed,
         MANUAL_TARGET, PRESET_TARGET, REFERENCE_PATH
<1> DEFINE Free(x) == /\ Right(b, x) /\ ~x.reference_path_active
                      /\ x.navi_mode = MANUAL_TARGET
                      /\ x.task_revision = fsm.task_revision
<1>3. Free(Idle)
  BY <1>0, <1>2, Zenon DEF SameTask, SameRevision
<1>4. ASSUME NEW x \in FsmStates
      PROVE  /\ [x EXCEPT !.trigger = TRUE] \in FsmStates
             /\ [x EXCEPT !.end_pt = g] \in FsmStates
             /\ [x EXCEPT !.mission = NoMission, !.have_target = TRUE, !.task = g] \in FsmStates
  <2>1. [x EXCEPT !.trigger = TRUE] \in FsmStates
    BY Zenon DEF FsmStates
  <2>2. [x EXCEPT !.end_pt = g] \in FsmStates
    BY <1>2, Zenon DEF FsmStates
  <2>3. [x EXCEPT !.mission = NoMission, !.have_target = TRUE, !.task = g] \in FsmStates
    BY <1>2, Zenon DEF FsmStates
  <2> QED
    BY <2>1, <2>2, <2>3
<1>5. ASSUME NEW x \in FsmStates
      PROVE  LET h == [x EXCEPT !.trigger = TRUE]
                 a == [x EXCEPT !.end_pt = g]
             IN  /\ SameRoute(x, h) /\ h.task = x.task
                 /\ SameRoute(x, a) /\ a.task = x.task
                 /\ SameRoute(x, [x EXCEPT !.mission = NoMission, !.have_target = TRUE,
                                           !.task = g])
  BY SMT DEF FsmStates, SameRoute, SameMessages
<1>6. ASSUME NEW x, Free(x), NEW y \in FsmStates, SameRoute(x, y)
      PROVE  Free(y)
  <2>1. Right(b, y)
    BY <1>2, <1>6, RouteFree, Zenon
  <2> QED
    BY <1>6, <2>1, Zenon DEF SameRoute
<1>7. ASSUME NEW x, Free(x)  PROVE x \in FsmStates
  BY <1>7, Zenon DEF Right, Steady
<1> DEFINE heard == [Idle EXCEPT !.trigger = TRUE]
           aimed == [heard EXCEPT !.end_pt = g]
           taken == [aimed EXCEPT !.mission = NoMission, !.have_target = TRUE, !.task = g]
           over  == AdvanceTaskRevision(taken)
           last  == TriggerPlanning(over)
<1> HIDE DEF Free
<1>8. heard \in FsmStates /\ SameRoute(Idle, heard) /\ heard.task = Idle.task
  BY <1>0, <1>4, <1>5, Zenon
<1>9. Free(heard)
  BY <1>3, <1>6, <1>8, Zenon
<1> HIDE DEF heard
<1>10. aimed \in FsmStates /\ SameRoute(heard, aimed) /\ aimed.task = heard.task
  BY <1>4, <1>5, <1>8, Zenon
<1>11. Free(aimed)
  BY <1>6, <1>9, <1>10, Zenon
<1> HIDE DEF aimed
<1>12. taken \in FsmStates /\ SameRoute(aimed, taken)
  BY <1>4, <1>5, <1>10, Zenon
<1>13. Free(taken)
  BY <1>6, <1>11, <1>12, Zenon
<1> HIDE DEF taken
<1>14. Right(b, over) /\ over.task_revision = (fsm.task_revision + 1) % RevModulus
  BY <1>13, RightAdvance, Zenon DEF Free
<1> HIDE DEF over
<1>15. Right(b, last) /\ last.task_revision = (fsm.task_revision + 1) % RevModulus
  BY <1>14, RightTrigger, Zenon DEF SameRevision
<1> HIDE DEF last
<1>16. fsm' = heard \/ fsm' = aimed \/ fsm' = last
  BY <1>1, Zenon DEF heard, aimed, taken, over, last
<1>17. CASE fsm' = heard \/ fsm' = aimed
  <2>1. fsm'.task = fsm.task
    BY <1>0, <1>8, <1>10, <1>17, Zenon DEF SameTask
  <2> QED
    BY <1>2, <1>9, <1>11, <1>17, <2>1, KeptTask, Zenon DEF Free
<1>18. CASE fsm' = last
  BY <1>15, <1>18, Zenon DEF Revised
<1> QED
  BY <1>16, <1>17, <1>18

LEMMA PathRight ==
  ASSUME TaskInv, PathCallback
  PROVE  Right(fsm.bspline, fsm') /\ Revised(fsm, fsm')
<1> DEFINE b == fsm.bspline
<1>0. Right(b, Idle) /\ Idle \in FsmStates /\ SameTask(fsm, Idle) /\ SameRevision(fsm, Idle)
  BY IdleRight
<1>1. PICK r \in Tasks :
        \/ ~fsm.have_odom /\ fsm' = [Idle EXCEPT !.pending_path = r]
        \/ fsm.have_odom /\ \E o \in RouteOutcomes(Idle, r, NoMission) : fsm' = o.st
  BY Zenon DEF PathCallback
<1>2. /\ NoMission \in Missions \cup {NoMission} /\ Idle.navi_mode = REFERENCE_PATH
      /\ Idle.have_odom = fsm.have_odom
  BY <1>0, Zenon DEF PathCallback, SameTask
<1>3. CASE ~fsm.have_odom /\ fsm' = [Idle EXCEPT !.pending_path = r]
  <2> DEFINE x == [Idle EXCEPT !.pending_path = r]
  <2>1. x \in FsmStates
    BY <1>0, Zenon DEF FsmStates
  <2>2. /\ SameMessages(Idle, x) /\ x.exec_state = Idle.exec_state
        /\ x.navi_mode = Idle.navi_mode /\ x.task = Idle.task
        /\ x.reference_path_active = Idle.reference_path_active
        /\ x.have_odom = Idle.have_odom
    BY <1>0, SMT DEF FsmStates, SameMessages
  <2> HIDE DEF x
  <2>3. ~x.reference_path_active /\ REFERENCE_PATH # PRESET_TARGET
    BY <1>0, <1>3, <2>2 DEF Right, Steady, Posed, SameTask, REFERENCE_PATH, PRESET_TARGET
  <2>4. Routed(x) /\ Ended(x) /\ Posed(x)
    BY <1>2, <1>3, <2>2, <2>3, Zenon DEF Routed, Ended, Posed
  <2>5. Right(b, x)
    BY <1>0, <2>1, <2>2, <2>4, RightEdit, Zenon
  <2>6. Revised(fsm, x)
    BY <1>0, <2>2, KeptTask, Zenon DEF SameTask
  <2> QED
    BY <1>3, <2>5, <2>6, Zenon DEF x
<1>4. CASE fsm.have_odom /\ \E o \in RouteOutcomes(Idle, r, NoMission) : fsm' = o.st
  <2>1. PICK o \in RouteOutcomes(Idle, r, NoMission) : fsm' = o.st
    BY <1>4, Zenon
  <2>2. Idle.have_odom
    BY <1>2, <1>4, Zenon
  <2>3. Right(b, o.st)
    BY <1>0, <1>2, <2>2, RightRoute
  <2>4. o.st.task_revision = (Idle.task_revision + 1) % RevModulus
    BY <1>0, <1>2, <2>2, RightRoute
  <2> QED
    BY <1>0, <2>1, <2>3, <2>4, Zenon DEF Revised, SameRevision
<1> QED
  BY <1>1, <1>3, <1>4

(* No route waits for a pose while there is one, so a pose starts a        *)
(* waiting route only when it is the first; the waypoints that a backward  *)
(* jump restarts are the task already.                                     *)
LEMMA OdometryRight ==
  ASSUME TaskInv, OdometryCallback
  PROVE  Right(fsm.bspline, fsm') /\ Revised(fsm, fsm')
<1> DEFINE b == fsm.bspline
<1>1. PICK back \in BOOLEAN :
        /\ back => fsm.have_odom
        /\ \/ /\ fsm.navi_mode = REFERENCE_PATH /\ PoseTaken(back).pending_path # NoTask
              /\ \E o \in RouteOutcomes([PoseTaken(back) EXCEPT !.pending_path = NoTask],
                                        PoseTaken(back).pending_path, NoMission) : fsm' = o.st
           \/ /\ fsm.navi_mode = PRESET_TARGET /\ ~PoseTaken(back).preset_started
              /\ fsm' \in PresetOutcomes([PoseTaken(back) EXCEPT !.preset_started = TRUE])
           \/ /\ ~(fsm.navi_mode = REFERENCE_PATH /\ PoseTaken(back).pending_path # NoTask)
              /\ ~(fsm.navi_mode = PRESET_TARGET /\ ~PoseTaken(back).preset_started)
              /\ fsm' = PoseTaken(back)
           \/ /\ fsm.navi_mode = REFERENCE_PATH /\ PoseTaken(back).pending_path # NoTask
              /\ fsm' = [PoseTaken(back) EXCEPT !.pending_path = NoTask]
  <2>1. \A x \in {FALSE} \cup {x \in {ClockJumps} : x /\ fsm.have_odom} :
          x \in BOOLEAN /\ (x => fsm.have_odom)
    BY FsmAssumption, Zenon
  <2> QED
    BY <2>1, Zenon DEF OdometryCallback
<1> DEFINE p == PoseTaken(back)
<1>2. p \in FsmStates /\ Sent(b, p) /\ Executed(p) /\ Routed(p) /\ Ended(p)
  BY PoseEffect, Zenon
<1>3. /\ p.have_odom /\ p.navi_mode = fsm.navi_mode /\ p.task = fsm.task
      /\ p.pending_path = fsm.pending_path
  BY PoseEffect, Zenon
<1>4. /\ ~back => /\ p.task_revision = fsm.task_revision
                  /\ p.reference_path_active = fsm.reference_path_active
                  /\ p.preset_started = fsm.preset_started
      /\ back  => /\ p.task_revision = (fsm.task_revision + 1) % RevModulus
                  /\ ~p.reference_path_active /\ ~p.preset_started
  BY PoseEffect, Zenon
<1>5. Posed(fsm) /\ Routed(fsm) /\ REFERENCE_PATH # PRESET_TARGET
  BY DEF TaskInv, Tasked, REFERENCE_PATH, PRESET_TARGET
<1>6. p.pending_path \in Tasks \cup {NoTask}
  BY <1>2, Zenon DEF FsmStates
<1>7. /\ [p EXCEPT !.pending_path = NoTask] \in FsmStates
      /\ [p EXCEPT !.preset_started = TRUE] \in FsmStates
  <2> HIDE DEF p
  <2>1. [p EXCEPT !.pending_path = NoTask] \in FsmStates
    BY <1>2, Zenon DEF FsmStates
  <2>2. [p EXCEPT !.preset_started = TRUE] \in FsmStates
    BY <1>2, Zenon DEF FsmStates
  <2> QED
    BY <2>1, <2>2
<1>8. ASSUME NEW x, x = [p EXCEPT !.pending_path = NoTask] \/ x = [p EXCEPT !.preset_started = TRUE]
      PROVE  /\ SameMessages(p, x) /\ x.exec_state = p.exec_state
             /\ x.navi_mode = p.navi_mode /\ x.task = p.task /\ x.have_odom = p.have_odom
             /\ x.reference_path_active = p.reference_path_active
             /\ x.have_target = p.have_target /\ x.trigger = p.trigger /\ x.end_pt = p.end_pt
             /\ x.route_outcome = p.route_outcome /\ x.need_hover_stop = p.need_hover_stop
             /\ x.task_revision = p.task_revision
  <2> HIDE DEF p
  <2>1. CASE x = [p EXCEPT !.pending_path = NoTask]
    BY <1>2, <2>1, SMT DEF FsmStates, SameMessages
  <2>2. CASE x = [p EXCEPT !.preset_started = TRUE]
    BY <1>2, <2>2, SMT DEF FsmStates, SameMessages
  <2> QED
    BY <1>8, <2>1, <2>2
<1>9. ASSUME NEW x, x = [p EXCEPT !.pending_path = NoTask] \/ x = [p EXCEPT !.preset_started = TRUE]
      PROVE  Sent(b, x) /\ Executed(x) /\ Routed(x) /\ Ended(x)
  <2>1. /\ SameMessages(p, x) /\ x.exec_state = p.exec_state
        /\ x.navi_mode = p.navi_mode /\ x.task = p.task
        /\ x.reference_path_active = p.reference_path_active
        /\ x.have_target = p.have_target /\ x.trigger = p.trigger /\ x.end_pt = p.end_pt
        /\ x.route_outcome = p.route_outcome /\ x.need_hover_stop = p.need_hover_stop
    BY <1>8, <1>9, Zenon
  <2> HIDE DEF p
  <2> QED
    BY <1>2, <2>1, SentSame, Zenon DEF SameMessages, Executed, Routed, Ended
<1>10. p.pending_path = NoTask
       => [p EXCEPT !.preset_started = TRUE].pending_path = NoTask
  <2> HIDE DEF p
  <2> QED
    BY <1>2, SMT DEF FsmStates
<1>11. [p EXCEPT !.pending_path = NoTask].pending_path = NoTask
  <2> HIDE DEF p
  <2> QED
    BY <1>2, SMT DEF FsmStates
<1> DEFINE y == [p EXCEPT !.pending_path = NoTask]
           z == [p EXCEPT !.preset_started = TRUE]
<1>12. /\ Sent(b, y) /\ Executed(y) /\ Routed(y) /\ Ended(y) /\ y \in FsmStates
       /\ y.navi_mode = fsm.navi_mode /\ y.have_odom /\ y.task_revision = p.task_revision
       /\ y.pending_path = NoTask
       /\ y.task = p.task /\ y.reference_path_active = p.reference_path_active
  BY <1>3, <1>7, <1>8, <1>9, <1>11, Zenon
<1>13. /\ Sent(b, z) /\ Executed(z) /\ Routed(z) /\ z \in FsmStates
       /\ z.navi_mode = fsm.navi_mode /\ z.task_revision = p.task_revision
       /\ p.pending_path = NoTask => z.pending_path = NoTask
  BY <1>3, <1>7, <1>8, <1>9, <1>10, Zenon
<1>14. \/ /\ fsm.navi_mode = REFERENCE_PATH /\ p.pending_path # NoTask
          /\ \E o \in RouteOutcomes(y, p.pending_path, NoMission) : fsm' = o.st
       \/ /\ fsm.navi_mode = PRESET_TARGET /\ ~p.preset_started /\ fsm' \in PresetOutcomes(z)
       \/ /\ ~(fsm.navi_mode = REFERENCE_PATH /\ p.pending_path # NoTask)
          /\ ~(fsm.navi_mode = PRESET_TARGET /\ ~p.preset_started)
          /\ fsm' = p
       \/ fsm.navi_mode = REFERENCE_PATH /\ p.pending_path # NoTask /\ fsm' = y
  BY <1>1, Zenon
<1> HIDE DEF p, y, z
<1>15. CASE /\ fsm.navi_mode = REFERENCE_PATH /\ p.pending_path # NoTask
            /\ \E o \in RouteOutcomes(y, p.pending_path, NoMission) : fsm' = o.st
  <2>1. PICK o \in RouteOutcomes(y, p.pending_path, NoMission) : fsm' = o.st
    BY <1>15, Zenon
  <2>2. p.pending_path \in Tasks /\ NoMission \in Missions \cup {NoMission}
    BY <1>6, <1>15
  <2>3. ~back
    BY <1>1, <1>3, <1>5, <1>15, Zenon DEF Posed
  <2>4. Posed(y)
    BY <1>5, <1>12, <1>15, Zenon DEF Posed
  <2>5. Right(b, y) /\ y.navi_mode = REFERENCE_PATH
    BY <1>12, <1>15, <2>4, Zenon DEF Right, Steady
  <2>6. Right(b, o.st)
    BY <1>12, <2>2, <2>5, RightRoute
  <2>7. o.st.task_revision = (y.task_revision + 1) % RevModulus
    BY <1>12, <2>2, <2>5, RightRoute
  <2> QED
    BY <1>4, <1>12, <2>1, <2>3, <2>6, <2>7, Zenon DEF Revised
<1>16. CASE fsm.navi_mode = PRESET_TARGET /\ ~p.preset_started /\ fsm' \in PresetOutcomes(z)
  <2>1. z.pending_path = NoTask
    BY <1>3, <1>5, <1>13, <1>16, Zenon DEF Posed
  <2>2. Right(b, fsm') /\ fsm'.task = Preset
        /\ fsm'.task_revision = (z.task_revision + 1) % RevModulus
    BY <1>13, <1>16, <2>1, RightPreset, Zenon
  <2>3. ~fsm.reference_path_active
    BY <1>5, <1>16, Zenon DEF Routed
  <2>4. CASE ~back
    BY <1>4, <1>13, <2>2, <2>4, Zenon DEF Revised
  <2>5. CASE back
    <3>1. fsm.task = Preset
      BY <1>1, <1>5, <1>16, <2>5, Zenon DEF Posed
    <3> QED
      BY <2>2, <2>3, <3>1, KeptTask, Zenon
  <2> QED
    BY <2>4, <2>5
<1>17. CASE /\ ~(fsm.navi_mode = REFERENCE_PATH /\ p.pending_path # NoTask)
            /\ ~(fsm.navi_mode = PRESET_TARGET /\ ~p.preset_started)
            /\ fsm' = p
  <2>1. p.pending_path = NoTask
    BY <1>3, <1>5, <1>17, Zenon DEF Posed
  <2>2. p.navi_mode = PRESET_TARGET => p.task = Preset
    BY <1>3, <1>4, <1>5, <1>17, Zenon DEF Posed
  <2>3. Posed(p)
    BY <1>3, <2>1, <2>2, Zenon DEF Posed
  <2>4. Right(b, p)
    BY <1>2, <2>3, Zenon DEF Right, Steady
  <2>5. Revised(fsm, p)
    <3>1. CASE ~back
      BY <1>3, <1>4, <3>1, KeptTask, Zenon
    <3>2. CASE back
      BY <1>4, <3>2, Zenon DEF Revised
    <3> QED
      BY <3>1, <3>2
  <2> QED
    BY <1>17, <2>4, <2>5
<1>18. CASE fsm.navi_mode = REFERENCE_PATH /\ p.pending_path # NoTask /\ fsm' = y
  <2>1. ~back
    BY <1>1, <1>3, <1>5, <1>18, Zenon DEF Posed
  <2>2. Posed(y)
    BY <1>5, <1>12, <1>18, Zenon DEF Posed
  <2>3. Right(b, y)
    BY <1>12, <2>2, Zenon DEF Right, Steady
  <2>4. Revised(fsm, y)
    BY <1>3, <1>4, <1>12, <2>1, KeptTask, Zenon
  <2> QED
    BY <1>18, <2>3, <2>4
<1> QED
  BY <1>14, <1>15, <1>16, <1>17, <1>18

(* What a loss of localisation does, by any of its three ways: the task is *)
(* dropped, with its revision if there was a pose to lose.                 *)
LEMMA DroppedRight ==
  ASSUME NEW b, NEW s \in FsmStates, Sent(b, s),
         s.navi_mode = PRESET_TARGET => s.task = Preset \/ ~s.have_odom,
         s.pending_path # NoTask => s.navi_mode = REFERENCE_PATH /\ ~s.have_odom
  PROVE  Right(b, DropTask(s))
<1> DEFINE d == DropTask(s)
<1>1. /\ d \in FsmStates /\ d.exec_state = "INIT" /\ ~d.reference_path_active /\ ~d.preset_started
      /\ d.navi_mode = s.navi_mode /\ d.task = s.task /\ d.have_odom = s.have_odom
      /\ d.pending_path = s.pending_path /\ SameMessages(s, d)
  BY DropTaskType, DropTaskSame, Zenon
<1> HIDE DEF d
<1>2. Sent(b, d)
  BY <1>1, SentSame, Zenon
<1>3. Executed(d) /\ Routed(d) /\ Ended(d) /\ Posed(d)
  BY <1>1 DEF Executed, Routed, Ended, Posed
<1> QED
  BY <1>1, <1>2, <1>3, Zenon DEF Right, Steady, d

(* An edit of members that no part of the invariant mentions.              *)
LEMMA RightSame ==
  ASSUME NEW b, NEW s, Right(b, s), NEW t \in FsmStates, SameTask(s, t), SameMessages(s, t),
         t.exec_state = s.exec_state
  PROVE  Right(b, t)
<1>1. Routed(t) /\ Ended(t) /\ Posed(t)
  BY TaskSame, Zenon DEF Right, Steady
<1> QED
  BY <1>1, RightEdit, Zenon

LEMMA ClearedIdle ==
  ASSUME TaskInv
  PROVE  LET c == PublishTrajectoryClear(AdvanceTaskRevision(Idle))
         IN  /\ c \in FsmStates /\ Sent(fsm.bspline, c) /\ SameTask(fsm, c)
             /\ c.task_revision = (fsm.task_revision + 1) % RevModulus
<1> DEFINE b == fsm.bspline
           v == AdvanceTaskRevision(Idle)
           c == PublishTrajectoryClear(v)
<1>1. Right(b, Idle) /\ SameTask(fsm, Idle) /\ SameRevision(fsm, Idle)
  BY IdleRight
<1>2. /\ Right(b, v) /\ SameTask(Idle, v)
      /\ v.task_revision = (Idle.task_revision + 1) % RevModulus
  BY <1>1, RightAdvance, Zenon
<1> HIDE DEF v
<1>3. /\ c \in FsmStates /\ Sent(b, c) /\ SameTask(v, c) /\ SameRevision(v, c)
  BY <1>2, ClearType, ClearSame, SentClear, Zenon DEF Right, Steady, Sent
<1> HIDE DEF c
<1>4. SameTask(fsm, c)
  BY <1>1, <1>2, <1>3, SameTaskTwice, Zenon
<1> QED
  BY <1>1, <1>2, <1>3, <1>4, Zenon DEF SameRevision, c, v

LEMMA TfReadyRight ==
  ASSUME TaskInv, TfReadyCallback
  PROVE  Right(fsm.bspline, fsm') /\ Revised(fsm, fsm')
<1> DEFINE b == fsm.bspline
           s == IF fsm.tf_ready \/ fsm.have_odom
                THEN PublishTrajectoryClear(AdvanceTaskRevision(Idle)) ELSE Idle
           d == DropTask(s)
           t == [d EXCEPT !.tf_ready = FALSE, !.have_odom = FALSE]
           u == [Idle EXCEPT !.tf_ready = TRUE]
<1>0. Right(b, Idle) /\ Idle \in FsmStates /\ SameTask(fsm, Idle) /\ SameRevision(fsm, Idle)
  BY IdleRight
<1>1. fsm' = u \/ fsm' = t
  BY Zenon DEF TfReadyCallback
<1>2. CASE fsm' = u
  <2>1. u \in FsmStates
    BY <1>0, Zenon DEF FsmStates
  <2>2. SameTask(Idle, u) /\ SameMessages(Idle, u) /\ u.exec_state = Idle.exec_state
    BY <1>0, SMT DEF FsmStates, SameTask, SameMessages
  <2> HIDE DEF u
  <2>3. Right(b, u)
    BY <1>0, <2>1, <2>2, RightSame, Zenon
  <2>4. Revised(fsm, u)
    BY <1>0, <2>2, KeptTask, Zenon DEF SameTask
  <2> QED
    BY <1>2, <2>3, <2>4
<1>3. CASE fsm' = t
  <2>1. /\ s \in FsmStates /\ Sent(b, s) /\ SameTask(fsm, s)
        /\ fsm.have_odom => s.task_revision = (fsm.task_revision + 1) % RevModulus
    <3>1. CASE fsm.tf_ready \/ fsm.have_odom
      BY <3>1, ClearedIdle, Zenon
    <3>2. CASE ~(fsm.tf_ready \/ fsm.have_odom)
      BY <1>0, <3>2, Zenon DEF Right, Steady
    <3> QED
      BY <3>1, <3>2
  <2> HIDE DEF s
  <2>2. Posed(s)
    BY <2>1, TaskSame, Zenon DEF TaskInv, Tasked
  <2>3. Right(b, d)
    BY <2>1, <2>2, DroppedRight, Zenon DEF Posed
  <2>4. /\ d \in FsmStates /\ ~d.reference_path_active /\ ~d.preset_started
        /\ d.navi_mode = s.navi_mode /\ d.task = s.task
        /\ d.pending_path = s.pending_path /\ SameRevision(s, d)
    BY <2>1, DropTaskType, DropTaskSame, Zenon
  <2> HIDE DEF d
  <2>5. t \in FsmStates
    BY <2>4, Zenon DEF FsmStates
  <2>6. /\ SameMessages(d, t) /\ t.exec_state = d.exec_state /\ t.have_odom = FALSE
        /\ t.reference_path_active = d.reference_path_active
        /\ t.preset_started = d.preset_started /\ t.navi_mode = d.navi_mode
        /\ t.task = d.task /\ t.pending_path = d.pending_path
        /\ t.task_revision = d.task_revision
    BY <2>4, SMT DEF FsmStates, SameMessages
  <2> HIDE DEF t
  <2>7. Routed(t) /\ Ended(t) /\ Posed(t)
    BY <2>2, <2>4, <2>6, Zenon DEF Routed, Ended, Posed
  <2>8. Right(b, t)
    BY <2>3, <2>5, <2>6, <2>7, RightEdit, Zenon
  <2>9. t.task = fsm.task
    BY <2>1, <2>4, <2>6, Zenon DEF SameTask
  <2>10. Revised(fsm, t)
    <3>1. CASE fsm.reference_path_active
      <4>1. fsm.have_odom
        BY <3>1, Zenon DEF TaskInv, Tasked, Posed
      <4> QED
        BY <2>1, <2>4, <2>6, <4>1, Zenon DEF SameRevision, Revised
    <3>2. CASE ~fsm.reference_path_active
      BY <2>9, <3>2, KeptTask, Zenon
    <3> QED
      BY <3>1, <3>2
  <2> QED
    BY <1>3, <2>8, <2>10
<1> QED
  BY <1>1, <1>2, <1>3

LEMMA OdomTimeoutRight ==
  ASSUME TaskInv, ExecOdomTimeout
  PROVE  Right(fsm.bspline, fsm') /\ Revised(fsm, fsm')
<1> DEFINE b == fsm.bspline
           s == PublishTrajectoryClear(AdvanceTaskRevision(Idle))
           outcome == IF s.reference_path_active /\ s.route_outcome = "NONE"
                      THEN "LOCALIZATION_LOST" ELSE s.route_outcome
           t == [s EXCEPT !.odom_timeout_active = TRUE, !.have_odom = FALSE,
                          !.route_outcome = outcome]
           d == DropTask(t)
<1>1. ~fsm.odom_timeout_active
  BY Zenon DEF ExecOdomTimeout, TaskInv, IInv, Good, Located
<1>2. fsm' = d
  BY <1>1, Zenon DEF ExecOdomTimeout
<1>3. /\ s \in FsmStates /\ Sent(b, s) /\ SameTask(fsm, s)
      /\ s.task_revision = (fsm.task_revision + 1) % RevModulus
  BY ClearedIdle, Zenon
<1> HIDE DEF s
<1>4. outcome \in Outcomes
  BY <1>3 DEF FsmStates, Outcomes
<1>5. Posed(s)
  BY <1>3, TaskSame, Zenon DEF TaskInv, Tasked
<1> HIDE DEF outcome
<1>6. t \in FsmStates
  BY <1>3, <1>4, Zenon DEF FsmStates
<1>7. /\ SameMessages(s, t) /\ t.have_odom = FALSE /\ t.navi_mode = s.navi_mode
      /\ t.task = s.task /\ t.pending_path = s.pending_path
      /\ t.task_revision = s.task_revision
  BY <1>3, SMT DEF FsmStates, SameMessages
<1> HIDE DEF t
<1>8. Sent(b, t)
  BY <1>3, <1>7, SentSame, Zenon
<1>9. Right(b, d)
  BY <1>5, <1>6, <1>7, <1>8, DroppedRight, Zenon DEF Posed
<1>10. d.task_revision = (fsm.task_revision + 1) % RevModulus
  BY <1>3, <1>6, <1>7, DropTaskSame, Zenon DEF SameRevision
<1> QED
  BY <1>2, <1>9, <1>10, Zenon DEF Revised

(* A change of state followed by the count of failures.                    *)
LEMMA RightChangeFinish ==
  ASSUME NEW b, NEW s, Steady(b, s), NEW new \in ExecStates, new # "EXEC_TRAJ",
         s.exec_state # "EMERGENCY_STOP" \/ ~s.need_hover_stop \/ ~s.reference_path_active
  PROVE  LET t == FinishProcess(ChangeFSMExecState(s, new))
         IN  /\ Right(b, t) /\ t.task = s.task
             /\ t.reference_path_active = s.reference_path_active
<1> DEFINE u == ChangeFSMExecState(s, new)
<1>1. Right(b, u) /\ SameTask(s, u)
  BY SteadyChange, Zenon
<1> HIDE DEF u
<1>2. LET t == FinishProcess(u)
      IN  Right(b, t) /\ t.task = u.task /\ t.reference_path_active = u.reference_path_active
  BY <1>1, RightFinish, Zenon
<1> QED
  BY <1>1, <1>2, Zenon DEF SameTask, u

LEMMA PlanningTimerRight ==
  ASSUME TaskInv, \/ ExecInit \/ ExecWaitTarget \/ ExecGenNewTraj \/ ExecReplanTraj
                  \/ ExecRouteContinue \/ ExecReplanDue \/ ExecEmergencyRecover
  PROVE  Right(fsm.bspline, fsm') /\ Revised(fsm, fsm')
<1> DEFINE b == fsm.bspline
<1>0. /\ Right(b, Idle) /\ Idle \in FsmStates /\ SameTask(fsm, Idle)
      /\ Idle.exec_state = fsm.exec_state
  BY IdleRight
<1>a. /\ {"WAIT_TARGET", "GEN_NEW_TRAJ", "REPLAN_TRAJ"} \subseteq ExecStates
      /\ "EXEC_TRAJ" \notin {"WAIT_TARGET", "GEN_NEW_TRAJ", "REPLAN_TRAJ"}
      /\ "EMERGENCY_STOP" \notin {"INIT", "WAIT_TARGET", "GEN_NEW_TRAJ", "REPLAN_TRAJ", "EXEC_TRAJ"}
  BY DEF ExecStates
<1>b. Steady(b, Idle) /\ Idle.task = fsm.task /\ Idle.need_hover_stop = fsm.need_hover_stop
      /\ Idle.reference_path_active = fsm.reference_path_active
  BY <1>0, Zenon DEF Right, SameTask
<1>c. ASSUME NEW t, Right(b, t), t.task = Idle.task,
             t.reference_path_active = Idle.reference_path_active
      PROVE  Right(b, t) /\ Revised(fsm, t)
  BY <1>b, <1>c, KeptTask, Zenon
<1>d. ASSUME NEW new \in {"WAIT_TARGET", "GEN_NEW_TRAJ", "REPLAN_TRAJ"},
             Idle.exec_state # "EMERGENCY_STOP" \/ ~Idle.need_hover_stop
      PROVE  LET t == FinishProcess(ChangeFSMExecState(Idle, new))
             IN  Right(b, t) /\ Revised(fsm, t)
  <2> DEFINE t == FinishProcess(ChangeFSMExecState(Idle, new))
  <2>1. new \in ExecStates /\ new # "EXEC_TRAJ"
    BY <1>a, Zenon
  <2>2. /\ Right(b, t) /\ t.task = Idle.task
        /\ t.reference_path_active = Idle.reference_path_active
    BY <1>b, <1>d, <2>1, RightChangeFinish, Zenon
  <2> HIDE DEF t
  <2>3. Right(b, t) /\ Revised(fsm, t)
    BY <1>c, <2>2, Zenon
  <2> QED
    BY <2>3, Zenon DEF t
<1>e. ASSUME NEW s, Right(b, s), SameTask(Idle, s)
      PROVE  Right(b, FinishProcess(s)) /\ Revised(fsm, FinishProcess(s))
  <2> DEFINE t == FinishProcess(s)
  <2>1. /\ Right(b, t) /\ t.task = s.task
        /\ t.reference_path_active = s.reference_path_active
    BY <1>e, RightFinish, Zenon
  <2> HIDE DEF t
  <2>2. Right(b, t) /\ Revised(fsm, t)
    BY <1>c, <1>e, <2>1, Zenon DEF SameTask
  <2> QED
    BY <2>2, Zenon DEF t
<1>1. CASE ExecInit
  <2>1. Idle.exec_state # "EMERGENCY_STOP"
    BY <1>0, <1>1, <1>a, Zenon DEF ExecInit, ExecIn
  <2> QED
    BY <1>1, <1>d, <2>1, Zenon DEF ExecInit
<1>2. CASE ExecWaitTarget
  <2>1. Idle.exec_state # "EMERGENCY_STOP"
    BY <1>0, <1>2, <1>a, Zenon DEF ExecWaitTarget, ExecIn
  <2> QED
    BY <1>2, <1>d, <2>1, Zenon DEF ExecWaitTarget
<1>3. CASE ExecReplanDue
  <2>1. Idle.exec_state # "EMERGENCY_STOP"
    BY <1>0, <1>3, <1>a, Zenon DEF ExecReplanDue, Following, ExecIn
  <2> QED
    BY <1>3, <1>d, <2>1, Zenon DEF ExecReplanDue
<1>4. CASE ExecEmergencyRecover
  <2>1. ~Idle.need_hover_stop
    BY <1>4, <1>b, Zenon DEF ExecEmergencyRecover
  <2> QED
    BY <1>4, <1>d, <2>1, Zenon DEF ExecEmergencyRecover
<1>5. CASE ExecRouteContinue
  <2> DEFINE t == ChangeFSMExecState(Idle, "GEN_NEW_TRAJ")
  <2>1. Idle.exec_state # "EMERGENCY_STOP" /\ fsm' = t
    BY <1>0, <1>5, <1>a, Zenon DEF ExecRouteContinue, Following, ExecIn
  <2>2. "GEN_NEW_TRAJ" \in ExecStates /\ "GEN_NEW_TRAJ" # "EXEC_TRAJ"
    BY <1>a
  <2>3. Right(b, t) /\ SameTask(Idle, t)
    BY <1>b, <2>1, <2>2, SteadyChange, Zenon
  <2> HIDE DEF t
  <2> QED
    BY <1>c, <2>1, <2>3, Zenon DEF SameTask
<1>6. CASE ExecReplanTraj
  <2>1. PICK r \in ReplanOutcomes(Idle) : fsm' = FinishProcess(Planned(r))
    BY <1>6, Zenon DEF ExecReplanTraj
  <2>2. Idle.exec_state \in {"GEN_NEW_TRAJ", "REPLAN_TRAJ"}
        /\ r \in ReboundOutcomes(Idle) \cup ReplanOutcomes(Idle)
    BY <1>0, <1>6, Zenon DEF ExecReplanTraj, ExecIn
  <2>3. Right(b, Planned(r)) /\ SameTask(Idle, Planned(r))
    BY <1>0, <2>2, RightPlanned, Zenon
  <2> QED
    BY <1>e, <2>1, <2>3, Zenon
<1>7. CASE ExecGenNewTraj
  <2>1. PICK r \in ReboundOutcomes(Idle) :
          fsm' = FinishProcess([Planned(r) EXCEPT !.flag_escape_emergency = @ \/ r.ok])
    BY <1>7, Zenon DEF ExecGenNewTraj
  <2> DEFINE p == Planned(r)
             flag == p.flag_escape_emergency \/ r.ok
             q == [p EXCEPT !.flag_escape_emergency = flag]
  <2>2. Idle.exec_state \in {"GEN_NEW_TRAJ", "REPLAN_TRAJ"}
        /\ r \in ReboundOutcomes(Idle) \cup ReplanOutcomes(Idle)
    BY <1>0, <1>7, Zenon DEF ExecGenNewTraj, ExecIn
  <2>3. Right(b, p) /\ SameTask(Idle, p)
    BY <1>0, <2>2, RightPlanned, Zenon
  <2>4. fsm' = FinishProcess(q)
    BY <2>1, Zenon
  <2> HIDE DEF p
  <2>5. flag \in BOOLEAN /\ p \in FsmStates
    BY <2>3, Zenon DEF Right, Steady
  <2> HIDE DEF flag
  <2>6. q \in FsmStates
    BY <2>5, Zenon DEF FsmStates
  <2>7. SameTask(p, q) /\ SameMessages(p, q) /\ q.exec_state = p.exec_state
    BY <2>5, SMT DEF FsmStates, SameTask, SameMessages
  <2> HIDE DEF q
  <2>8. Right(b, q) /\ SameTask(Idle, q)
    BY <2>3, <2>6, <2>7, RightSame, SameTaskTwice, Zenon
  <2> QED
    BY <1>e, <2>4, <2>8, Zenon
<1> QED
  BY <1>1, <1>2, <1>3, <1>4, <1>5, <1>6, <1>7

LEMMA EndingTimerRight ==
  ASSUME TaskInv, \/ ExecCancel \/ ExecNextWaypoint \/ ExecRouteDone \/ ExecTaskDone
                  \/ ExecEmergencyExit
  PROVE  Right(fsm.bspline, fsm') /\ Revised(fsm, fsm')
<1> DEFINE b == fsm.bspline
<1>0. /\ Right(b, Idle) /\ Idle \in FsmStates /\ SameTask(fsm, Idle) /\ SameRevision(fsm, Idle)
      /\ Idle.exec_state = fsm.exec_state
  BY IdleRight
<1>a. /\ {"WAIT_TARGET", "GEN_NEW_TRAJ", "REPLAN_TRAJ"} \subseteq ExecStates
      /\ "EXEC_TRAJ" \notin {"WAIT_TARGET", "GEN_NEW_TRAJ", "REPLAN_TRAJ"}
      /\ "EXEC_TRAJ" # "EMERGENCY_STOP" /\ REFERENCE_PATH # PRESET_TARGET
      /\ Here \in Targets
  BY DEF ExecStates, REFERENCE_PATH, PRESET_TARGET, Targets
<1>b. /\ Idle.task = fsm.task /\ Idle.reference_path_active = fsm.reference_path_active
      /\ Idle.navi_mode = fsm.navi_mode /\ Idle.task_revision = fsm.task_revision
  BY <1>0, Zenon DEF SameTask, SameRevision
(* An edit that leaves no route.                                           *)
<1>c. ASSUME NEW x \in FsmStates, SameMessages(Idle, x), x.exec_state = Idle.exec_state,
             ~x.reference_path_active, x.navi_mode = Idle.navi_mode, x.task = Idle.task,
             x.have_odom = Idle.have_odom, x.pending_path = Idle.pending_path,
             x.preset_started = Idle.preset_started
      PROVE  Right(b, x)
  <2>1. Routed(x) /\ Ended(x) /\ Posed(x)
    BY <1>0, <1>c, Zenon DEF Routed, Ended, Posed, Right, Steady
  <2> QED
    BY <1>0, <1>c, <2>1, RightEdit, Zenon
<1>1. CASE ExecCancel
  <2> DEFINE x == [Idle EXCEPT !.cancel_pending = FALSE, !.end_pt = Here, !.have_target = TRUE,
                               !.reference_path_active = FALSE, !.trigger = TRUE]
             t == ChangeFSMExecState(x, "REPLAN_TRAJ")
  <2>1. fsm' = t /\ fsm.cancel_pending /\ Idle.exec_state = "EXEC_TRAJ"
    BY <1>0, <1>1, Zenon DEF ExecCancel, ExecIn
  <2>2. x \in FsmStates
    BY <1>0, <1>a, ZenonT(30) DEF FsmStates
  <2>3. /\ SameMessages(Idle, x) /\ x.exec_state = Idle.exec_state
        /\ ~x.reference_path_active /\ x.navi_mode = Idle.navi_mode /\ x.task = Idle.task
        /\ x.have_odom = Idle.have_odom /\ x.pending_path = Idle.pending_path
        /\ x.preset_started = Idle.preset_started
    BY <1>0, SMT DEF FsmStates, SameMessages
  <2> HIDE DEF x
  <2>4. Right(b, x)
    BY <1>c, <2>2, <2>3, Zenon
  <2>5. "REPLAN_TRAJ" \in ExecStates /\ "REPLAN_TRAJ" # "EXEC_TRAJ"
    BY <1>a
  <2>6. Right(b, t) /\ SameTask(x, t)
    BY <2>3, <2>4, <2>5, SteadyChange, Zenon DEF Right
  <2> HIDE DEF t
  <2>7. Revised(fsm, t)
    BY <1>b, <2>1, <2>3, <2>6, Zenon DEF SameTask, Revised, TakenOver
  <2> QED
    BY <2>1, <2>6, <2>7
<1>2. CASE ExecNextWaypoint
  <2> DEFINE w == Idle.current_wp + 1
             s == [Idle EXCEPT !.current_wp = w]
  <2>1. PICK r \in NextWaypointOutcomes(s) :
          fsm' = ChangeFSMExecState(
                   IF r.ok THEN r.st ELSE [r.st EXCEPT !.replan_fail_count = @ + 1],
                   "GEN_NEW_TRAJ")
    BY <1>2, Zenon DEF ExecNextWaypoint
  <2>2. w \in 0..NumWaypoints
    BY <1>2, FsmAssumption
       DEF ExecNextWaypoint, MoreWaypoints, Idle, TaskInv, IInv, TypeOK, FsmStates
  <2>3. ~Idle.reference_path_active
    BY <1>2, <1>a, <1>b, Zenon
       DEF ExecNextWaypoint, MoreWaypoints, TaskInv, Tasked, Routed
  <2> HIDE DEF w
  <2> DEFINE Free(x) ==
        /\ SameMessages(Idle, x) /\ x.exec_state = Idle.exec_state
        /\ ~x.reference_path_active /\ x.navi_mode = Idle.navi_mode /\ x.task = Idle.task
        /\ x.have_odom = Idle.have_odom /\ x.pending_path = Idle.pending_path
        /\ x.preset_started = Idle.preset_started
  <2>4. s \in FsmStates
    BY <1>0, <2>2, Zenon DEF FsmStates
  <2>5. Free(s)
    BY <1>0, <2>3, SMT DEF FsmStates, SameMessages
  <2> HIDE DEF s
  <2> DEFINE a == [s EXCEPT !.end_pt = Preset]
             k == [a EXCEPT !.have_target = TRUE]
             x == r.st
  <2>6. x \in FsmStates /\ (x = a \/ x = k)
    BY <2>4, NextWaypointType, NextWaypointCases, Zenon
  <2>7. Free(x)
    <3> HIDE DEF x
    <3>1. CASE x = a
      BY <2>4, <2>5, <3>1, SMT DEF FsmStates, SameMessages
    <3>2. CASE x = k
      BY <2>4, <2>5, <3>2, SMT DEF FsmStates, SameMessages
    <3> QED
      BY <2>6, <3>1, <3>2
  <2> HIDE DEF x
  <2>8. Right(b, x)
    BY <1>c, <2>6, <2>7, Zenon
  <2> DEFINE n == x.replan_fail_count + 1
             v == [x EXCEPT !.replan_fail_count = n]
             y == IF r.ok THEN x ELSE v
  <2>9. n \in Nat
    BY <2>6 DEF FsmStates
  <2> HIDE DEF n
  <2>10. Steady(b, v) /\ SameTask(x, v) /\ v.exec_state = x.exec_state
    BY <2>8, <2>9, CountSame, Zenon DEF Right
  <2>11. fsm' = ChangeFSMExecState(y, "GEN_NEW_TRAJ")
    BY <2>1, Zenon DEF x, n
  <2> HIDE DEF v
  <2>12. Steady(b, y) /\ ~y.reference_path_active /\ y.task = Idle.task
    BY <2>7, <2>8, <2>10, Zenon DEF SameTask, Right
  <2> HIDE DEF y
  <2>13. "GEN_NEW_TRAJ" \in ExecStates /\ "GEN_NEW_TRAJ" # "EXEC_TRAJ"
    BY <1>a
  <2>14. Right(b, fsm') /\ SameTask(y, fsm')
    BY <2>11, <2>12, <2>13, SteadyChange, Zenon
  <2>15. fsm'.task = fsm.task /\ ~fsm.reference_path_active
    BY <1>b, <2>3, <2>12, <2>14, Zenon DEF SameTask
  <2> QED
    BY <2>14, <2>15, KeptTask, Zenon
<1>3. CASE ExecRouteDone \/ ExecTaskDone
  <2> DEFINE a == IF fsm.navi_mode = PRESET_TARGET THEN 0 ELSE Idle.active_waypoints
             w == IF fsm.navi_mode = PRESET_TARGET THEN 0 ELSE Idle.current_wp
             d == [Idle EXCEPT !.reference_path_active = FALSE, !.have_target = FALSE,
                               !.route_outcome = "SUCCEEDED", !.mission = NoMission]
             e == [Idle EXCEPT !.active_waypoints = a, !.current_wp = w,
                               !.have_target = FALSE, !.mission = NoMission]
             Ends(x) == ChangeFSMExecState(AdvanceTaskRevision(x), "WAIT_TARGET")
  <2>1. ASSUME NEW x, Right(b, x), x.exec_state = Idle.exec_state,
               x.task_revision = fsm.task_revision, Idle.exec_state = "EXEC_TRAJ"
        PROVE  Right(b, Ends(x)) /\ Revised(fsm, Ends(x))
    <3> DEFINE v == AdvanceTaskRevision(x)
               t == ChangeFSMExecState(v, "WAIT_TARGET")
    <3>1. /\ Right(b, v) /\ v.exec_state = x.exec_state
          /\ v.task_revision = (fsm.task_revision + 1) % RevModulus
      BY <2>1, RightAdvance, Zenon
    <3> HIDE DEF v
    <3>2. "WAIT_TARGET" \in ExecStates /\ "WAIT_TARGET" # "EXEC_TRAJ"
      BY <1>a
    <3>3. Right(b, t) /\ SameRevision(v, t)
      BY <1>a, <2>1, <3>1, <3>2, SteadyChange, Zenon DEF Right
    <3> HIDE DEF t
    <3>4. Revised(fsm, t)
      BY <3>1, <3>3, Zenon DEF SameRevision, Revised
    <3> QED
      BY <3>3, <3>4, Zenon DEF t, v
  <2>2. Idle.exec_state = "EXEC_TRAJ"
    BY <1>0, <1>3, Zenon DEF ExecRouteDone, ExecTaskDone, Following, ExecIn
  <2>3. CASE ExecRouteDone
    <3>1. fsm' = Ends(d)
      BY <2>3, Zenon DEF ExecRouteDone
    <3> HIDE DEF Ends
    <3>2. d \in FsmStates
      BY <1>0, ZenonT(30) DEF FsmStates, Outcomes
    <3>3. /\ SameMessages(Idle, d) /\ d.exec_state = Idle.exec_state
          /\ ~d.reference_path_active /\ d.navi_mode = Idle.navi_mode /\ d.task = Idle.task
          /\ d.have_odom = Idle.have_odom /\ d.pending_path = Idle.pending_path
          /\ d.preset_started = Idle.preset_started /\ d.task_revision = Idle.task_revision
      BY <1>0, SMT DEF FsmStates, SameMessages
    <3> HIDE DEF d
    <3>4. Right(b, d)
      BY <1>c, <3>2, <3>3, Zenon
    <3> QED
      BY <1>b, <2>1, <2>2, <3>1, <3>3, <3>4, Zenon
  <2>4. CASE ExecTaskDone
    <3>1. fsm' = Ends(e)
      BY <2>4, Zenon DEF ExecTaskDone
    <3> HIDE DEF Ends
    <3>2. ~Idle.reference_path_active
      BY <1>b, <2>4, Zenon DEF ExecTaskDone, OnRoute, TaskInv, Tasked, Routed
    <3>3. a \in 0..NumWaypoints /\ w \in 0..NumWaypoints
      BY <1>0, FsmAssumption DEF FsmStates
    <3> HIDE DEF a, w
    <3>4. e \in FsmStates
      BY <1>0, <3>3, ZenonT(30) DEF FsmStates
    <3>5. /\ SameMessages(Idle, e) /\ e.exec_state = Idle.exec_state
          /\ ~e.reference_path_active /\ e.navi_mode = Idle.navi_mode /\ e.task = Idle.task
          /\ e.have_odom = Idle.have_odom /\ e.pending_path = Idle.pending_path
          /\ e.preset_started = Idle.preset_started /\ e.task_revision = Idle.task_revision
      BY <1>0, <3>2, SMT DEF FsmStates, SameMessages
    <3> HIDE DEF e
    <3>6. Right(b, e)
      BY <1>c, <3>4, <3>5, Zenon
    <3> QED
      BY <1>b, <2>1, <2>2, <3>1, <3>5, <3>6, Zenon
  <2> QED
    BY <1>3, <2>3, <2>4
<1>4. CASE ExecEmergencyExit
  <2> DEFINE x == [Idle EXCEPT !.need_hover_stop = FALSE, !.have_target = FALSE,
                               !.trigger = FALSE, !.reference_path_active = FALSE]
             t == FinishProcess(ChangeFSMExecState(x, "WAIT_TARGET"))
  <2>1. fsm' = t /\ fsm.exec_state = "EMERGENCY_STOP"
    BY <1>4, Zenon DEF ExecEmergencyExit, ExecIn
  <2>2. x \in FsmStates
    BY <1>0, ZenonT(30) DEF FsmStates
  <2>3. /\ SameMessages(Idle, x) /\ x.exec_state = Idle.exec_state
        /\ ~x.reference_path_active /\ x.navi_mode = Idle.navi_mode /\ x.task = Idle.task
        /\ x.have_odom = Idle.have_odom /\ x.pending_path = Idle.pending_path
        /\ x.preset_started = Idle.preset_started
    BY <1>0, SMT DEF FsmStates, SameMessages
  <2> HIDE DEF x
  <2>4. Right(b, x)
    BY <1>c, <2>2, <2>3, Zenon
  <2>5. "WAIT_TARGET" \in ExecStates /\ "WAIT_TARGET" # "EXEC_TRAJ"
    BY <1>a
  <2>6. /\ Right(b, t) /\ t.task = x.task
    BY <2>3, <2>4, <2>5, RightChangeFinish, Zenon DEF Right
  <2> HIDE DEF t
  <2>7. Revised(fsm, t)
    BY <1>b, <2>1, <2>3, <2>6, Zenon DEF Revised, TakenOver
  <2> QED
    BY <2>1, <2>6, <2>7
<1> QED
  BY <1>1, <1>2, <1>3, <1>4

LEMMA StoppingTimerRight ==
  ASSUME TaskInv, ExecEmergencyHold \/ SafetyStop \/ SafetyReplan \/ HeartbeatTimer
  PROVE  Right(fsm.bspline, fsm') /\ Revised(fsm, fsm')
<1> DEFINE b == fsm.bspline
<1>0. /\ Right(b, Idle) /\ Idle \in FsmStates /\ SameTask(fsm, Idle)
      /\ Idle.exec_state = fsm.exec_state
  BY IdleRight
<1>a. ASSUME NEW t, Right(b, t), t.task = Idle.task,
             t.reference_path_active = Idle.reference_path_active
      PROVE  Right(b, t) /\ Revised(fsm, t)
  BY <1>0, <1>a, KeptTask, Zenon DEF SameTask
<1>b. /\ {"EXEC_TRAJ", "REPLAN_TRAJ", "EMERGENCY_STOP"} \subseteq ExecStates
      /\ "EMERGENCY_STOP" \notin Moving
      /\ "EXEC_TRAJ" \notin {"REPLAN_TRAJ", "EMERGENCY_STOP"}
  BY DEF ExecStates, Moving
<1>1. CASE ExecEmergencyHold
  <2> DEFINE h == CallEmergencyStop(Idle)
             q == [h EXCEPT !.flag_escape_emergency = FALSE]
             t == FinishProcess(q)
  <2>1. fsm' = t /\ Idle.exec_state = "EMERGENCY_STOP"
    BY <1>0, <1>1, Zenon DEF ExecEmergencyHold, ExecIn
  <2>2. h \in FsmStates /\ SameTask(Idle, h) /\ h.exec_state = Idle.exec_state
    BY <1>0, HoldType, HoldSame, Zenon
  <2>3. Sent(b, h)
    BY <1>0, SentHold, Zenon DEF Right, Steady, Sent
  <2> HIDE DEF h
  <2>4. q \in FsmStates
    BY <2>2, Zenon DEF FsmStates
  <2>5. SameTask(h, q) /\ SameMessages(h, q) /\ q.exec_state = h.exec_state
    BY <2>2, SMT DEF FsmStates, SameTask, SameMessages
  <2> HIDE DEF q
  <2>6. SameTask(Idle, q) /\ Sent(b, q) /\ q.exec_state = "EMERGENCY_STOP"
    BY <2>1, <2>2, <2>3, <2>5, SameTaskTwice, SentSame, Zenon
  <2>7. Routed(q) /\ Posed(q) /\ Ended(q)
    BY <1>0, <2>1, <2>6, TaskSame, Zenon DEF Right, Steady
  <2>8. Executed(q)
    BY <1>b, <2>6, Zenon DEF Executed
  <2>9. Right(b, q)
    BY <2>4, <2>6, <2>7, <2>8, Zenon DEF Right, Steady
  <2>10. /\ Right(b, t) /\ t.task = q.task
         /\ t.reference_path_active = q.reference_path_active
    BY <2>9, RightFinish, Zenon
  <2> HIDE DEF t
  <2> QED
    BY <1>a, <2>1, <2>6, <2>10, Zenon DEF SameTask
<1>2. CASE SafetyStop
  <2> DEFINE t == ChangeFSMExecState(Idle, "EMERGENCY_STOP")
  <2>1. fsm' = t /\ Idle.exec_state # "EMERGENCY_STOP"
    BY <1>0, <1>2, <1>b, Zenon DEF SafetyStop, SafetyChecks
  <2>2. "EMERGENCY_STOP" \in ExecStates /\ "EMERGENCY_STOP" # "EXEC_TRAJ"
    BY <1>b
  <2>3. Right(b, t) /\ SameTask(Idle, t)
    BY <1>0, <2>1, <2>2, SteadyChange, Zenon DEF Right
  <2> HIDE DEF t
  <2> QED
    BY <1>a, <2>1, <2>3, Zenon DEF SameTask
<1>3. CASE SafetyReplan
  <2>1. PICK r \in ReplanOutcomes(Idle) :
          fsm' = ChangeFSMExecState(r.st, IF r.ok THEN "EXEC_TRAJ" ELSE "REPLAN_TRAJ")
    BY <1>3, Zenon DEF SafetyReplan
  <2> DEFINE x == r.st
             new == IF r.ok THEN "EXEC_TRAJ" ELSE "REPLAN_TRAJ"
  <2>2. Idle.exec_state # "EMERGENCY_STOP" /\ r \in ReboundOutcomes(Idle) \cup ReplanOutcomes(Idle)
    BY <1>0, <1>3, <1>b, Zenon DEF SafetyReplan, SafetyChecks
  <2>3. /\ Steady(b, x) /\ SameTask(Idle, x) /\ x.exec_state = Idle.exec_state
        /\ r.ok => x.progress_id = x.traj_id
    BY <1>0, <2>2, SteadyPlanning, Zenon
  <2> HIDE DEF x
  <2>4. new \in ExecStates /\ (new = "EXEC_TRAJ" => r.ok)
    BY <1>b
  <2> HIDE DEF new
  <2>5. Right(b, ChangeFSMExecState(x, new)) /\ SameTask(x, ChangeFSMExecState(x, new))
    BY <2>2, <2>3, <2>4, SteadyChange, Zenon
  <2>6. fsm' = ChangeFSMExecState(x, new)
    BY <2>1, Zenon DEF x, new
  <2> QED
    BY <1>a, <2>3, <2>5, <2>6, Zenon DEF SameTask
<1>4. CASE HeartbeatTimer
  <2> DEFINE t == PublishPlannerHeartbeat(Idle)
  <2>1. fsm' = t
    BY <1>4 DEF HeartbeatTimer
  <2>2. t \in FsmStates /\ SameTask(Idle, t) /\ t.exec_state = Idle.exec_state
    BY <1>0, HeartbeatType, HeartbeatSame, Zenon
  <2>3. Sent(b, t)
    BY <1>0, SentHeartbeat, Zenon DEF Right, Steady
  <2>4. t.progress_id = Idle.progress_id /\ t.traj_id = Idle.traj_id
    BY <1>0, SMT DEF FsmStates, PublishPlannerHeartbeat
  <2> HIDE DEF t
  <2>5. Routed(t) /\ Posed(t) /\ Ended(t) /\ Executed(t)
    BY <1>0, <2>2, <2>4, TaskSame, Zenon DEF Right, Steady, Executed
  <2>6. Right(b, t)
    BY <2>2, <2>3, <2>5, Zenon DEF Right, Steady
  <2> QED
    BY <1>a, <2>1, <2>2, <2>6, Zenon DEF SameTask
<1> QED
  BY <1>1, <1>2, <1>3, <1>4

LEMMA ServerCallsRight ==
  ASSUME TaskInv, ServerCalls
  PROVE  Right(fsm.bspline, fsm') /\ Revised(fsm, fsm')
<1> DEFINE b == fsm.bspline
<1>0. /\ Right(b, Idle) /\ Idle \in FsmStates /\ SameTask(fsm, Idle) /\ SameRevision(fsm, Idle)
  BY IdleRight
<1>1. ASSUME NEW s, Right(b, s), SameTask(fsm, s), NEW c \in BOOLEAN
      PROVE  LET t == [s EXCEPT !.cancel_pending = c]
             IN  Right(b, t) /\ Revised(fsm, t)
  <2> DEFINE t == [s EXCEPT !.cancel_pending = c]
  <2>0. s \in FsmStates
    BY <1>1 DEF Right, Steady
  <2>1. t \in FsmStates
    BY <2>0, Zenon DEF FsmStates
  <2>2. /\ SameMessages(s, t) /\ t.exec_state = s.exec_state
        /\ t.navi_mode = s.navi_mode /\ t.trigger = s.trigger /\ t.have_target = s.have_target
        /\ t.preset_started = s.preset_started /\ t.pending_path = s.pending_path
        /\ t.need_hover_stop = s.need_hover_stop
        /\ t.reference_path_active = s.reference_path_active
        /\ t.route_outcome = s.route_outcome /\ t.end_pt = s.end_pt /\ t.task = s.task
        /\ t.have_odom = s.have_odom
    BY <2>0, SMT DEF FsmStates, SameMessages
  <2> HIDE DEF t
  <2>3. Routed(t) /\ Ended(t) /\ Posed(t)
    BY <1>1, <2>2, Zenon DEF Right, Steady, Routed, Ended, Posed
  <2>4. Right(b, t)
    BY <1>1, <2>1, <2>2, <2>3, RightEdit, Zenon
  <2>5. Revised(fsm, t)
    BY <1>1, <2>2, KeptTask, Zenon DEF SameTask
  <2> QED
    BY <2>4, <2>5, Zenon DEF t
<1>2. CASE StartCall
  <2>0. PICK r \in Tasks, m \in Missions : \E o \in RouteOutcomes(Idle, r, m) : fsm' = o.st
    BY <1>2, Zenon DEF StartCall
  <2>1. PICK o \in RouteOutcomes(Idle, r, m) : fsm' = o.st
    BY <2>0, Zenon
  <2>2. Idle.navi_mode = REFERENCE_PATH /\ Idle.have_odom /\ m \in Missions \cup {NoMission}
    BY <1>0, <1>2, Zenon DEF StartCall, SameTask
  <2>3. Right(b, o.st)
    BY <1>0, <2>2, RightRoute
  <2>4. o.st.task_revision = (Idle.task_revision + 1) % RevModulus
    BY <1>0, <2>2, RightRoute
  <2> QED
    BY <1>0, <2>1, <2>3, <2>4, Zenon DEF Revised, SameRevision
<1>3. CASE CancelCall
  <2> DEFINE v == AdvanceTaskRevision(Idle)
  <2>1. fsm' = Idle \/ fsm' = [v EXCEPT !.cancel_pending = TRUE]
    BY <1>3, Zenon DEF CancelCall, CancelFollowRoute
  <2>2. Right(b, v) /\ SameTask(fsm, v)
    BY <1>0, RightAdvance, SameTaskTwice, Zenon
  <2> HIDE DEF v
  <2>3. /\ Right(b, [v EXCEPT !.cancel_pending = TRUE])
        /\ Revised(fsm, [v EXCEPT !.cancel_pending = TRUE])
    BY <1>1, <2>2, Zenon
  <2>4. Revised(fsm, Idle)
    BY <1>0, KeptTask, Zenon DEF SameTask
  <2> QED
    BY <1>0, <2>1, <2>3, <2>4, Zenon
<1>4. CASE ResetCall
  BY <1>0, <1>1, <1>4, Zenon DEF ResetCall, ResetFollowRouteCancel
<1> QED
  BY <1>2, <1>3, <1>4, Zenon DEF ServerCalls

LEMMA StepRight ==
  ASSUME TaskInv, Next  PROVE  Right(fsm.bspline, fsm') /\ Revised(fsm, fsm')
<1>1. CASE Subscriptions
  BY <1>1, WaypointRight, PathRight, OdometryRight, TfReadyRight, Zenon DEF Subscriptions
<1>2. CASE ExecFSMCallback
  BY <1>2, OdomTimeoutRight, PlanningTimerRight, EndingTimerRight, StoppingTimerRight, Zenon
     DEF ExecFSMCallback
<1>3. CASE CheckCollisionCallback \/ HeartbeatTimer
  BY <1>3, StoppingTimerRight, Zenon DEF CheckCollisionCallback
<1>4. CASE ServerCalls
  BY <1>4, ServerCallsRight, Zenon
<1> QED
  BY <1>1, <1>2, <1>3, <1>4, Zenon DEF Next, Callbacks

LEMMA InitTasked == Init => Tasked(fsm)
<1> SUFFICES ASSUME NEW mode \in NaviModes, fsm = InitState(mode)  PROVE Tasked(fsm)
  BY Zenon DEF Init
<1>1. /\ fsm.progress_id = NoTraj /\ fsm.exec_state = "INIT"
      /\ fsm.reference_path_active = FALSE /\ fsm.have_odom = FALSE
      /\ fsm.preset_started = FALSE /\ fsm.pending_path = NoTask
  BY SMT DEF InitState
<1>2. "INIT" # "EXEC_TRAJ"
  OBVIOUS
<1> QED
  BY <1>1, <1>2, Zenon DEF Tasked, Linked, Executed, Routed, Ended, Posed

(* The task, the route and the progress hold together over every callback: *)
(* each part needs the others, since which callback may touch a task is    *)
(* decided by the mode, the pose and the state.                            *)
THEOREM TasksInductive == Spec => []TaskInv
<1>1. Init => TaskInv
  BY InitType, InitGood, InitTasked DEF TaskInv, IInv
<1>2. TaskInv /\ IInv' /\ [Next]_fsm => TaskInv'
  <2> SUFFICES ASSUME TaskInv, IInv', [Next]_fsm  PROVE TaskInv'
    OBVIOUS
  <2>1. CASE Next
    <3>1. Right(fsm.bspline, fsm')
      BY <2>1, StepRight
    <3>2. Tasked(fsm)'
      BY <3>1, Zenon DEF Right, Steady, Sent, Tasked, Linked, Executed, Routed, Ended, Posed
    <3> QED
      BY <3>2 DEF TaskInv
  <2>2. CASE UNCHANGED fsm
    <3>1. Tasked(fsm)'
      BY <2>2, Zenon DEF TaskInv, Tasked, Linked, Executed, Routed, Ended, Posed
    <3> QED
      BY <3>1 DEF TaskInv
  <2> QED
    BY <2>1, <2>2
<1> QED
  BY <1>1, <1>2, Inductive, PTL DEF Spec

(* EXEC_TRAJ never finds that its trajectory lost its spatial progress     *)
(* (the error branch of execFSMCallback is dead): progress is set before   *)
(* the state is entered, and what clears it leaves the state as well.      *)
THEOREM ProgressIsKept == Spec => []ExecKeepsProgress
<1>1. TaskInv => ExecKeepsProgress
  BY DEF TaskInv, Tasked, Executed, ExecKeepsProgress
<1> QED
  BY <1>1, TasksInductive, PTL

(* An active route has a target, the trigger and the planner's aim, until  *)
(* it ends (startFollowRoute, cancelFollowRoute, execFSMCallback).         *)
THEOREM RouteIsPursued == Spec => []ActiveRoutePursued
<1>1. TaskInv => ActiveRoutePursued
  BY DEF TaskInv, Tasked, Routed, ActiveRoutePursued
<1> QED
  BY <1>1, TasksInductive, PTL

(* A route that the failure limit has aborted is not driven again before   *)
(* the emergency stop has taken it away (finishProcess, EMERGENCY_STOP).   *)
THEOREM EndedRouteStops == Spec => []TerminalRouteNotDriven
<1>1. TaskInv => TerminalRouteNotDriven
  BY DEF TaskInv, Tasked, Ended, TerminalRouteNotDriven
<1> QED
  BY <1>1, TasksInductive, PTL

(* In the messages of every callback a grant comes after the trajectory it *)
(* grants, which is then the one that the latched topic holds              *)
(* (publishBspline, publishPlannerHeartbeat, publishTrajectoryClear).      *)
THEOREM GrantFollowsTrajectory == Spec => AuthorityFollowsBspline
<1> DEFINE Follows == \A i \in DOMAIN fsm'.out :
             fsm'.out[i].topic = "heartbeat" /\ fsm'.out[i].id # NoTraj =>
               fsm'.out[i].id = LatestBspline(fsm.bspline, fsm'.out, i)
<1>1. TaskInv /\ [Next]_fsm => [Follows]_fsm
  <2> SUFFICES ASSUME TaskInv, Next  PROVE Follows
    OBVIOUS
  <2>1. Right(fsm.bspline, fsm')
    BY StepRight
  <2>2. Told(fsm.bspline, fsm') /\ fsm' \in FsmStates
    BY <2>1, Zenon DEF Right, Steady, Sent
  <2>3. DOMAIN fsm'.out = 1..Len(fsm'.out)
    BY <2>2 DEF FsmStates
  <2> QED
    BY <2>2, <2>3, Zenon DEF Told
<1> QED
  BY <1>1, TasksInductive, PTL DEF Spec, AuthorityFollowsBspline

(* The width of task_revision_ that a takeover needs (it is 2^64).         *)
WideRevision == RevModulus > 1

(* What takes the task over, or the route away, makes every earlier        *)
(* candidate stale (advanceTaskRevision): the revision is never the one    *)
(* that a candidate under way was planned with.                            *)
THEOREM TakeoverIsRevised == ASSUME WideRevision  PROVE Spec => TakeoverAdvancesRevision
<1> DEFINE Advances ==
      (\/ fsm'.task # fsm.task
       \/ /\ fsm.reference_path_active /\ ~fsm'.reference_path_active
          /\ fsm.exec_state # "EMERGENCY_STOP" /\ ~fsm.cancel_pending)
      => fsm'.task_revision # fsm.task_revision
<1>1. TaskInv /\ [Next]_fsm => [Advances]_fsm
  <2> SUFFICES ASSUME TaskInv, Next, TakenOver(fsm, fsm')
               PROVE  fsm'.task_revision # fsm.task_revision
    BY Zenon DEF TakenOver
  <2>1. fsm'.task_revision = (fsm.task_revision + 1) % RevModulus
    BY StepRight, Zenon DEF Revised
  <2>2. fsm.task_revision \in 0..(RevModulus - 1) /\ RevModulus \in Nat /\ RevModulus > 1
    BY FsmAssumption DEF WideRevision, TaskInv, IInv, TypeOK, FsmStates
  <2>3. ASSUME NEW r \in 0..(RevModulus - 1)  PROVE (r + 1) % RevModulus # r
    <3>1. CASE r + 1 = RevModulus
      <4>1. (r + 1) % RevModulus = 0
        BY <2>2, <3>1
      <4> QED
        BY <2>2, <3>1, <4>1
    <3>2. CASE r + 1 < RevModulus
      <4>1. (r + 1) % RevModulus = r + 1
        BY <2>2, <3>2
      <4> QED
        BY <4>1
    <3> QED
      BY <2>2, <3>1, <3>2
  <2> QED
    BY <2>1, <2>2, <2>3
<1> QED
  BY <1>1, TasksInductive, PTL DEF Spec, TakeoverAdvancesRevision
=============================================================================
