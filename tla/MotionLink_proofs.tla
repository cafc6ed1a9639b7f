------------------------- MODULE MotionLink_proofs -------------------------
(***************************************************************************)
(* The link between planner and controller, for any length of the time-    *)
(* outs, any number of trajectories and any pattern of lost, late and      *)
(* overwritten messages and of crashes: every motion rests on a grant that *)
(* is recent, and a trajectory given up is never followed again.           *)
(***************************************************************************)
EXTENDS MotionLinkHistory, TLAPS

-----------------------------------------------------------------------------
(* The inductive invariant.                                                *)

SilenceOK == silence \in [1..MaxStart -> 0..(Bound + 1)]

(* How long ago a trajectory was granted, by what still speaks for it: a   *)
(* heartbeat is as old as its way, the gate as old as its heartbeat and    *)
(* the time since, and the command as old as the gate, plus the tick in    *)
(* which the timer has yet to run.                                         *)
BeatFresh ==
  \A i \in DOMAIN heartbeats :
    heartbeats[i].id # NoTraj => silence[heartbeats[i].id.start] <= heartbeats[i].age

GateFresh ==
  ctl.gate # NoTraj /\ ctl.gate_age <= HeartbeatTimeout =>
    silence[ctl.gate.start] <= MaxDelay + ctl.gate_age

CmdFresh ==
  ctl.cmd # NoTraj =>
    silence[ctl.cmd.start] <= MaxDelay + HeartbeatTimeout + IF served THEN 0 ELSE 1

Fresh == BeatFresh /\ GateFresh /\ CmdFresh

(* A latched safety stop has no trajectory.                                *)
Latched == ctl.safety_stop => ctl.traj = NoTraj

(* Start times rise from what was given up over the trajectory in use to   *)
(* those on their way, in the order of the topic, and none is later than   *)
(* the last one published.                                                 *)
Past ==
  /\ latched # NoTraj => latched.start <= last.start
  /\ ctl.traj # NoTraj => ctl.traj.start <= last.start
  /\ \A s \in dropped : /\ s <= last.start
                        /\ ctl.traj # NoTraj => s < ctl.traj.start

Later(t, newest, used, gone) ==
  t # NoTraj =>
    /\ t.start <= newest
    /\ used # NoTraj => used.start < t.start
    /\ \A s \in gone : s < t.start

Rising ==
  \A i, j \in DOMAIN bsplines :
    i < j /\ bsplines[i] # NoTraj /\ bsplines[j] # NoTraj =>
      bsplines[i].start < bsplines[j].start

Order ==
  /\ Past /\ Rising
  /\ \A i \in DOMAIN bsplines : Later(bsplines[i], last.start, ctl.traj, dropped)

LinkInv == LinkTypeOK /\ Latched /\ SilenceOK /\ Fresh /\ dropped \subseteq Nat /\ Order

-----------------------------------------------------------------------------
(* Identities, and the queues they wait in.                                *)

Idents == Trajs \cup {NoTraj}

LEMMA IdentTypes ==
  /\ NoTraj \notin Trajs
  /\ \A t \in Idents : t # NoTraj => t \in Trajs /\ t.start \in 1..MaxStart
<1>1. \A t \in Trajs : t.id # -1
  BY CtlAssumption DEF Trajs
<1>2. NoTraj.id = -1
  BY DEF NoTraj
<1>3. NoTraj \notin Trajs
  BY <1>1, <1>2
<1>4. \A t \in Trajs : t.start \in 1..MaxStart
  BY DEF Trajs
<1> QED
  BY <1>3, <1>4 DEF Idents

LEMMA SentQueue ==
  ASSUME NEW S, NEW q \in Seq(S), Len(q) <= 2, NEW m \in S, NEW r \in Sent(q, m)
  PROVE  /\ r \in Seq(S) /\ Len(r) <= 2 /\ Len(r) > 0 /\ r[Len(r)] = m
         /\ Len(r) = 2 => \E i \in DOMAIN q : r[1] = q[i]
<1>1. CASE r = <<m>>
  BY <1>1
<1>2. CASE r \in {<<q[i], m>> : i \in DOMAIN q}
  <2>1. PICK i \in DOMAIN q : r = <<q[i], m>>
    BY <1>2
  <2>2. q[i] \in S
    BY <2>1
  <2>3. r \in Seq(S) /\ Len(r) = 2 /\ r[1] = q[i] /\ r[2] = m
    BY <2>1, <2>2
  <2> QED
    BY <2>3
<1> QED
  BY <1>1, <1>2 DEF Sent

LEMMA TakenQueue ==
  ASSUME NEW S, NEW q \in Seq(S), q # << >>, Len(q) <= 2
  PROVE  /\ Head(q) \in S /\ 1 \in DOMAIN q /\ Head(q) = q[1]
         /\ Tail(q) \in Seq(S) /\ Len(Tail(q)) <= 2
         /\ \A i \in DOMAIN Tail(q) : i + 1 \in DOMAIN q /\ Tail(q)[i] = q[i + 1]
OBVIOUS

-----------------------------------------------------------------------------
(* What a callback of the controller does to what it follows.              *)

(* The gate, the command and the trajectory are kept or lost.              *)
Yields(c, d) ==
  /\ d \in CtlStates
  /\ d.gate = NoTraj \/ (d.gate = c.gate /\ d.gate_age = c.gate_age)
  /\ d.cmd = NoTraj \/ d.cmd = c.cmd
  /\ d.safety_stop => d.traj = NoTraj

LEMMA ClearCtl ==
  ASSUME NEW c \in CtlStates, NEW latch \in BOOLEAN
  PROVE  LET d == ClearTrajectory(c, latch)
         IN  /\ Yields(c, d) /\ d.traj = NoTraj /\ d.cmd = NoTraj
             /\ d.have_odom = c.have_odom
<1> DEFINE d == ClearTrajectory(c, latch)
<1>1. NoTraj \in Idents /\ 0 \in 0..(HeartbeatTimeout + 1)
  BY CtlAssumption DEF Idents
<1>2. d \in CtlStates
  BY <1>1, Zenon DEF ClearTrajectory, CtlStates, Idents
<1>3. d.traj = NoTraj /\ d.cmd = NoTraj /\ d.gate = NoTraj /\ d.have_odom = c.have_odom
  BY SMT DEF ClearTrajectory, CtlStates
<1> QED
  BY <1>2, <1>3, Zenon DEF Yields

LEMMA StopCtl ==
  ASSUME NEW c \in CtlStates
  PROVE  LET d == Stop(c)
         IN  /\ d \in CtlStates /\ d.cmd = NoTraj /\ d.traj = c.traj /\ d.gate = c.gate
             /\ d.gate_age = c.gate_age /\ d.safety_stop = c.safety_stop
<1> DEFINE d == Stop(c)
<1>1. NoTraj \in Idents
  BY DEF Idents
<1>2. d \in CtlStates
  BY <1>1, Zenon DEF Stop, CtlStates, Idents
<1>3. /\ d.cmd = NoTraj /\ d.traj = c.traj /\ d.gate = c.gate
      /\ d.gate_age = c.gate_age /\ d.safety_stop = c.safety_stop
  BY SMT DEF Stop, CtlStates
<1> QED
  BY <1>2, <1>3

LEMMA BsplineCtl ==
  ASSUME NEW c \in CtlStates, NEW t \in Idents,
         NEW d \in BsplineCallback(c, t, BadPaths)
  PROVE  Yields(c, d) /\ d.traj \in {t, NoTraj}
<1> DEFINE e == [c EXCEPT !.traj = t, !.update_age = 0, !.safety_stop = FALSE]
<1>1. e \in CtlStates
  <2>1. 0 \in 0..(MaxStep + 1)
    BY CtlAssumption
  <2> QED
    BY <2>1, Zenon DEF CtlStates, Idents
<1>2. /\ e.traj = t /\ e.gate = c.gate /\ e.gate_age = c.gate_age /\ e.cmd = c.cmd
      /\ e.safety_stop = FALSE
  BY SMT DEF CtlStates
<1>3. d = ClearTrajectory(c, FALSE) \/ d = ClearTrajectory(c, TRUE) \/ d = e
  BY Zenon DEF BsplineCallback
<1> HIDE DEF e
<1>4. Yields(c, e)
  BY <1>1, <1>2, Zenon DEF Yields
<1>5. \A latch \in BOOLEAN : Yields(c, ClearTrajectory(c, latch))
                             /\ ClearTrajectory(c, latch).traj = NoTraj
  BY ClearCtl, Zenon
<1> QED
  BY <1>2, <1>3, <1>4, <1>5, Zenon

LEMMA OdomCtl ==
  ASSUME NEW c \in CtlStates, c.safety_stop => c.traj = NoTraj, NEW valid \in BOOLEAN
  PROVE  LET d == OdomCallback(c, valid)
         IN  Yields(c, d) /\ d.traj \in {c.traj, NoTraj}
<1>1. CASE valid = TRUE
  <2> DEFINE latch == c.safety_stop /\ c.traj = NoTraj
             d == [c EXCEPT !.have_odom = TRUE, !.odom_age = 0, !.safety_stop = latch]
  <2>1. OdomCallback(c, valid) = d
    BY <1>1, Zenon DEF OdomCallback
  <2>2. latch \in BOOLEAN /\ (latch => c.traj = NoTraj)
    BY Zenon
  <2> HIDE DEF latch
  <2>3. d \in CtlStates
    <3>1. 0 \in 0..(OdomTimeout + 1)
      BY CtlAssumption
    <3> QED
      BY <2>2, <3>1, Zenon DEF CtlStates
  <2>4. /\ d.traj = c.traj /\ d.gate = c.gate /\ d.gate_age = c.gate_age /\ d.cmd = c.cmd
        /\ d.safety_stop = latch
    BY SMT DEF CtlStates
  <2> HIDE DEF d
  <2> QED
    BY <2>1, <2>2, <2>3, <2>4, Zenon DEF Yields
<1>2. CASE valid = FALSE
  <2> DEFINE e == ClearTrajectory(c, TRUE)
             d == [e EXCEPT !.have_odom = FALSE]
  <2>1. OdomCallback(c, valid) = d
    BY <1>2, Zenon DEF OdomCallback
  <2>2. Yields(c, e) /\ e.traj = NoTraj /\ e \in CtlStates
    BY ClearCtl, Zenon DEF Yields
  <2> HIDE DEF e
  <2>3. d \in CtlStates
    BY <2>2, Zenon DEF CtlStates
  <2>4. /\ d.traj = e.traj /\ d.gate = e.gate /\ d.gate_age = e.gate_age /\ d.cmd = e.cmd
        /\ d.safety_stop = e.safety_stop
    BY <2>2, SMT DEF CtlStates
  <2> HIDE DEF d
  <2> QED
    BY <2>1, <2>2, <2>3, <2>4, Zenon DEF Yields
<1> QED
  BY <1>1, <1>2

(* The command timer commands the cached trajectory or nothing, and only   *)
(* if the gate has allowed it in time.                                     *)
Follows(c, d) ==
  /\ d \in CtlStates
  /\ d.gate = NoTraj \/ (d.gate = c.gate /\ d.gate_age = c.gate_age)
  /\ d.traj = NoTraj \/ d.traj = c.traj
  /\ d.safety_stop => d.traj = NoTraj
  /\ \/ d.cmd = NoTraj
     \/ d.cmd = c.traj /\ c.gate = c.traj /\ c.gate_age <= HeartbeatTimeout

LEMMA StopFollows ==
  ASSUME NEW c, NEW e \in CtlStates,
         e.gate = NoTraj \/ (e.gate = c.gate /\ e.gate_age = c.gate_age),
         e.traj = NoTraj \/ e.traj = c.traj, e.safety_stop => e.traj = NoTraj
  PROVE  Follows(c, Stop(e))
<1> DEFINE d == Stop(e)
<1>1. /\ d \in CtlStates /\ d.cmd = NoTraj /\ d.traj = e.traj /\ d.gate = e.gate
      /\ d.gate_age = e.gate_age /\ d.safety_stop = e.safety_stop
  BY StopCtl, Zenon
<1> HIDE DEF d
<1>2. Follows(c, d)
  BY <1>1, Zenon DEF Follows
<1> QED
  BY <1>2 DEF d

LEMMA ClearFollows ==
  ASSUME NEW c, NEW e \in CtlStates, NEW latch \in BOOLEAN,
         e.gate = NoTraj \/ (e.gate = c.gate /\ e.gate_age = c.gate_age)
  PROVE  Follows(c, ClearTrajectory(e, latch))
<1> DEFINE d == ClearTrajectory(e, latch)
<1>1. Yields(e, d) /\ d.traj = NoTraj /\ d.cmd = NoTraj
  BY ClearCtl, Zenon
<1> HIDE DEF d
<1>2. Follows(c, d)
  BY <1>1, Zenon DEF Yields, Follows
<1> QED
  BY <1>2 DEF d

LEMMA CmdCtl ==
  ASSUME NEW c \in CtlStates, c.safety_stop => c.traj = NoTraj,
         NEW d \in CmdCallback(c, BadPaths)
  PROVE  Follows(c, d)
<1> DEFINE late == c.have_odom /\ c.odom_age > OdomTimeout
           b == [c EXCEPT !.have_odom = FALSE]
           c1 == IF late THEN ClearTrajectory(b, TRUE) ELSE c
           ready == ~c1.safety_stop /\ c1.have_odom /\ PlannerHeartbeatReady(c1)
<1>1. b \in CtlStates
  BY Zenon DEF CtlStates
<1>2. b.gate = c.gate /\ b.gate_age = c.gate_age /\ b.have_odom = FALSE
  BY SMT DEF CtlStates
<1>3. (d \in Track(c1, BadPaths) /\ ready) \/ d = Stop(c1)
  BY Zenon DEF CmdCallback
<1> HIDE DEF b
<1>4. CASE late
  <2>1. c1 = ClearTrajectory(b, TRUE)
    BY <1>4
  <2>2. Yields(b, c1) /\ c1.traj = NoTraj
    BY <1>1, <2>1, ClearCtl, Zenon
  <2>3. ~ready
    BY <2>2, Zenon DEF PlannerHeartbeatReady
  <2> HIDE DEF c1, ready
  <2>4. Follows(c, Stop(c1))
    BY <1>2, <2>2, StopFollows, Zenon DEF Yields
  <2> QED
    BY <1>3, <2>3, <2>4
<1>5. CASE ~late
  <2>1. c1 = c
    BY <1>5
  <2>2. CASE d = Stop(c1)
    BY <2>1, <2>2, StopFollows, Zenon
  <2>3. CASE d \in Track(c1, BadPaths) /\ ready
    <3>1. c.gate = c.traj /\ c.gate_age <= HeartbeatTimeout /\ ~c.safety_stop
      BY <2>1, <2>3, Zenon DEF PlannerHeartbeatReady
    <3> DEFINE e == [c EXCEPT !.update_age = 0]
               f == [e EXCEPT !.cmd = c.traj]
    <3>2. e \in CtlStates
      <4>1. 0 \in 0..(MaxStep + 1)
        BY CtlAssumption
      <4> QED
        BY <4>1, Zenon DEF CtlStates
    <3>3. /\ e.traj = c.traj /\ e.gate = c.gate /\ e.gate_age = c.gate_age
          /\ e.safety_stop = c.safety_stop
      BY SMT DEF CtlStates
    <3>4. d = Stop(e) \/ d = ClearTrajectory(e, TRUE) \/ d = f
      BY <2>1, <2>3, Zenon DEF Track
    <3> HIDE DEF e
    <3>5. f \in CtlStates
      <4>1. c.traj \in Trajs \cup {NoTraj}
        BY DEF CtlStates
      <4> QED
        BY <3>2, <4>1, Zenon DEF CtlStates
    <3>6. /\ f.traj = e.traj /\ f.gate = e.gate /\ f.gate_age = e.gate_age
          /\ f.safety_stop = e.safety_stop /\ f.cmd = c.traj
      BY <3>2, SMT DEF CtlStates
    <3> HIDE DEF f
    <3>7. Follows(c, f)
      BY <3>1, <3>3, <3>5, <3>6, Zenon DEF Follows
    <3>8. Follows(c, Stop(e)) /\ Follows(c, ClearTrajectory(e, TRUE))
      BY <3>2, <3>3, StopFollows, ClearFollows, Zenon
    <3> QED
      BY <3>4, <3>7, <3>8, Zenon
  <2> QED
    BY <1>3, <2>2, <2>3
<1> QED
  BY <1>4, <1>5

LEMMA HeartbeatCtl ==
  ASSUME NEW c \in CtlStates, NEW t \in Idents
  PROVE  LET d == HeartbeatCallback(c, t)
         IN  /\ d \in CtlStates /\ d.gate = t /\ d.gate_age = 0
             /\ d.traj = c.traj /\ d.cmd = c.cmd /\ d.safety_stop = c.safety_stop
<1> DEFINE d == HeartbeatCallback(c, t)
<1>1. 0 \in 0..(HeartbeatTimeout + 1)
  BY CtlAssumption
<1>2. d \in CtlStates
  BY <1>1, Zenon DEF HeartbeatCallback, CtlStates, Idents
<1>3. /\ d.gate = t /\ d.gate_age = 0
      /\ d.traj = c.traj /\ d.cmd = c.cmd /\ d.safety_stop = c.safety_stop
  BY SMT DEF HeartbeatCallback, CtlStates
<1> QED
  BY <1>2, <1>3

LEMMA OlderCtl ==
  ASSUME NEW c \in CtlStates
  PROVE  LET d == Older(c)
         IN  /\ d \in CtlStates /\ d.gate = c.gate /\ d.traj = c.traj /\ d.cmd = c.cmd
             /\ d.safety_stop = c.safety_stop
             /\ d.gate # NoTraj /\ d.gate_age <= HeartbeatTimeout =>
                  c.gate_age <= HeartbeatTimeout /\ d.gate_age = c.gate_age + 1
<1> DEFINE g == IF c.gate = NoTraj THEN 0 ELSE UpTo(HeartbeatTimeout, c.gate_age)
           o == IF c.have_odom THEN UpTo(OdomTimeout, c.odom_age) ELSE 0
           u == UpTo(MaxStep, c.update_age)
           d == [c EXCEPT !.gate_age = g, !.odom_age = o, !.update_age = u]
<1>1. /\ c.gate_age \in 0..(HeartbeatTimeout + 1) /\ c.odom_age \in 0..(OdomTimeout + 1)
      /\ c.update_age \in 0..(MaxStep + 1)
  BY DEF CtlStates
<1>2. /\ g \in 0..(HeartbeatTimeout + 1) /\ o \in 0..(OdomTimeout + 1)
      /\ u \in 0..(MaxStep + 1)
  BY <1>1, CtlAssumption DEF UpTo
<1>3. c.gate # NoTraj /\ g <= HeartbeatTimeout => c.gate_age <= HeartbeatTimeout
                                                  /\ g = c.gate_age + 1
  BY <1>1, CtlAssumption DEF UpTo
<1>4. Older(c) = d
  BY Zenon DEF Older
<1> HIDE DEF g, o, u
<1>5. d \in CtlStates
  BY <1>2, Zenon DEF CtlStates
<1>6. /\ d.gate = c.gate /\ d.traj = c.traj /\ d.cmd = c.cmd
      /\ d.safety_stop = c.safety_stop /\ d.gate_age = g
  BY SMT DEF CtlStates
<1> HIDE DEF d
<1> QED
  BY <1>3, <1>4, <1>5, <1>6, Zenon

-----------------------------------------------------------------------------
(* The steps of the planner.                                               *)

LEMMA NewBeat ==
  ASSUME NEW t \in Idents
  PROVE  LET b == [id |-> t, age |-> 0] IN b \in Beats /\ b.id = t /\ b.age = 0
<1>1. 0 \in 0..MaxDelay
  BY LinkAssumption
<1> QED
  BY <1>1 DEF Beats, Idents

(* A callback of the planner either keeps its trajectory or publishes the  *)
(* next one; whatever heartbeat it sends tells of what it grants.          *)
LEMMA PlannerCase ==
  ASSUME LinkTypeOK, PlannerNext
  PROVE  /\ ctl' = ctl /\ served' = served
         /\ \/ heartbeats' \in {heartbeats, << >>}
            \/ heartbeats' \in Sent(heartbeats, [id |-> granted', age |-> 0])
         /\ up' \in BOOLEAN /\ granted' \in Idents /\ latched' \in Idents
         /\ last' \in [id : 0..MaxTrajId, start : 0..MaxStart]
         /\ \/ /\ last'.start = last.start /\ latched' \in {latched, NoTraj}
               /\ \/ bsplines' \in {bsplines, << >>}
                  \/ bsplines' \in Sent(bsplines, NoTraj)
            \/ /\ last'.start = last.start + 1 /\ latched' = last' /\ last' \in Trajs
               /\ bsplines' \in Sent(bsplines, last')
<1>0. /\ latched \in Idents /\ granted \in Idents /\ NoTraj \in Idents
      /\ last \in [id : 0..MaxTrajId, start : 0..MaxStart] /\ up \in BOOLEAN
  BY DEF LinkTypeOK, Idents
<1>1. CASE PlannerPublish
  <2> DEFINE n == IF last.id >= MaxTrajId THEN 1 ELSE last.id + 1
             t == [id |-> n, start |-> last.start + 1]
  <2>1. /\ last' = t /\ last.start < MaxStart /\ latched' = t /\ granted' \in {NoTraj, t}
        /\ bsplines' \in Sent(bsplines, t) /\ ctl' = ctl /\ served' = served
        /\ up' = up /\ heartbeats' \in Sent(heartbeats, [id |-> granted', age |-> 0])
    BY <1>1 DEF PlannerPublish, Authority!Publish, SendBspline, SendHeartbeat
  <2>2. n \in 1..MaxTrajId /\ last.start + 1 \in 1..MaxStart
    BY <1>0, <2>1, CtlAssumption
  <2> HIDE DEF n
  <2>3. /\ t \in Trajs /\ t.start = last.start + 1
        /\ t \in [id : 0..MaxTrajId, start : 0..MaxStart]
    BY <2>2, CtlAssumption DEF Trajs
  <2> HIDE DEF t
  <2> QED
    BY <1>0, <2>1, <2>3 DEF Idents
<1>2. CASE PlannerClear
  BY <1>0, <1>2 DEF PlannerClear, Authority!Clear, SendBspline, SendHeartbeat
<1>3. CASE PlannerRevoke
  BY <1>0, <1>3 DEF PlannerRevoke, Authority!Revoke, SendHeartbeat
<1>4. CASE PlannerHeartbeat
  BY <1>0, <1>4 DEF PlannerHeartbeat, planner, SendHeartbeat
<1>5. CASE PlannerCrash
  <2>1. last' = [last EXCEPT !.id = 0]
    BY <1>5 DEF PlannerCrash
  <2>2. last'.start = last.start /\ last' \in [id : 0..MaxTrajId, start : 0..MaxStart]
    BY <1>0, <2>1, CtlAssumption
  <2> QED
    BY <1>0, <1>5, <2>2 DEF PlannerCrash
<1>6. CASE PlannerRestart
  BY <1>0, <1>6 DEF PlannerRestart
<1> QED
  BY <1>1, <1>2, <1>3, <1>4, <1>5, <1>6 DEF PlannerNext

LEMMA PlannerTypes ==
  ASSUME LinkTypeOK, PlannerNext  PROVE LinkTypeOK'
<1>0. /\ bsplines \in Seq(Idents) /\ Len(bsplines) <= 2
      /\ heartbeats \in Seq(Beats) /\ Len(heartbeats) <= 2
      /\ ctl \in CtlStates /\ served \in BOOLEAN /\ NoTraj \in Idents
  BY DEF LinkTypeOK, Idents
<1>1. bsplines' \in Seq(Idents) /\ Len(bsplines') <= 2
  <2>1. \/ bsplines' \in {bsplines, << >>}
        \/ \E t \in Idents : bsplines' \in Sent(bsplines, t)
    BY <1>0, PlannerCase DEF Idents
  <2>2. ASSUME NEW t \in Idents, bsplines' \in Sent(bsplines, t)
        PROVE  bsplines' \in Seq(Idents) /\ Len(bsplines') <= 2
    BY <1>0, <2>2, SentQueue
  <2>3. << >> \in Seq(Idents) /\ Len(<< >>) <= 2
    OBVIOUS
  <2> QED
    BY <1>0, <2>1, <2>2, <2>3
<1>2. heartbeats' \in Seq(Beats) /\ Len(heartbeats') <= 2
  <2> DEFINE b == [id |-> granted', age |-> 0]
  <2>1. heartbeats' \in {heartbeats, << >>} \/ heartbeats' \in Sent(heartbeats, b)
    BY PlannerCase
  <2>2. b \in Beats
    BY PlannerCase, NewBeat
  <2> HIDE DEF b
  <2>3. CASE heartbeats' \in Sent(heartbeats, b)
    BY <1>0, <2>2, <2>3, SentQueue
  <2>4. << >> \in Seq(Beats) /\ Len(<< >>) <= 2
    OBVIOUS
  <2> QED
    BY <1>0, <2>1, <2>3, <2>4
<1>3. /\ up' \in BOOLEAN /\ granted' \in Idents /\ latched' \in Idents
      /\ last' \in [id : 0..MaxTrajId, start : 0..MaxStart]
      /\ ctl' \in CtlStates /\ served' \in BOOLEAN
  BY <1>0, PlannerCase
<1> QED
  BY <1>1, <1>2, <1>3 DEF LinkTypeOK, Idents

-----------------------------------------------------------------------------
(* The steps of the controller, and of time.                               *)

(* A callback of the controller takes at most the first message of one     *)
(* topic, and follows nothing but what it had or has just received.        *)
LEMMA BsplineStep ==
  ASSUME LinkTypeOK, BsplineArrives
  PROVE  /\ 1 \in DOMAIN bsplines /\ Yields(ctl, ctl') /\ ctl'.traj \in {bsplines[1], NoTraj}
         /\ bsplines' \in Seq(Idents) /\ Len(bsplines') <= 2
         /\ \A i \in DOMAIN bsplines' : i + 1 \in DOMAIN bsplines
                                        /\ bsplines'[i] = bsplines[i + 1]
         /\ heartbeats' = heartbeats /\ served' = served /\ planner' = planner
<1>0. bsplines \in Seq(Idents) /\ Len(bsplines) <= 2 /\ ctl \in CtlStates
  BY DEF LinkTypeOK, Idents
<1>1. bsplines # << >> /\ bsplines' = Tail(bsplines)
  BY DEF BsplineArrives
<1>2. /\ Head(bsplines) \in Idents /\ 1 \in DOMAIN bsplines /\ Head(bsplines) = bsplines[1]
      /\ Tail(bsplines) \in Seq(Idents) /\ Len(Tail(bsplines)) <= 2
      /\ \A i \in DOMAIN Tail(bsplines) : i + 1 \in DOMAIN bsplines
                                          /\ Tail(bsplines)[i] = bsplines[i + 1]
  BY <1>0, <1>1, TakenQueue
<1>3. ctl' \in BsplineCallback(ctl, Head(bsplines), BadPaths)
  BY DEF BsplineArrives, ControllerStep
<1>4. Yields(ctl, ctl') /\ ctl'.traj \in {Head(bsplines), NoTraj}
  BY <1>0, <1>2, <1>3, BsplineCtl
<1>5. heartbeats' = heartbeats /\ served' = served /\ planner' = planner
  BY DEF BsplineArrives, ControllerStep
<1> QED
  BY <1>1, <1>2, <1>4, <1>5

LEMMA HeartbeatStep ==
  ASSUME LinkTypeOK, HeartbeatArrives
  PROVE  /\ 1 \in DOMAIN heartbeats /\ ctl' \in CtlStates
         /\ ctl'.gate = heartbeats[1].id /\ ctl'.gate_age = 0
         /\ ctl'.traj = ctl.traj /\ ctl'.cmd = ctl.cmd /\ ctl'.safety_stop = ctl.safety_stop
         /\ heartbeats' \in Seq(Beats) /\ Len(heartbeats') <= 2
         /\ \A i \in DOMAIN heartbeats' : i + 1 \in DOMAIN heartbeats
                                          /\ heartbeats'[i] = heartbeats[i + 1]
         /\ bsplines' = bsplines /\ served' = served /\ planner' = planner
<1>0. heartbeats \in Seq(Beats) /\ Len(heartbeats) <= 2 /\ ctl \in CtlStates
  BY DEF LinkTypeOK
<1>1. heartbeats # << >> /\ heartbeats' = Tail(heartbeats)
  BY DEF HeartbeatArrives
<1>2. /\ Head(heartbeats) \in Beats /\ 1 \in DOMAIN heartbeats
      /\ Head(heartbeats) = heartbeats[1]
      /\ Tail(heartbeats) \in Seq(Beats) /\ Len(Tail(heartbeats)) <= 2
      /\ \A i \in DOMAIN Tail(heartbeats) : i + 1 \in DOMAIN heartbeats
                                            /\ Tail(heartbeats)[i] = heartbeats[i + 1]
  BY <1>0, <1>1, TakenQueue
<1>3. Head(heartbeats).id \in Idents
  BY <1>2 DEF Beats, Idents
<1>4. ctl' = HeartbeatCallback(ctl, Head(heartbeats).id)
  BY DEF HeartbeatArrives, ControllerStep
<1>5. /\ ctl' \in CtlStates /\ ctl'.gate = Head(heartbeats).id /\ ctl'.gate_age = 0
      /\ ctl'.traj = ctl.traj /\ ctl'.cmd = ctl.cmd /\ ctl'.safety_stop = ctl.safety_stop
  BY <1>0, <1>3, <1>4, HeartbeatCtl
<1>6. bsplines' = bsplines /\ served' = served /\ planner' = planner
  BY DEF HeartbeatArrives, ControllerStep
<1> QED
  BY <1>1, <1>2, <1>5, <1>6

LEMMA PoseStep ==
  ASSUME LinkTypeOK, Latched, PoseArrives \/ BadPoseArrives
  PROVE  /\ Yields(ctl, ctl') /\ ctl'.traj \in {ctl.traj, NoTraj}
         /\ bsplines' = bsplines /\ heartbeats' = heartbeats
         /\ served' = served /\ planner' = planner
<1>1. ctl \in CtlStates /\ (ctl.safety_stop => ctl.traj = NoTraj)
  BY DEF LinkTypeOK, Latched
<1>2. \E valid \in BOOLEAN : ctl' = OdomCallback(ctl, valid)
  BY DEF PoseArrives, BadPoseArrives, ControllerStep
<1>3. Yields(ctl, ctl') /\ ctl'.traj \in {ctl.traj, NoTraj}
  BY <1>1, <1>2, OdomCtl
<1> QED
  BY <1>3 DEF PoseArrives, BadPoseArrives, ControllerStep

LEMMA TimerStep ==
  ASSUME LinkTypeOK, Latched, CommandTimer
  PROVE  /\ Follows(ctl, ctl') /\ ~served /\ served'= TRUE
         /\ bsplines' = bsplines /\ heartbeats' = heartbeats /\ planner' = planner
<1>1. ctl \in CtlStates /\ (ctl.safety_stop => ctl.traj = NoTraj)
  BY DEF LinkTypeOK, Latched
<1>2. ctl' \in CmdCallback(ctl, BadPaths)
  BY DEF CommandTimer, ControllerStep
<1>3. Follows(ctl, ctl')
  BY <1>1, <1>2, CmdCtl
<1> QED
  BY <1>3 DEF CommandTimer, ControllerStep

LEMMA InitCtlTyped == InitCtl \in CtlStates
<1>1. /\ NoTraj \in Idents /\ 0 \in 0..(HeartbeatTimeout + 1)
      /\ 0 \in 0..(OdomTimeout + 1) /\ 0 \in 0..(MaxStep + 1)
  BY CtlAssumption DEF Idents
<1> QED
  BY <1>1, Zenon DEF InitCtl, CtlStates, Idents

LEMMA RestartStep ==
  ASSUME LinkTypeOK, ControllerRestart
  PROVE  /\ ctl' = InitCtl /\ ctl' \in CtlStates /\ ctl'.traj = NoTraj /\ ctl'.gate = NoTraj
         /\ ctl'.cmd = NoTraj /\ ~ctl'.safety_stop
         /\ heartbeats' = << >>
         /\ \/ bsplines' = << >>
            \/ latched # NoTraj /\ bsplines' = <<latched>>
         /\ bsplines' \in Seq(Idents) /\ Len(bsplines') <= 2
         /\ served' = served /\ planner' = planner
<1>1. ctl' = InitCtl /\ heartbeats' = << >> /\ served' = served /\ planner' = planner
  BY DEF ControllerRestart
<1>2. latched \in Idents
  BY DEF LinkTypeOK, Idents
<1>3. bsplines' = << >> \/ (latched # NoTraj /\ bsplines' = <<latched>>)
  BY DEF ControllerRestart
<1>4. bsplines' \in Seq(Idents) /\ Len(bsplines') <= 2
  <2>1. << >> \in Seq(Idents) /\ Len(<< >>) <= 2
    OBVIOUS
  <2>2. <<latched>> \in Seq(Idents) /\ Len(<<latched>>) <= 2
    BY <1>2
  <2> QED
    BY <1>3, <2>1, <2>2
<1>5. /\ InitCtl.traj = NoTraj /\ InitCtl.gate = NoTraj /\ InitCtl.cmd = NoTraj
      /\ ~InitCtl.safety_stop
  BY DEF InitCtl
<1> QED
  BY <1>1, <1>3, <1>4, <1>5, InitCtlTyped

LEMMA TickStep ==
  ASSUME LinkTypeOK, Tick
  PROVE  /\ served /\ served' = FALSE /\ planner' = planner /\ bsplines' = bsplines
         /\ ctl' \in CtlStates /\ ctl'.gate = ctl.gate /\ ctl'.traj = ctl.traj
         /\ ctl'.cmd = ctl.cmd /\ ctl'.safety_stop = ctl.safety_stop
         /\ ctl'.gate # NoTraj /\ ctl'.gate_age <= HeartbeatTimeout =>
              ctl.gate_age <= HeartbeatTimeout /\ ctl'.gate_age = ctl.gate_age + 1
         /\ heartbeats' \in Seq(Beats) /\ Len(heartbeats') <= 2
         /\ DOMAIN heartbeats' = DOMAIN heartbeats
         /\ \A i \in DOMAIN heartbeats : /\ heartbeats'[i].id = heartbeats[i].id
                                         /\ heartbeats'[i].age = heartbeats[i].age + 1
<1>0. heartbeats \in Seq(Beats) /\ Len(heartbeats) <= 2 /\ ctl \in CtlStates
  BY DEF LinkTypeOK
<1>1. served /\ served' = FALSE /\ planner' = planner /\ bsplines' = bsplines
      /\ ctl' = Older(ctl)
  BY DEF Tick
<1>2. /\ ctl' \in CtlStates /\ ctl'.gate = ctl.gate /\ ctl'.traj = ctl.traj
      /\ ctl'.cmd = ctl.cmd /\ ctl'.safety_stop = ctl.safety_stop
      /\ ctl'.gate # NoTraj /\ ctl'.gate_age <= HeartbeatTimeout =>
           ctl.gate_age <= HeartbeatTimeout /\ ctl'.gate_age = ctl.gate_age + 1
  BY <1>0, <1>1, OlderCtl
<1> DEFINE b(i) == [heartbeats[i] EXCEPT !.age = heartbeats[i].age + 1]
<1>3. /\ \A i \in DOMAIN heartbeats : heartbeats[i].age < MaxDelay
      /\ heartbeats' = [i \in DOMAIN heartbeats |-> b(i)]
  BY Zenon DEF Tick
<1>4. ASSUME NEW i \in DOMAIN heartbeats
      PROVE  /\ b(i) \in Beats /\ b(i).id = heartbeats[i].id
             /\ b(i).age = heartbeats[i].age + 1
  <2>1. heartbeats[i] \in Beats /\ heartbeats[i].age < MaxDelay
    BY <1>0, <1>3
  <2>2. heartbeats[i].age + 1 \in 0..MaxDelay
    BY <2>1, LinkAssumption DEF Beats
  <2> QED
    BY <2>1, <2>2 DEF Beats
<1> HIDE DEF b
<1>5. /\ DOMAIN heartbeats' = DOMAIN heartbeats
      /\ \A i \in DOMAIN heartbeats : heartbeats'[i] = b(i)
  BY <1>3
<1>6. DOMAIN heartbeats = 1..Len(heartbeats) /\ Len(heartbeats) \in Nat
  BY <1>0
<1>7. heartbeats' \in [1..Len(heartbeats) -> Beats]
  BY <1>3, <1>4, <1>6
<1>8. heartbeats' \in Seq(Beats) /\ Len(heartbeats') = Len(heartbeats)
  BY <1>6, <1>7
<1> QED
  BY <1>0, <1>1, <1>2, <1>4, <1>5, <1>8

LEMMA LinkTypes ==
  ASSUME LinkTypeOK, Latched, [Next]_vars  PROVE LinkTypeOK' /\ Latched'
<1>0. /\ bsplines \in Seq(Idents) /\ Len(bsplines) <= 2
      /\ heartbeats \in Seq(Beats) /\ Len(heartbeats) <= 2
      /\ ctl \in CtlStates /\ served \in BOOLEAN
  BY DEF LinkTypeOK, Idents
<1>1. CASE PlannerNext
  BY <1>1, PlannerTypes, PlannerCase DEF Latched
<1>2. ASSUME planner' = planner, ctl' \in CtlStates, served' \in BOOLEAN,
             bsplines' \in Seq(Idents), Len(bsplines') <= 2,
             heartbeats' \in Seq(Beats), Len(heartbeats') <= 2
      PROVE  LinkTypeOK'
  BY <1>2 DEF LinkTypeOK, planner, Idents
<1>3. CASE BsplineArrives
  BY <1>0, <1>2, <1>3, BsplineStep DEF Yields, Latched
<1>4. CASE HeartbeatArrives
  BY <1>0, <1>2, <1>4, HeartbeatStep DEF Latched
<1>5. CASE PoseArrives \/ BadPoseArrives
  BY <1>0, <1>2, <1>5, PoseStep DEF Yields, Latched
<1>6. CASE CommandTimer
  BY <1>0, <1>2, <1>6, TimerStep DEF Follows, Latched
<1>7. CASE ControllerRestart
  <2>1. heartbeats' = << >>
    BY <1>7, RestartStep
  <2>2. heartbeats' \in Seq(Beats) /\ Len(heartbeats') <= 2
    BY <2>1
  <2> QED
    BY <1>0, <1>2, <1>7, <2>2, RestartStep DEF Latched
<1>8. CASE Tick
  BY <1>0, <1>2, <1>8, TickStep DEF Latched
<1>9. CASE UNCHANGED vars
  BY <1>9 DEF vars, planner, LinkTypeOK, Latched
<1> QED
  BY <1>1, <1>3, <1>4, <1>5, <1>6, <1>7, <1>8, <1>9 DEF Next, ControllerNext

LEMMA LinkStart == Init => LinkTypeOK /\ Latched
<1>1. ASSUME Init  PROVE LinkTypeOK
  <2>1. /\ last \in [id : 0..MaxTrajId, start : 0..MaxStart]
        /\ latched = NoTraj /\ granted = NoTraj
    BY <1>1, CtlAssumption DEF Init, Authority!Init
  <2>2. /\ bsplines \in Seq(Idents) /\ Len(bsplines) <= 2
        /\ heartbeats \in Seq(Beats) /\ Len(heartbeats) <= 2
    BY <1>1 DEF Init
  <2> QED
    BY <1>1, <2>1, <2>2, InitCtlTyped DEF Init, LinkTypeOK, Idents
<1>2. ASSUME Init  PROVE Latched
  BY <1>2 DEF Init, InitCtl, Latched
<1> QED
  BY <1>1, <1>2

(* The link is well typed: neither queue ever holds more than two messages,*)
(* one at the writer and one at the reader, no heartbeat is older than its *)
(* longest way, and a latched safety stop has given up its trajectory.     *)
THEOREM LinkInductive == Spec => [](LinkTypeOK /\ Latched)
<1>1. (LinkTypeOK /\ Latched) /\ [Next]_vars => (LinkTypeOK /\ Latched)'
  BY LinkTypes
<1> QED
  BY <1>1, LinkStart, PTL DEF Spec

-----------------------------------------------------------------------------
(* Recent grants.                                                          *)

LEMMA BoundType == Bound \in Nat /\ Bound = MaxDelay + HeartbeatTimeout + 1
BY CtlAssumption, LinkAssumption DEF Bound

LEMMA LinkFields ==
  ASSUME LinkTypeOK
  PROVE  /\ ctl.gate \in Idents /\ ctl.cmd \in Idents /\ ctl.gate_age \in Nat
         /\ MaxDelay \in Nat /\ HeartbeatTimeout \in Nat
         /\ \A i \in DOMAIN heartbeats :
              /\ heartbeats[i].id \in Idents
              /\ heartbeats[i].age \in Nat /\ heartbeats[i].age <= MaxDelay
<1>1. MaxDelay \in Nat /\ HeartbeatTimeout \in Nat
  BY CtlAssumption, LinkAssumption
<1>2. ctl.gate \in Idents /\ ctl.cmd \in Idents /\ ctl.gate_age \in Nat
  <2>1. ctl \in CtlStates
    BY DEF LinkTypeOK
  <2> QED
    BY <1>1, <2>1 DEF CtlStates, Idents
<1>3. ASSUME NEW i \in DOMAIN heartbeats
      PROVE  /\ heartbeats[i].id \in Idents
             /\ heartbeats[i].age \in Nat /\ heartbeats[i].age <= MaxDelay
  <2>1. heartbeats[i] \in Beats
    BY DEF LinkTypeOK
  <2> QED
    BY <1>1, <2>1 DEF Beats, Idents
<1> QED
  BY <1>1, <1>2, <1>3

LEMMA SilenceFields ==
  ASSUME SilenceOK  PROVE \A s \in 1..MaxStart : silence[s] \in Nat
BY BoundType DEF SilenceOK

LEMMA FreshPlanner ==
  ASSUME LinkTypeOK, SilenceOK, Fresh, PlannerSteps  PROVE SilenceOK' /\ Fresh'
<1>0. /\ ctl' = ctl /\ served' = served /\ granted' \in Idents
      /\ \/ heartbeats' \in {heartbeats, << >>}
         \/ heartbeats' \in Sent(heartbeats, [id |-> granted', age |-> 0])
  BY PlannerCase DEF PlannerSteps
<1>1. silence' = [s \in 1..MaxStart |-> IF granted'.start = s THEN 0 ELSE silence[s]]
  BY DEF PlannerSteps
<1>2. SilenceOK'
  BY <1>1, BoundType DEF SilenceOK, Bound
<1>3. \A s \in 1..MaxStart : silence'[s] <= silence[s] /\ silence[s] \in Nat
                             /\ silence'[s] \in Nat
  BY <1>1, BoundType DEF SilenceOK
<1>4. granted' # NoTraj => silence'[granted'.start] = 0
  BY <1>0, <1>1, IdentTypes
<1>5. \A i \in DOMAIN heartbeats : /\ heartbeats[i].id \in Idents
                                   /\ heartbeats[i].age \in Nat
  BY LinkFields
<1>6. \A i \in DOMAIN heartbeats : heartbeats[i].id # NoTraj =>
        silence'[heartbeats[i].id.start] <= heartbeats[i].age
  BY <1>3, <1>5, IdentTypes DEF Fresh, BeatFresh
<1>7. BeatFresh'
  <2> DEFINE b == [id |-> granted', age |-> 0]
  <2>1. b \in Beats /\ b.id = granted' /\ b.age = 0
    BY <1>0, NewBeat
  <2> HIDE DEF b
  <2>2. CASE heartbeats' \in Sent(heartbeats, b)
    <3>1. heartbeats \in Seq(Beats) /\ Len(heartbeats) <= 2
      BY DEF LinkTypeOK
    <3>2. /\ heartbeats' \in Seq(Beats) /\ Len(heartbeats') <= 2 /\ Len(heartbeats') > 0
          /\ heartbeats'[Len(heartbeats')] = b
          /\ Len(heartbeats') = 2 => \E i \in DOMAIN heartbeats : heartbeats'[1] = heartbeats[i]
      BY <2>1, <2>2, <3>1, SentQueue
    <3> SUFFICES ASSUME NEW i \in DOMAIN heartbeats', heartbeats'[i].id # NoTraj
                 PROVE  silence'[heartbeats'[i].id.start] <= heartbeats'[i].age
      BY DEF BeatFresh
    <3>3. i = Len(heartbeats') \/ (i = 1 /\ Len(heartbeats') = 2)
      <4>1. DOMAIN heartbeats' = 1..Len(heartbeats') /\ Len(heartbeats') \in Nat
        BY <3>2
      <4> QED
        BY <3>2, <4>1
    <3> QED
      BY <1>4, <1>6, <2>1, <3>2, <3>3
  <2>3. CASE heartbeats' = heartbeats
    BY <1>6, <2>3 DEF BeatFresh
  <2>4. CASE heartbeats' = << >>
    BY <2>4 DEF BeatFresh
  <2> QED
    BY <1>0, <2>2, <2>3, <2>4 DEF b
<1>8. /\ ctl.gate \in Idents /\ ctl.cmd \in Idents /\ ctl.gate_age \in Nat
      /\ MaxDelay \in Nat /\ HeartbeatTimeout \in Nat
  BY LinkFields
<1>9. GateFresh'
  BY <1>0, <1>3, <1>8, IdentTypes DEF Fresh, GateFresh
<1>10. CmdFresh'
  BY <1>0, <1>3, <1>8, IdentTypes DEF Fresh, CmdFresh
<1> QED
  BY <1>2, <1>7, <1>9, <1>10 DEF Fresh

LEMMA FreshController ==
  ASSUME LinkTypeOK, Latched, SilenceOK, Fresh, ControllerNext, silence' = silence
  PROVE  SilenceOK' /\ Fresh'
<1>0. SilenceOK'
  BY DEF SilenceOK, Bound
<1>1. /\ ctl.gate \in Idents /\ ctl.cmd \in Idents /\ ctl.gate_age \in Nat
      /\ MaxDelay \in Nat /\ HeartbeatTimeout \in Nat
      /\ \A s \in 1..MaxStart : silence[s] \in Nat
  BY LinkFields, SilenceFields
<1>2. ASSUME Yields(ctl, ctl'), served' = served  PROVE GateFresh' /\ CmdFresh'
  BY <1>2 DEF Yields, Fresh, GateFresh, CmdFresh
<1>3. CASE BsplineArrives
  BY <1>0, <1>2, <1>3, BsplineStep DEF Fresh, BeatFresh
<1>4. CASE HeartbeatArrives
  <2>1. /\ 1 \in DOMAIN heartbeats /\ ctl'.gate = heartbeats[1].id /\ ctl'.gate_age = 0
        /\ ctl'.cmd = ctl.cmd /\ served' = served
        /\ \A i \in DOMAIN heartbeats' : i + 1 \in DOMAIN heartbeats
                                         /\ heartbeats'[i] = heartbeats[i + 1]
    BY <1>4, HeartbeatStep
  <2>2. BeatFresh' /\ CmdFresh'
    BY <2>1 DEF Fresh, BeatFresh, CmdFresh
  <2>3. GateFresh'
    <3>1. heartbeats[1] \in Beats
      BY <2>1 DEF LinkTypeOK
    <3>2. heartbeats[1].id \in Idents /\ heartbeats[1].age \in Nat /\ heartbeats[1].age <= MaxDelay
      BY <1>1, <3>1 DEF Beats, Idents
    <3>3. heartbeats[1].id # NoTraj =>
            silence[heartbeats[1].id.start] <= heartbeats[1].age
      BY <2>1 DEF Fresh, BeatFresh
    <3> QED
      BY <1>1, <2>1, <3>2, <3>3, IdentTypes DEF GateFresh
  <2> QED
    BY <1>0, <2>2, <2>3 DEF Fresh
<1>5. CASE PoseArrives \/ BadPoseArrives
  BY <1>0, <1>2, <1>5, PoseStep DEF Fresh, BeatFresh
<1>6. CASE CommandTimer
  <2>1. Follows(ctl, ctl') /\ served' = TRUE /\ heartbeats' = heartbeats
    BY <1>6, TimerStep
  <2>2. BeatFresh' /\ GateFresh'
    BY <2>1 DEF Fresh, BeatFresh, GateFresh, Follows
  <2>3. CmdFresh'
    <3> SUFFICES ASSUME ctl'.cmd # NoTraj
                 PROVE  silence[ctl'.cmd.start] <= MaxDelay + HeartbeatTimeout
      BY <1>1, <2>1, SMT DEF CmdFresh
    <3>1. ctl'.cmd = ctl.gate /\ ctl.gate_age <= HeartbeatTimeout
      BY <2>1 DEF Follows
    <3> QED
      BY <1>1, <3>1, IdentTypes DEF Fresh, GateFresh
  <2> QED
    BY <1>0, <2>2, <2>3 DEF Fresh
<1>7. CASE ControllerRestart
  BY <1>0, <1>7, RestartStep DEF Fresh, BeatFresh, GateFresh, CmdFresh
<1> QED
  BY <1>3, <1>4, <1>5, <1>6, <1>7 DEF ControllerNext

LEMMA FreshTick ==
  ASSUME LinkTypeOK, SilenceOK, Fresh, TimePasses  PROVE SilenceOK' /\ Fresh'
<1>0. Tick /\ silence' = [s \in 1..MaxStart |-> UpTo(Bound, silence[s])]
  BY DEF TimePasses
<1>1. SilenceOK'
  BY <1>0, BoundType DEF SilenceOK, UpTo, Bound
<1>2. /\ ctl.gate \in Idents /\ ctl.cmd \in Idents /\ ctl.gate_age \in Nat
      /\ MaxDelay \in Nat /\ HeartbeatTimeout \in Nat
      /\ \A s \in 1..MaxStart : silence[s] \in Nat /\ silence'[s] \in Nat
                                /\ silence'[s] <= silence[s] + 1
  <2>1. \A s \in 1..MaxStart : /\ silence[s] \in Nat
                               /\ silence'[s] = UpTo(Bound, silence[s])
    BY <1>0, SilenceFields
  <2> QED
    BY <2>1, LinkFields, BoundType DEF UpTo
<1>3. \A i \in DOMAIN heartbeats : heartbeats[i].id \in Idents /\ heartbeats[i].age \in Nat
  BY LinkFields
<1>4. /\ served /\ served' = FALSE /\ ctl'.gate = ctl.gate /\ ctl'.cmd = ctl.cmd
      /\ ctl'.gate # NoTraj /\ ctl'.gate_age <= HeartbeatTimeout =>
           ctl.gate_age <= HeartbeatTimeout /\ ctl'.gate_age = ctl.gate_age + 1
      /\ DOMAIN heartbeats' = DOMAIN heartbeats
      /\ \A i \in DOMAIN heartbeats : /\ heartbeats'[i].id = heartbeats[i].id
                                      /\ heartbeats'[i].age = heartbeats[i].age + 1
  BY <1>0, TickStep
<1>5. BeatFresh'
  BY <1>2, <1>3, <1>4, IdentTypes DEF Fresh, BeatFresh
<1>6. GateFresh'
  BY <1>2, <1>4, IdentTypes DEF Fresh, GateFresh
<1>7. CmdFresh'
  BY <1>2, <1>4, IdentTypes DEF Fresh, CmdFresh
<1> QED
  BY <1>1, <1>5, <1>6, <1>7 DEF Fresh

-----------------------------------------------------------------------------
(* The order of start times.                                               *)

LEMMA StartTypes ==
  ASSUME LinkTypeOK
  PROVE  /\ last.start \in Nat
         /\ ctl.traj \in Idents /\ latched \in Idents
         /\ \A i \in DOMAIN bsplines : bsplines[i] \in Idents
         /\ \A t \in Idents : t # NoTraj => t.start \in Nat
<1>1. last.start \in Nat
  BY CtlAssumption DEF LinkTypeOK
<1>2. ctl.traj \in Idents
  <2>1. ctl \in CtlStates
    BY DEF LinkTypeOK
  <2> QED
    BY <2>1 DEF CtlStates, Idents
<1>3. latched \in Idents /\ \A i \in DOMAIN bsplines : bsplines[i] \in Idents
  BY DEF LinkTypeOK, Idents
<1>4. \A t \in Idents : t # NoTraj => t.start \in Nat
  BY IdentTypes
<1> QED
  BY <1>1, <1>2, <1>3, <1>4

LEMMA OrderPlanner ==
  ASSUME LinkTypeOK, dropped \subseteq Nat, Order, PlannerNext, dropped' = dropped
  PROVE  Order'
<1>0. /\ bsplines \in Seq(Idents) /\ Len(bsplines) <= 2 /\ NoTraj \in Idents
  BY DEF LinkTypeOK, Idents
<1>1. /\ ctl' = ctl /\ latched' \in Idents
      /\ \/ /\ last'.start = last.start /\ latched' \in {latched, NoTraj}
            /\ \/ bsplines' \in {bsplines, << >>}
               \/ bsplines' \in Sent(bsplines, NoTraj)
         \/ /\ last'.start = last.start + 1 /\ latched' = last' /\ last' \in Trajs
            /\ bsplines' \in Sent(bsplines, last')
  BY PlannerCase
<1>2. last'.start >= last.start /\ last'.start \in Nat
  BY <1>1, StartTypes
<1>3. Past'
  BY <1>1, <1>2, StartTypes DEF Order, Past
(* What is on its way stays later, and a new trajectory is the latest.     *)
<1>4. ASSUME NEW t \in Idents, Later(t, last.start, ctl.traj, dropped)
      PROVE  Later(t, last'.start, ctl'.traj, dropped')
  <2>1. last.start \in Nat /\ (t # NoTraj => t.start \in Nat)
    BY StartTypes
  <2>2. ctl'.traj = ctl.traj
    BY <1>1
  <2>3. t # NoTraj => t.start <= last'.start
    BY <1>2, <1>4, <2>1 DEF Later
  <2> QED
    BY <1>4, <2>2, <2>3, Zenon DEF Later
<1>5. ASSUME NEW t \in Idents, bsplines' \in Sent(bsplines, t),
             Later(t, last'.start, ctl'.traj, dropped'), t # NoTraj => t.start > last.start
      PROVE  Order'
  <2>1. /\ bsplines' \in Seq(Idents) /\ Len(bsplines') <= 2 /\ Len(bsplines') > 0
        /\ bsplines'[Len(bsplines')] = t
        /\ Len(bsplines') = 2 => \E i \in DOMAIN bsplines : bsplines'[1] = bsplines[i]
    BY <1>0, <1>5, SentQueue
  <2>2. DOMAIN bsplines' = 1..Len(bsplines') /\ Len(bsplines') \in Nat
    BY <2>1
  <2>3. ASSUME NEW i \in DOMAIN bsplines'
        PROVE  Later(bsplines'[i], last'.start, ctl'.traj, dropped')
    <3>1. CASE i = Len(bsplines')
      BY <1>5, <2>1, <3>1
    <3>2. CASE i # Len(bsplines')
      <4>1. i = 1 /\ Len(bsplines') = 2
        BY <2>1, <2>2, <3>2
      <4>2. PICK k \in DOMAIN bsplines : bsplines'[1] = bsplines[k]
        BY <2>1, <4>1
      <4>3. bsplines[k] \in Idents /\ Later(bsplines[k], last.start, ctl.traj, dropped)
        BY StartTypes DEF Order
      <4>4. bsplines'[i] = bsplines[k]
        BY <4>1, <4>2
      <4> QED
        BY <1>4, <4>3, <4>4
    <3> QED
      BY <3>1, <3>2
  <2>4. Rising'
    <3> SUFFICES ASSUME NEW i \in DOMAIN bsplines', NEW j \in DOMAIN bsplines', i < j,
                        bsplines'[i] # NoTraj, bsplines'[j] # NoTraj
                 PROVE  bsplines'[i].start < bsplines'[j].start
      BY DEF Rising
    <3>1. i = 1 /\ j = Len(bsplines') /\ Len(bsplines') = 2
      BY <2>1, <2>2
    <3>2. PICK k \in DOMAIN bsplines : bsplines'[1] = bsplines[k]
      BY <2>1, <3>1
    <3>3. /\ bsplines'[i] = bsplines[k] /\ bsplines'[j] = t
          /\ Later(bsplines[k], last.start, ctl.traj, dropped)
      BY <2>1, <3>1, <3>2 DEF Order
    <3>4. /\ bsplines[k].start <= last.start /\ bsplines[k].start \in Nat
          /\ t.start > last.start /\ t.start \in Nat /\ last.start \in Nat
      BY <1>5, <3>3, StartTypes DEF Later
    <3>5. bsplines[k].start < t.start
      BY <3>4
    <3> QED
      BY <3>3, <3>5
  <2> QED
    BY <1>3, <2>3, <2>4 DEF Order
<1>6. CASE /\ last'.start = last.start + 1 /\ last' \in Trajs
           /\ bsplines' \in Sent(bsplines, last')
  <2>1. last' \in Idents /\ last'.start > last.start
    BY <1>2, <1>6, StartTypes DEF Idents
  <2>2. Later(last', last'.start, ctl'.traj, dropped')
    BY <1>1, <1>2, <1>6, <2>1, StartTypes DEF Later, Order, Past
  <2> QED
    BY <1>5, <1>6, <2>1, <2>2
<1>7. CASE bsplines' \in Sent(bsplines, NoTraj)
  <2>1. Later(NoTraj, last'.start, ctl'.traj, dropped')
    BY DEF Later
  <2> QED
    BY <1>0, <1>5, <1>7, <2>1
<1>8. CASE bsplines' = bsplines
  <2>1. \A i \in DOMAIN bsplines' : Later(bsplines'[i], last'.start, ctl'.traj, dropped')
    BY <1>1, <1>2, <1>8, StartTypes DEF Later, Order
  <2> QED
    BY <1>3, <1>8, <2>1 DEF Order, Rising
<1>9. CASE bsplines' = << >>
  BY <1>3, <1>9 DEF Order, Rising
<1> QED
  BY <1>1, <1>6, <1>7, <1>8, <1>9

LEMMA OrderController ==
  ASSUME LinkTypeOK, Latched, Latched', dropped \subseteq Nat, Order, ControllerSteps
  PROVE  dropped' \subseteq Nat /\ Order'
<1>0. ControllerNext /\ planner' = planner
  BY BsplineStep, HeartbeatStep, PoseStep, TimerStep, RestartStep
     DEF ControllerSteps, ControllerNext
<1>1. last' = last /\ latched' = latched
  BY <1>0 DEF planner
<1>2. CASE ControllerRestart
  <2>1. dropped' = {}
    BY <1>2 DEF ControllerSteps
  <2>2. ctl'.traj = NoTraj
    BY <1>2, RestartStep
  <2>3. CASE bsplines' = << >>
    BY <1>1, <2>1, <2>2, <2>3 DEF Order, Past, Rising
  <2>4. CASE latched # NoTraj /\ bsplines' = <<latched>>
    <3>1. DOMAIN bsplines' = {1} /\ bsplines'[1] = latched
      BY <2>4
    <3>2. Later(latched, last'.start, ctl'.traj, dropped')
      BY <1>1, <2>1, <2>2 DEF Later, Order, Past
    <3>3. Past' /\ Rising'
      BY <1>1, <2>1, <2>2, <3>1 DEF Order, Past, Rising
    <3>4. \A i \in DOMAIN bsplines' : Later(bsplines'[i], last'.start, ctl'.traj, dropped')
      BY <3>1, <3>2
    <3> QED
      BY <2>1, <3>3, <3>4 DEF Order
  <2> QED
    BY <1>2, <2>3, <2>4, RestartStep
<1>3. CASE ~ControllerRestart
  <2>1. dropped' = dropped \cup IF GivenUp THEN {ctl.traj.start} ELSE {}
    BY <1>3 DEF ControllerSteps
  <2>2. /\ last.start \in Nat /\ ctl.traj \in Idents
        /\ \A i \in DOMAIN bsplines : bsplines[i] \in Idents
        /\ \A t \in Idents : t # NoTraj => t.start \in Nat
    BY StartTypes
  <2>3. \A s \in dropped' : s \in dropped \/ (ctl.traj # NoTraj /\ s = ctl.traj.start)
    BY <2>1 DEF GivenUp
  <2>4. dropped' \subseteq Nat /\ \A s \in dropped' : s <= last.start
    BY <2>2, <2>3 DEF Order, Past
  <2>5. \A i \in DOMAIN bsplines : bsplines[i] # NoTraj =>
          /\ bsplines[i].start \in Nat /\ bsplines[i].start <= last.start
          /\ \A s \in dropped' : s < bsplines[i].start
    BY <2>2, <2>3 DEF Order, Later
(* A callback that takes no trajectory from the topic.                     *)
  <2>6. ASSUME bsplines' = bsplines, ctl'.traj \in {ctl.traj, NoTraj}  PROVE Order'
    <3>1. CASE ctl'.traj = NoTraj
      <4>1. Past' /\ Rising'
        BY <1>1, <2>4, <2>6, <3>1 DEF Order, Past, Rising
      <4>2. \A i \in DOMAIN bsplines' : Later(bsplines'[i], last'.start, ctl'.traj, dropped')
        BY <1>1, <2>5, <2>6, <3>1 DEF Later
      <4> QED
        BY <4>1, <4>2 DEF Order
    <3>2. CASE ctl'.traj = ctl.traj /\ ctl.traj # NoTraj
      <4>1. ~GivenUp
        BY <3>2 DEF GivenUp, Latched
      <4>2. dropped' = dropped
        BY <2>1, <4>1
      <4> QED
        BY <1>1, <2>6, <3>2, <4>2 DEF Order, Past, Rising
    <3> QED
      BY <2>6, <3>1, <3>2
  <2>7. CASE BsplineArrives
    <3>1. /\ 1 \in DOMAIN bsplines /\ ctl'.traj \in {bsplines[1], NoTraj}
          /\ \A i \in DOMAIN bsplines' : i + 1 \in DOMAIN bsplines
                                         /\ bsplines'[i] = bsplines[i + 1]
          /\ bsplines' \in Seq(Idents)
      BY <2>7, BsplineStep
    <3>2. \A i \in DOMAIN bsplines' : i \in Nat /\ i > 0
      BY <3>1
    <3>3. Rising'
      <4> SUFFICES ASSUME NEW i \in DOMAIN bsplines', NEW j \in DOMAIN bsplines', i < j,
                          bsplines'[i] # NoTraj, bsplines'[j] # NoTraj
                   PROVE  bsplines'[i].start < bsplines'[j].start
        BY DEF Rising
      <4>1. i + 1 \in DOMAIN bsplines /\ j + 1 \in DOMAIN bsplines /\ i + 1 < j + 1
        BY <3>1, <3>2
      <4>2. bsplines'[i] = bsplines[i + 1] /\ bsplines'[j] = bsplines[j + 1]
        BY <3>1
      <4> QED
        BY <4>1, <4>2 DEF Order, Rising
    <3>4. Past'
      <4>1. ctl'.traj # NoTraj => /\ ctl'.traj.start <= last.start
                                  /\ \A s \in dropped' : s < ctl'.traj.start
        BY <2>5, <3>1
      <4> QED
        BY <1>1, <2>4, <4>1 DEF Order, Past
    <3>5. ASSUME NEW i \in DOMAIN bsplines'
          PROVE  Later(bsplines'[i], last'.start, ctl'.traj, dropped')
      <4>1. i + 1 \in DOMAIN bsplines /\ 1 < i + 1 /\ bsplines'[i] = bsplines[i + 1]
        BY <3>1, <3>2
      <4>2. bsplines[1] # NoTraj /\ bsplines[i + 1] # NoTraj =>
              bsplines[1].start < bsplines[i + 1].start
        BY <3>1, <4>1 DEF Order, Rising
      <4> QED
        BY <1>1, <2>5, <3>1, <4>1, <4>2 DEF Later
    <3> QED
      BY <2>4, <3>3, <3>4, <3>5 DEF Order
  <2>8. CASE HeartbeatArrives
    BY <2>4, <2>6, <2>8, HeartbeatStep
  <2>9. CASE PoseArrives \/ BadPoseArrives
    BY <2>4, <2>6, <2>9, PoseStep
  <2>10. CASE CommandTimer
    BY <2>4, <2>6, <2>10, TimerStep DEF Follows
  <2> QED
    BY <1>0, <1>3, <2>4, <2>7, <2>8, <2>9, <2>10 DEF ControllerNext
<1> QED
  BY <1>2, <1>3

-----------------------------------------------------------------------------
(* The theorems.                                                           *)

LEMMA LinkStep ==
  ASSUME LinkInv, [HistoryNext]_<<vars, history>>  PROVE LinkInv'
<1>0. /\ LinkTypeOK /\ Latched /\ SilenceOK /\ Fresh /\ dropped \subseteq Nat /\ Order
  BY DEF LinkInv
<1>1. [Next]_vars
  BY DEF HistoryNext, PlannerSteps, ControllerSteps, TimePasses, Next
<1>2. LinkTypeOK' /\ Latched'
  BY <1>0, <1>1, LinkTypes
<1>3. CASE PlannerSteps
  <2>1. PlannerNext /\ dropped' = dropped
    BY <1>3 DEF PlannerSteps
  <2> QED
    BY <1>0, <1>2, <1>3, <2>1, FreshPlanner, OrderPlanner DEF LinkInv
<1>4. CASE ControllerSteps
  <2>1. ControllerNext /\ silence' = silence
    BY <1>4 DEF ControllerSteps
  <2> QED
    BY <1>0, <1>2, <1>4, <2>1, FreshController, OrderController DEF LinkInv
<1>5. CASE TimePasses
  <2>1. Tick /\ dropped' = dropped
    BY <1>5 DEF TimePasses
  <2>2. ctl'.traj = ctl.traj /\ last' = last /\ latched' = latched /\ bsplines' = bsplines
    BY <1>0, <2>1, TickStep DEF planner
  <2>3. Order'
    BY <1>0, <2>1, <2>2 DEF Order, Past, Rising
  <2> QED
    BY <1>0, <1>2, <1>5, <2>1, <2>3, FreshTick DEF LinkInv
<1>6. CASE UNCHANGED <<vars, history>>
  <2>1. /\ ctl' = ctl /\ bsplines' = bsplines /\ heartbeats' = heartbeats /\ served' = served
        /\ last' = last /\ latched' = latched /\ silence' = silence /\ dropped' = dropped
    BY <1>6 DEF vars, planner, history
  <2>2. SilenceOK' /\ Fresh'
    BY <1>0, <2>1 DEF SilenceOK, Bound, Fresh, BeatFresh, GateFresh, CmdFresh
  <2>3. Order'
    BY <1>0, <2>1 DEF Order, Past, Rising
  <2> QED
    BY <1>0, <1>2, <2>1, <2>2, <2>3 DEF LinkInv
<1> QED
  BY <1>3, <1>4, <1>5, <1>6 DEF HistoryNext

LEMMA HistoryStart == HistoryInit => LinkInv
<1> SUFFICES ASSUME HistoryInit  PROVE LinkInv
  OBVIOUS
<1>1. Init /\ dropped = {} /\ silence = [s \in 1..MaxStart |-> Bound + 1]
  BY DEF HistoryInit
<1>2. SilenceOK
  BY <1>1, BoundType DEF SilenceOK
<1>3. /\ bsplines = << >> /\ heartbeats = << >> /\ latched = NoTraj
      /\ ctl.traj = NoTraj /\ ctl.gate = NoTraj /\ ctl.cmd = NoTraj
  BY <1>1 DEF Init, InitCtl, Authority!Init
<1>4. Fresh
  BY <1>3 DEF Fresh, BeatFresh, GateFresh, CmdFresh
<1>5. Order
  BY <1>1, <1>3 DEF Order, Past, Rising
<1> QED
  BY <1>1, <1>2, <1>4, <1>5, LinkStart DEF LinkInv

(* Over every interleaving of planner, topics, controller and time, what   *)
(* speaks for a trajectory is as old as it says, and start times rise from *)
(* what was given up to what is on its way.                                *)
THEOREM HistoryInductive == HistorySpec => []LinkInv
<1>1. LinkInv /\ [HistoryNext]_<<vars, history>> => LinkInv'
  BY LinkStep
<1> QED
  BY <1>1, HistoryStart, PTL DEF HistorySpec

(* Whatever is lost, late, overwritten or restarted, the controller        *)
(* commands a trajectory only within Bound of a heartbeat that granted it  *)
(* (PlannerHeartbeatGate, cmdCallback, publishPlannerHeartbeat).           *)
THEOREM MotionRestsOnGrant == HistorySpec => []MotionIsGranted
<1>1. LinkInv => MotionIsGranted
  <2> SUFFICES ASSUME LinkInv, ctl.cmd # NoTraj  PROVE silence[ctl.cmd.start] <= Bound
    BY DEF MotionIsGranted
  <2>1. LinkTypeOK /\ SilenceOK /\ CmdFresh
    BY DEF LinkInv, Fresh
  <2>2. silence[ctl.cmd.start] \in Nat
    BY <2>1, LinkFields, SilenceFields, IdentTypes
  <2> QED
    BY <2>1, <2>2, LinkFields, BoundType DEF CmdFresh
<1> QED
  BY <1>1, HistoryInductive, PTL

(* The controller never commands a trajectory it has given up: what it     *)
(* holds started later than all of those (clearTrajectory, bsplineCallback,*)
(* odomCallback, cmdCallback).                                             *)
THEOREM GivenUpForGood == HistorySpec => NoResurrection
<1>1. LinkInv /\ [HistoryNext]_<<vars, history>> =>
        [ctl'.cmd # NoTraj /\ CommandTimer => ctl'.cmd.start \notin dropped]_<<vars, history>>
  <2> SUFFICES ASSUME LinkInv, ctl'.cmd # NoTraj, CommandTimer
               PROVE  ctl'.cmd.start \notin dropped
    OBVIOUS
  <2>1. LinkTypeOK /\ Latched /\ Order /\ dropped \subseteq Nat
    BY DEF LinkInv
  <2>2. ctl'.cmd = ctl.traj
    BY <2>1, TimerStep DEF Follows
  <2>3. \A s \in dropped : s \in Nat /\ s < ctl.traj.start
    BY <2>1, <2>2 DEF Order, Past
  <2>4. ctl.traj.start \in Nat
    BY <2>1, <2>2, StartTypes
  <2> QED
    BY <2>2, <2>3, <2>4
<1> QED
  BY <1>1, HistoryInductive, PTL DEF HistorySpec, NoResurrection
=============================================================================
