------------------------ MODULE ClosedLoopController ------------------------
(***************************************************************************)
(* The closed-loop controller node: the trajectory it caches, the gate the *)
(* planner's heartbeat opens (PlannerHeartbeatGate), the safety latch, and *)
(* the velocity command its timer publishes.  Each callback is an operator *)
(* from the controller's state to the set of states it may leave; geometry *)
(* and the shape of the command are left out, so a command is the identity *)
(* of the trajectory it follows, or none for a zero command.  Time is a    *)
(* number of ticks; ages stop one past the limit they are compared with.   *)
(***************************************************************************)
EXTENDS Integers

CONSTANTS MaxTrajId,          \* ids a planner life may use
          MaxStart,           \* start times: bounds the trajectories published
          HeartbeatTimeout,   \* planner_heartbeat_timeout, in ticks
          OdomTimeout,        \* odom_timeout, in ticks
          MaxStep             \* the longest time step tracked over, in ticks

ASSUME CtlAssumption ==
  {MaxTrajId, MaxStart, HeartbeatTimeout, OdomTimeout, MaxStep} \subseteq Nat \ {0}

(* The double identity of a trajectory: its id and its start time.         *)
Trajs  == [id : 1..MaxTrajId, start : 1..MaxStart]
NoTraj == [id |-> -1, start |-> 0]

CtlStates ==
  [traj : Trajs \cup {NoTraj},        \* receive_traj_, traj_id_, traj_start_time_
   gate : Trajs \cup {NoTraj},        \* identity the last heartbeat allows
   gate_age : 0..(HeartbeatTimeout + 1),
   have_odom : BOOLEAN, odom_age : 0..(OdomTimeout + 1),
   update_age : 0..(MaxStep + 1),     \* age of last_update_time_
   safety_stop : BOOLEAN,             \* safety_stop_active_
   cmd : Trajs \cup {NoTraj}]         \* the last velocity command

InitCtl ==
  [traj |-> NoTraj, gate |-> NoTraj, gate_age |-> 0, have_odom |-> FALSE,
   odom_age |-> 0, update_age |-> 0, safety_stop |-> FALSE, cmd |-> NoTraj]

(* Faulty variant: the cached trajectory survives.                         *)
ClearTrajectoryKeepsTraj(c, latch) ==
  [c EXCEPT !.gate = NoTraj, !.gate_age = 0, !.safety_stop = latch, !.cmd = NoTraj]

ClearTrajectory(c, latch) ==
  [c EXCEPT !.traj = NoTraj, !.gate = NoTraj, !.gate_age = 0,
            !.safety_stop = latch, !.cmd = NoTraj]

HeartbeatCallback(c, t) == [c EXCEPT !.gate = t, !.gate_age = 0]

(* A clear; or a trajectory, which validation or sampling may reject.      *)
BsplineCallback(c, t, mayReject) ==
  IF t = NoTraj THEN {ClearTrajectory(c, FALSE)}
  ELSE {[c EXCEPT !.traj = t, !.update_age = 0, !.safety_stop = FALSE]}
         \cup IF mayReject THEN {ClearTrajectory(c, TRUE)} ELSE {}

OdomCallback(c, valid) ==
  IF valid
  THEN [c EXCEPT !.have_odom = TRUE, !.odom_age = 0,
                 !.safety_stop = @ /\ c.traj = NoTraj]
  ELSE [ClearTrajectory(c, TRUE) EXCEPT !.have_odom = FALSE]

(* Faulty variants: the id alone is compared; a heartbeat never expires.   *)
PlannerHeartbeatReadyIdOnly(c) ==
  /\ c.traj # NoTraj /\ c.gate.id = c.traj.id
  /\ c.gate_age <= HeartbeatTimeout
PlannerHeartbeatReadyAnyAge(c) == c.traj # NoTraj /\ c.gate = c.traj

PlannerHeartbeatReady(c) ==
  /\ c.traj # NoTraj /\ c.gate = c.traj
  /\ c.gate_age <= HeartbeatTimeout

Stop(c) == [c EXCEPT !.cmd = NoTraj]

(* Faulty variant: an invalid time step does not restart the step clock.   *)
TrackKeepsStep(c, mayFail) ==
  IF c.update_age > MaxStep THEN {Stop(c)}
  ELSE {[c EXCEPT !.cmd = c.traj, !.update_age = 0]}

(* One period of tracking: after too long a step the filters are reset     *)
(* with a zero command; the command settles at the end of the path; or the *)
(* tracker has no finite target.                                           *)
Track(c, mayFail) ==
  LET stepped == [c EXCEPT !.update_age = 0] IN
  IF c.update_age > MaxStep THEN {Stop(stepped)}
  ELSE {[stepped EXCEPT !.cmd = c.traj]}
         \cup IF mayFail THEN {Stop(stepped), ClearTrajectory(stepped, TRUE)} ELSE {}

(* One run of the command timer.  A heartbeat that matches may still carry *)
(* a progress that lies outside the sampled path: then it allows nothing.  *)
CmdCallback(c, mayFail) ==
  LET c1 == IF c.have_odom /\ c.odom_age > OdomTimeout
            THEN ClearTrajectory([c EXCEPT !.have_odom = FALSE], TRUE) ELSE c
      ready == ~c1.safety_stop /\ c1.have_odom /\ PlannerHeartbeatReady(c1)
  IN  (IF ready THEN Track(c1, mayFail) ELSE {})
        \cup IF ~ready \/ mayFail THEN {Stop(c1)} ELSE {}

(* The passing of a tick.                                                  *)
UpTo(n, age) == IF age > n THEN age ELSE age + 1

Older(c) ==
  [c EXCEPT !.gate_age   = IF c.gate = NoTraj THEN 0 ELSE UpTo(HeartbeatTimeout, @),
            !.odom_age   = IF c.have_odom THEN UpTo(OdomTimeout, @) ELSE 0,
            !.update_age = UpTo(MaxStep, @)]
=============================================================================
