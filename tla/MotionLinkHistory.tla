------------------------- MODULE MotionLinkHistory -------------------------
(***************************************************************************)
(* MotionLink with two history variables, and the safety properties that   *)
(* relate what the controller commands to what the planner granted and to  *)
(* what the controller itself gave up.                                     *)
(***************************************************************************)
EXTENDS MotionLink

VARIABLES silence,       \* ticks since a heartbeat granted a start time
          dropped        \* start times the controller has given up

history == <<silence, dropped>>

(* The longest a grant may be acted on: its way, its age, and one period.  *)
Bound == MaxDelay + HeartbeatTimeout + 1

HistoryInit ==
  /\ Init
  /\ silence = [s \in 1..MaxStart |-> Bound + 1] /\ dropped = {}

(* What the planner grants by the end of a callback it says in a heartbeat *)
(* of that callback; a dead planner grants nothing.                        *)
PlannerSteps ==
  /\ PlannerNext
  /\ silence' = [s \in 1..MaxStart |-> IF granted'.start = s THEN 0 ELSE silence[s]]
  /\ UNCHANGED dropped

(* A trajectory is given up when another message takes its place and when  *)
(* the safety latch is set; a restarted controller has no past.            *)
GivenUp == ctl.traj # NoTraj /\ (ctl'.safety_stop \/ ctl'.traj # ctl.traj)

ControllerSteps ==
  /\ ControllerNext
  /\ dropped' = IF ControllerRestart THEN {}
                ELSE dropped \cup IF GivenUp THEN {ctl.traj.start} ELSE {}
  /\ UNCHANGED silence

TimePasses ==
  /\ Tick
  /\ silence' = [s \in 1..MaxStart |-> UpTo(Bound, silence[s])]
  /\ UNCHANGED dropped

HistoryNext == PlannerSteps \/ ControllerSteps \/ TimePasses

HistorySpec == HistoryInit /\ [][HistoryNext]_<<vars, history>>

-----------------------------------------------------------------------------
(* Motion always rests on a recent grant: the command follows a trajectory *)
(* only if, at most Bound ticks ago, the planner sent a heartbeat granting *)
(* that very trajectory.  This is the watchdog over every way the grant    *)
(* can end (revoked, superseded, planner crashed, restarted with the same  *)
(* ids, or stalled), with either topic late or overwritten.                *)
MotionIsGranted == ctl.cmd # NoTraj => silence[ctl.cmd.start] <= Bound

(* A trajectory the controller has given up, for a fault, a clear or a     *)
(* newer one, is not followed by any later command: neither the pose       *)
(* coming back nor heartbeats that still grant it revive it.               *)
NoResurrection ==
  [][ctl'.cmd # NoTraj /\ CommandTimer => ctl'.cmd.start \notin dropped]_<<vars, history>>
=============================================================================
