-------------------------- MODULE MotionAuthority --------------------------
(***************************************************************************)
(* What the planner promises whoever drives the robot, whatever its state  *)
(* machine does inside: one trajectory is latched on planning/bspline, and *)
(* planning/planner_heartbeat grants motion along the latched trajectory   *)
(* or along none.  A grant is given only by the step that latches a new    *)
(* trajectory; once it is revoked it is never given again.                 *)
(***************************************************************************)
CONSTANTS Trajs,      \* identities a trajectory may have
          NoTraj      \* no trajectory: the identity of a clear

VARIABLES latched,    \* what the bspline topic holds
          granted     \* what the last heartbeat allows

Init == latched = NoTraj /\ granted = NoTraj

(* A new trajectory, with or without the right to move along it.           *)
Publish(t) ==
  /\ t # latched
  /\ latched' = t /\ granted' \in {NoTraj, t}

Clear  == latched' = NoTraj /\ granted' = NoTraj

Revoke == granted' = NoTraj /\ UNCHANGED latched

Next == (\E t \in Trajs : Publish(t)) \/ Clear \/ Revoke

Spec == Init /\ [][Next]_<<latched, granted>>
=============================================================================
