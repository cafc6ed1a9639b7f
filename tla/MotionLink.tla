----------------------------- MODULE MotionLink -----------------------------
(***************************************************************************)
(* The planner node and the closed-loop controller node, two processes     *)
(* with an executor each, joined by two topics of depth one:               *)
(* planning/bspline, reliable and transient local, and                     *)
(* planning/planner_heartbeat, reliable and volatile.  Each topic keeps    *)
(* its order; neither orders the other.  The planner is MotionAuthority    *)
(* with the identities it gives: ids start at 1 in every life of the       *)
(* process, start times never repeat.  It may crash, restart, or be silent *)
(* for any time.                                                           *)
(***************************************************************************)
EXTENDS ClosedLoopController, Sequences

CONSTANTS MaxDelay,      \* ticks a heartbeat may be on its way
          BadPaths       \* whether a trajectory is rejected, or its tracking fails

ASSUME LinkAssumption == MaxDelay \in Nat /\ BadPaths \in BOOLEAN

VARIABLES up,            \* whether the planner process is alive
          last,          \* identity of local_data_; id 0 before the first
          latched, granted,
          bsplines,      \* identities on their way on planning/bspline
          heartbeats,    \* heartbeats on their way, with their age
          ctl,           \* the controller
          served         \* whether its command timer has run in this tick

planner == <<up, last, latched, granted>>
vars == <<planner, bsplines, heartbeats, ctl, served>>

Authority == INSTANCE MotionAuthority

Beats == [id : Trajs \cup {NoTraj}, age : 0..MaxDelay]

LinkTypeOK ==
  /\ up \in BOOLEAN /\ last \in [id : 0..MaxTrajId, start : 0..MaxStart]
  /\ {latched, granted} \subseteq Trajs \cup {NoTraj}
  /\ bsplines \in Seq(Trajs \cup {NoTraj}) /\ Len(bsplines) <= 2
  /\ heartbeats \in Seq(Beats) /\ Len(heartbeats) <= 2
  /\ ctl \in CtlStates /\ served \in BOOLEAN

Init ==
  /\ up = TRUE /\ last = [id |-> 0, start |-> 0]
  /\ Authority!Init
  /\ bsplines = << >> /\ heartbeats = << >>
  /\ ctl = InitCtl /\ served = FALSE

-----------------------------------------------------------------------------
(* Faulty variant: every message is kept.                                  *)
SentKeepsAll(queue, msg) == {Append(queue, msg)}

(* KeepLast(1) at both ends: what the reader has not taken and what the    *)
(* writer has not sent may each be replaced by a newer message.            *)
Sent(queue, msg) == {<<msg>>} \cup {<<queue[i], msg>> : i \in DOMAIN queue}

SendBspline(t)   == bsplines' \in Sent(bsplines, t)
SendHeartbeat(t) == heartbeats' \in Sent(heartbeats, [id |-> t, age |-> 0])

(* A callback of the planner: a step of its authority, and a heartbeat     *)
(* with what it grants afterwards.                                         *)
PlannerPublish ==
  LET t == [id    |-> IF last.id >= MaxTrajId THEN 1 ELSE last.id + 1,
            start |-> last.start + 1]
  IN  /\ up /\ last.start < MaxStart
      /\ Authority!Publish(t) /\ last' = t
      /\ SendBspline(t) /\ SendHeartbeat(granted')
      /\ UNCHANGED <<up, ctl, served>>

PlannerClear ==
  /\ up /\ Authority!Clear
  /\ SendBspline(NoTraj) /\ SendHeartbeat(NoTraj)
  /\ UNCHANGED <<up, last, ctl, served>>

PlannerRevoke ==
  /\ up /\ Authority!Revoke /\ SendHeartbeat(NoTraj)
  /\ UNCHANGED <<up, last, bsplines, ctl, served>>

PlannerHeartbeat ==
  /\ up /\ SendHeartbeat(granted)
  /\ UNCHANGED <<planner, bsplines, ctl, served>>

(* What a dying process had not sent may be lost.                          *)
PlannerCrash ==
  /\ up /\ up' = FALSE
  /\ last' = [last EXCEPT !.id = 0] /\ latched' = NoTraj /\ granted' = NoTraj
  /\ bsplines'   \in {bsplines, << >>}
  /\ heartbeats' \in {heartbeats, << >>}
  /\ UNCHANGED <<ctl, served>>

PlannerRestart ==
  /\ ~up /\ up' = TRUE
  /\ UNCHANGED <<last, latched, granted, bsplines, heartbeats, ctl, served>>

-----------------------------------------------------------------------------
(* Callbacks of the controller.                                            *)
ControllerStep(c) == ctl' = c /\ UNCHANGED planner

BsplineArrives ==
  /\ bsplines # << >> /\ bsplines' = Tail(bsplines)
  /\ \E c \in BsplineCallback(ctl, Head(bsplines), BadPaths) : ControllerStep(c)
  /\ UNCHANGED <<heartbeats, served>>

HeartbeatArrives ==
  /\ heartbeats # << >> /\ heartbeats' = Tail(heartbeats)
  /\ ControllerStep(HeartbeatCallback(ctl, Head(heartbeats).id))
  /\ UNCHANGED <<bsplines, served>>

PoseArrives ==
  /\ ControllerStep(OdomCallback(ctl, TRUE))
  /\ UNCHANGED <<bsplines, heartbeats, served>>

BadPoseArrives ==
  /\ ControllerStep(OdomCallback(ctl, FALSE))
  /\ UNCHANGED <<bsplines, heartbeats, served>>

CommandTimer ==
  /\ ~served /\ served' = TRUE
  /\ \E c \in CmdCallback(ctl, BadPaths) : ControllerStep(c)
  /\ UNCHANGED <<bsplines, heartbeats>>

(* A restarted controller is given the latched trajectory again, not the   *)
(* heartbeats; the old process no longer commands anything.                *)
ControllerRestart ==
  /\ ctl' = InitCtl /\ heartbeats' = << >>
  /\ bsplines' = IF latched = NoTraj THEN << >> ELSE <<latched>>
  /\ UNCHANGED <<planner, served>>

(* The command timer keeps its period, and no heartbeat is on its way for  *)
(* longer than MaxDelay.                                                   *)
Tick ==
  /\ served /\ served' = FALSE
  /\ \A i \in DOMAIN heartbeats : heartbeats[i].age < MaxDelay
  /\ heartbeats' = [i \in DOMAIN heartbeats |-> [heartbeats[i] EXCEPT !.age = @ + 1]]
  /\ ctl' = Older(ctl)
  /\ UNCHANGED <<planner, bsplines>>

PlannerNext ==
  \/ PlannerPublish \/ PlannerClear \/ PlannerRevoke \/ PlannerHeartbeat
  \/ PlannerCrash \/ PlannerRestart

ControllerNext ==
  \/ BsplineArrives \/ HeartbeatArrives \/ PoseArrives \/ BadPoseArrives
  \/ CommandTimer \/ ControllerRestart

Next == PlannerNext \/ ControllerNext \/ Tick

Spec == Init /\ [][Next]_vars

(* The executors serve their timers and what has arrived, the heartbeat    *)
(* timer runs while the planner is alive, poses keep coming, time passes.  *)
FairSpec ==
  /\ Spec
  /\ WF_vars(PlannerHeartbeat) /\ WF_vars(BsplineArrives) /\ WF_vars(HeartbeatArrives)
  /\ WF_vars(PoseArrives) /\ WF_vars(CommandTimer) /\ WF_vars(Tick)

-----------------------------------------------------------------------------
(* Property.                                                               *)

(* The controller has trajectory t, or it is on its way there.             *)
Held(t) == ctl.traj = t \/ \E i \in DOMAIN bsplines : bsplines[i] = t

(* A cached trajectory waits out a gap: whatever was lost, late or out of  *)
(* order before, once the planner stays with a grant that the controller   *)
(* does not give up, and poses stay good, the controller follows it again  *)
(* and again.  A grant that comes first waits for its trajectory, one that *)
(* comes late revives it, and the heartbeats of an older one die out.      *)
GrantIsFollowed ==
  \A t \in Trajs :
    <>[](granted = t /\ ctl.have_odom /\ Held(t)) => []<>(ctl.cmd = t)
=============================================================================
