---------------------------- MODULE TrackControl ----------------------------
(***************************************************************************)
(* A control period of the closed-loop controller in pure pursuit: the     *)
(* target of PathTrackingController (path_tracking_controller.h) goes      *)
(* through the governor.  The planner checks, in another process, that a   *)
(* stopped robot may go on: samplePurePursuitRecoverySweep                 *)
(* (pure_pursuit_recovery_sweep.h) covers what this controller could do.   *)
(* What the controller sees of the path is an observation.                 *)
(***************************************************************************)
EXTENDS CommandGovernor

CONSTANTS
  Observations,         \* [curvature, error, bearing, ahead, end, dist]
  Cruise, YawReserve,
  AlignEnter, AlignExit, SlowdownStart,         \* heading errors
  LateralLimit, BrakingLimit,                   \* squares of speeds
  FinishDist,
  Patience              \* bounds the periods counted in held

ASSUME TrackAssumption ==
  /\ {Cruise, YawReserve, AlignEnter, AlignExit, SlowdownStart, FinishDist} \subseteq Int
  /\ {LateralLimit, BrakingLimit, Patience} \subseteq Nat
  /\ Observations \subseteq [curvature : Int, error : Int, bearing : Int, ahead : BOOLEAN,
                              end : BOOLEAN, dist : Nat]
  /\ 0 <= AlignExit /\ AlignExit < AlignEnter /\ 0 <= SlowdownStart /\ SlowdownStart < AlignEnter
  /\ 0 <= YawReserve /\ YawReserve < MaxYaw

VARIABLES
  aligning,     \* of the tracking controller
  held          \* the last observation, the periods it moved nothing, and the stops

trackVars == <<gov, yaw, command, aligning, held>>

Unheld == [seen |-> << >>, idle |-> 0, stops |-> 0]
TrackInit == GovernorInit /\ aligning = FALSE /\ held = Unheld

(* The gains of controllers.yaml, in percent.                              *)
HeadingGain == 35
AlignGain   == 80
SpeedGain   == 60
Percent(x) == GovSign(x) * (GovAbs(x) \div 100)
Least(x, y) == IF x < y THEN x ELSE y

-----------------------------------------------------------------------------
(* PathTrackingController::compute.                                        *)
Finishing(o) == o.end /\ o.dist <= FinishDist
Aligns(o) == IF aligning THEN GovAbs(o.error) > AlignExit ELSE GovAbs(o.error) >= AlignEnter

Rotation(rate) ==
  [linear |-> 0, hard |-> 0, curvature |-> 0, heading |-> ClampYaw(rate),
   rotate |-> TRUE, creep |-> FALSE]

(* The gain falls to that of tracking towards the end of the alignment.    *)
AlignTarget(o) ==
  LET part == Within(GovAbs(o.error) - AlignExit, 0, AlignEnter - AlignExit)
      gain == HeadingGain + ((AlignGain - HeadingGain) * part) \div (AlignEnter - AlignExit)
  IN  Rotation(Percent(gain * o.error))

BehindTarget(o) == Rotation(Percent(AlignGain * o.bearing))

SpeedRoot(limit) ==
  CHOOSE v \in 0..MaxSpeed : v * v <= limit /\ (v = MaxSpeed \/ (v + 1) * (v + 1) > limit)

(* Slower in bends, and with the heading off (a ramp for the cosine).      *)
CurveSpeed(k) ==
  IF k = 0 THEN Least(Cruise, MaxSpeed)
  ELSE Least(Least(Cruise, (100 * MaxSpeed) \div (100 + SpeedGain * GovAbs(k))),
             SpeedRoot(LateralLimit \div GovAbs(k)))

Slowed(speed, e) ==
  IF GovAbs(e) <= SlowdownStart THEN speed
  ELSE (speed * Within(AlignEnter - GovAbs(e), 0, AlignEnter - SlowdownStart))
         \div (AlignEnter - SlowdownStart)

(* What the yaw rate left over by the heading feedback allows.             *)
HardSpeed(k, heading) ==
  LET budget == MaxYaw - YawReserve - GovSign(k) * heading
  IN  IF k = 0 THEN MaxSpeed
      ELSE Within(Least((IF budget < 0 THEN 0 ELSE budget) \div GovAbs(k),
                        SpeedRoot(LateralLimit \div GovAbs(k))), 0, MaxSpeed)

TrackTarget(o) ==
  LET heading  == Percent(HeadingGain * o.error)
      free     == Slowed(CurveSpeed(o.curvature), o.error)
      stopping == SpeedRoot(BrakingLimit * Within(o.dist - FinishDist, 0, o.dist))
      hard     == HardSpeed(o.curvature, heading)
  IN  [linear |-> Least(IF o.end THEN Least(free, stopping) ELSE free, hard),
       hard |-> hard, curvature |-> o.curvature, heading |-> heading, rotate |-> FALSE,
       creep |-> o.end /\ stopping > 0 /\ stopping < free]

TrackedTargets == [o \in Observations |-> TrackTarget(o)]
Compute(o) ==
  IF Aligns(o) THEN AlignTarget(o) ELSE IF ~o.ahead THEN BehindTarget(o) ELSE TrackedTargets[o]

-----------------------------------------------------------------------------
(* trackPathFollowing.                                                     *)
Hold(o) ==
  held' = [seen  |-> o,
           idle  |-> IF command'.linear # 0 \/ command'.angular # 0 \/ held.seen # o THEN 0
                     ELSE Least(held.idle + 1, Patience),
           stops |-> IF held.seen # o THEN 0
                     ELSE IF command.linear > 0 /\ command'.linear = 0 THEN Least(held.stops + 1, 2)
                     ELSE held.stops]

Track(o) ==
  /\ ~Finishing(o)
  /\ aligning' = Aligns(o)
  /\ \E t \in {Compute(o)} : GovernorUpdate(t)
  /\ Hold(o)

(* Within reach of the end the robot slows down whatever it sees.          *)
EndTarget ==
  [linear |-> 0, hard |-> MaxSpeed, curvature |-> 0, heading |-> 0, rotate |-> FALSE, creep |-> FALSE]
Finish(o) ==
  /\ Finishing(o)
  /\ GovernorUpdate(EndTarget) /\ Hold(o)
  /\ aligning' = (aligning /\ ~Settled)

(* publishImmediateStop.                                                   *)
ImmediateStop == GovernorReset /\ aligning' = FALSE /\ held' = Unheld

TrackNext == ImmediateStop \/ \E o \in Observations : Track(o) \/ Finish(o)

TrackSpec == TrackInit /\ [][TrackNext]_trackVars

-----------------------------------------------------------------------------
(* samplePurePursuitRecoverySweep of the planner: the rotations on the     *)
(* spot it samples, and the arcs, told apart by curvature * MinSpeed.      *)
RecoveryHeading(o) == Percent(HeadingGain * o.error)

SweepsAlignment(o) ==
  GovAbs(o.error) > AlignExit /\ GovAbs(ClampYaw(Percent(AlignGain * o.error))) >= StartYaw

SweepsTrack(o) ==
  /\ GovAbs(o.error) < AlignEnter /\ o.ahead
  /\ o.curvature # 0 =>
       MinSpeed * GovAbs(o.curvature) + GovSign(o.curvature) * RecoveryHeading(o) <= MaxYaw

(* Faulty variant: the yaw rate is taken to be the one asked for.          *)
CandidatesUnquantized(o) ==
  {0, MinSpeed * o.curvature, ClampYaw(MinSpeed * o.curvature + RecoveryHeading(o))}

(* Straight on while the filter is closed, the arc, the arc with heading   *)
(* feedback, and the least yaw rate of the robot on the sides it may turn. *)
Candidates(o) ==
  LET raw == ClampYaw(MinSpeed * o.curvature + RecoveryHeading(o))
      Side(s) == \/ s * raw > DeadYaw \/ s * o.curvature > 0
                 \/ o.curvature = 0 /\ s * RecoveryHeading(o) > DeadYaw
  IN  {0, MinSpeed * o.curvature, raw} \cup {s * MinYaw : s \in {t \in {-1, 1} : Side(t)}}

(* The poses sampled are those between the two outermost candidates.       *)
Swept(o, speed, rate) ==
  \E l, u \in Candidates(o) : l * speed <= rate * MinSpeed /\ rate * MinSpeed <= u * speed

-----------------------------------------------------------------------------
(* Properties.                                                             *)

(* The speed never jumps up: from a standing robot, however it came to     *)
(* stand, it goes to MinSpeed, and from there no faster than the limiter.  *)
SpeedsUpGently ==
  [][command'.linear <= IF command.linear = 0 THEN MinSpeed ELSE command.linear + SpeedUp]_trackVars

(* No target that asks for motion is answered with zeros for good, nor     *)
(* with a walk that stops again and again: while one observation is held,  *)
(* the robot moves at last, and once it has set out it stops at most once. *)
Asks(t) ==
  IF t.rotate THEN GovAbs(t.heading) >= StartYaw
  ELSE \/ Requested(t) >= MinSpeed
       \/ HardLimit(t) < MinSpeed /\ GovAbs(PreparationYaw(t)) >= StartYaw
NoStopAndGo ==
  held.seen # << >> =>
    /\ held.stops < 2
    /\ ~Finishing(held.seen) /\ Asks(Compute(held.seen)) => held.idle < Patience

(* What the planner swept before it let the robot go on covers every       *)
(* command of the controller: the arc it drives lies between two curves of *)
(* the sweep, and it aligns only where the rotation was swept.             *)
SweepCoversCommand ==
  held.seen # << >> /\ ~Finishing(held.seen) =>
    /\ command.linear > 0 =>
         /\ SweepsTrack(held.seen)
         /\ Swept(held.seen, command.linear, command.angular)
    /\ aligning => SweepsAlignment(held.seen)
=============================================================================
