-------------------------- MODULE CommandGovernor --------------------------
(***************************************************************************)
(* The last stage of the closed-loop controller's commands: the governor   *)
(* of path_command_governor.h with its slew_rate_limiter.h and its         *)
(* yaw_command_filter.h, one step per control period.  The robot can drive *)
(* no slower than MinSpeed and turn no slower than MinYaw, so the governor *)
(* starts, stops and reverses across two dead zones.  Speeds and yaw rates *)
(* are integers in units that make curvature * speed a yaw rate.           *)
(***************************************************************************)
EXTENDS Integers

CONSTANTS
  MaxSpeed, MinSpeed, SpeedUp, SpeedDown,       \* per period for the last two
  MaxYaw, MinYaw, SyncYaw, SignBand,            \* yaw_direction_deadband is SignBand
  DeadYaw, StartYaw, StopYaw, ReversalYaw, YawStep,
  Smoothing             \* the low-pass takes one part of Smoothing each period

(* What setConfig of the three classes demands.                            *)
ASSUME GovernorAssumption ==
  /\ {MaxSpeed, MinSpeed, SpeedUp, SpeedDown, MaxYaw, MinYaw, SyncYaw, SignBand, DeadYaw, StartYaw,
      StopYaw, ReversalYaw, YawStep, Smoothing} \subseteq Int
  /\ 0 < MinSpeed /\ MinSpeed <= MaxSpeed /\ SpeedUp > 0 /\ SpeedDown > 0
  /\ 0 <= SyncYaw /\ SyncYaw <= MaxYaw /\ StartYaw < SyncYaw
  /\ 0 <= SignBand /\ SignBand <= MaxYaw /\ 0 <= MinYaw /\ MinYaw <= MaxYaw
  /\ 0 <= DeadYaw /\ DeadYaw <= ReversalYaw /\ 0 <= StopYaw /\ StopYaw <= StartYaw
  /\ YawStep > 0 /\ Smoothing > 0

VARIABLES
  gov,          \* linear_limiter_ and the flags of the governor
  yaw,          \* yaw_filter_
  command       \* last_command_

govVars == <<gov, yaw, command>>

GovAbs(x)       == IF x < 0 THEN -x ELSE x
GovSign(x)      == IF x > 0 THEN 1 ELSE IF x < 0 THEN -1 ELSE 0
Within(x, l, u) == IF x < l THEN l ELSE IF x > u THEN u ELSE x
ClampYaw(x)     == Within(x, -MaxYaw, MaxYaw)
SignWithDeadband(x) == IF GovAbs(x) <= SignBand THEN 0 ELSE GovSign(x)
SameDirection(x, y) == SignWithDeadband(x) # 0 /\ SignWithDeadband(x) = SignWithDeadband(y)
ReadyCycles == 2

Still   == [speed |-> 0, active |-> FALSE, committed |-> FALSE, stopping |-> FALSE,
            sign |-> 0, crossing |-> FALSE, ready |-> 0]
NoYaw   == [filtered |-> 0, out |-> 0, turning |-> 0]
Stopped == [linear |-> 0, angular |-> 0, waiting |-> FALSE]

GovernorInit == gov = Still /\ yaw = NoYaw /\ command = Stopped

-----------------------------------------------------------------------------
(* SlewRateLimiter::update; the speeds are never negative.                 *)
Slewed(target) ==
  gov.speed + Within(target - gov.speed,
                     IF target > gov.speed THEN -SpeedUp ELSE -SpeedDown,
                     IF target > gov.speed THEN SpeedUp ELSE SpeedDown)

(* The low-pass, rounded so that it arrives.                               *)
LowPass(from, to) ==
  LET d == GovAbs(to - from) IN GovSign(to - from) * ((d + Smoothing - 1) \div Smoothing)

(* Turning starts by the target.                                           *)
StartsTurning(target, filtered) ==
  GovAbs(target) >= StartYaw /\ target # 0 /\ GovSign(filtered) = GovSign(target)

(* YawCommandFilter::update.                                               *)
FilterTarget(raw) ==
  LET cut == IF GovAbs(raw) < DeadYaw THEN 0 ELSE raw
  IN  IF yaw.filtered * cut < 0 /\ GovAbs(cut) < ReversalYaw THEN 0 ELSE cut
Filtered(target) ==
  LET moved == yaw.filtered + Within(LowPass(yaw.filtered, target), -YawStep, YawStep)
  IN  IF target = 0 /\ 2 * GovAbs(moved) < DeadYaw THEN 0 ELSE moved
Turning(target, f) ==
  IF yaw.turning = 0 THEN IF StartsTurning(target, f) THEN GovSign(f) ELSE 0
  ELSE IF GovAbs(f) <= StopYaw \/ GovSign(f) # yaw.turning THEN 0 ELSE yaw.turning
FilterState(f, turn) ==
  [filtered |-> f, turning |-> turn,
   out |-> IF turn = 0 THEN 0 ELSE GovSign(f) * (IF GovAbs(f) < MinYaw THEN MinYaw ELSE GovAbs(f))]
YawUpdate(raw) ==
  CHOOSE y \in {FilterState(f, Turning(FilterTarget(raw), f)) : f \in {Filtered(FilterTarget(raw))}} : TRUE

(* yawReadyForLaunch: 85 percent of the rate, in the right direction.      *)
YawReady(out, raw) ==
  SignWithDeadband(raw) # 0 =>
    SignWithDeadband(raw) = GovSign(out) /\ 20 * GovAbs(out) >= 17 * GovAbs(raw)

SafeYaw(raw, out) ==
  IF SignWithDeadband(raw) = 0 \/ SignWithDeadband(raw) # GovSign(out) THEN 0
  ELSE GovSign(raw) * (IF GovAbs(raw) < MinYaw THEN MinYaw
                       ELSE IF GovAbs(out) < GovAbs(raw) THEN GovAbs(out) ELSE GovAbs(raw))

-----------------------------------------------------------------------------
(* What a target asks for.                                                 *)
HardLimit(t) == Within(t.hard, 0, MaxSpeed)
RawRequest(t) == Within(t.linear, 0, HardLimit(t))
Requested(t) ==
  IF t.creep /\ RawRequest(t) > 0 /\ RawRequest(t) < MinSpeed /\ HardLimit(t) >= MinSpeed
  THEN MinSpeed ELSE RawRequest(t)
RawYaw(t, speed) == ClampYaw(speed * t.curvature + t.heading)
Opposing(t) == t.curvature * t.heading < 0

Continuous(t) == Within(Slewed(Requested(t)), 0, HardLimit(t))

(* updateMovingYawTransition.                                              *)
YawTransition(g, raw, out) ==
  LET s == SignWithDeadband(raw)
      r == IF GovSign(out) = s THEN g.ready + 1 ELSE 0
  IN  IF s = 0 THEN g
      ELSE IF ~g.crossing THEN [g EXCEPT !.sign = s]
      ELSE [g EXCEPT !.sign = s, !.ready = r, !.crossing = r < ReadyCycles]

(* What a reversal of the raw rate leaves in the flags.                    *)
Noted(g, t, raw) ==
  IF Opposing(t) /\ g.sign # 0 /\ SignWithDeadband(raw) \notin {0, g.sign}
  THEN [g EXCEPT !.sign = SignWithDeadband(raw), !.crossing = TRUE, !.ready = 0] ELSE g

(* Faulty variant: a rate that crosses zero on the way has no corridor.    *)
LimitNoCorridor(g, t, speed) ==
  LET raw  == RawYaw(t, speed)
      fits == ((20 * GovAbs(yaw.out)) \div 17 - GovSign(t.curvature) * t.heading)
                \div GovAbs(t.curvature)
  IN  IF t.curvature = 0 \/ GovAbs(raw) < SyncYaw \/ raw * t.curvature <= 0
           \/ ~SameDirection(raw, yaw.out) \/ fits < MinSpeed \/ speed <= fits
      THEN [g EXCEPT !.speed = speed] ELSE [g EXCEPT !.speed = fits]

(* limitSpeedByAvailableYaw: a speed whose yaw rate the filter supports,   *)
(* and in a reversal one just below the rate that needs a stop.            *)
LimitByYaw(g0, t, speed) ==
  LET raw      == RawYaw(t, speed)
      g        == Noted(g0, t, raw)
      hold     == Opposing(t) /\ g.crossing /\ g.ready < ReadyCycles
      follows  == SameDirection(raw, yaw.out)
      crossing == hold \/ ~follows
      rate     == IF crossing THEN SyncYaw - 1 ELSE (20 * GovAbs(yaw.out)) \div 17
      fits     == (rate - GovSign(t.curvature) * t.heading) \div GovAbs(t.curvature)
      g2       == IF ~hold /\ ~follows THEN [g EXCEPT !.crossing = TRUE, !.ready = 0] ELSE g
  IN  IF t.curvature = 0 THEN [g0 EXCEPT !.speed = speed]
      ELSE IF \/ GovAbs(raw) < SyncYaw \/ raw * t.curvature <= 0
              \/ ~hold /\ ~follows /\ ~Opposing(t)
      THEN [g EXCEPT !.speed = speed]
      ELSE IF fits < MinSpeed \/ speed <= fits THEN [g2 EXCEPT !.speed = speed]
      ELSE [g2 EXCEPT !.speed = fits]

-----------------------------------------------------------------------------
(* update: the branches, with what is published in each.                   *)
Publish(linear, angular, waiting) ==
  command' = [linear |-> linear, angular |-> angular, waiting |-> waiting]

(* finishYawCommand: turning on the spot, or standing.                     *)
TurnOnly(raw, waiting) ==
  /\ yaw' = YawUpdate(ClampYaw(raw))
  /\ Publish(0, SafeYaw(ClampYaw(raw), yaw'.out), waiting)

RotateInPlace(t) ==
  t.rotate /\ gov' = Still /\ TurnOnly(t.heading, FALSE)

(* The path bends too much even for MinSpeed: turn towards it first.       *)
PreparationYaw(t) ==
  LET both == RawYaw(t, MinSpeed)
      bend == ClampYaw(MinSpeed * t.curvature)
  IN  IF GovAbs(both) >= StartYaw THEN both
      ELSE IF GovAbs(bend) >= GovAbs(ClampYaw(t.heading)) THEN bend ELSE ClampYaw(t.heading)

TooSharp(t) ==
  /\ ~t.rotate /\ HardLimit(t) < MinSpeed
  /\ gov' = Still /\ TurnOnly(PreparationYaw(t), TRUE)

Drivable(t) == ~t.rotate /\ HardLimit(t) >= MinSpeed

FinishStop(t) ==
  /\ Drivable(t) /\ gov.active /\ gov.stopping
  /\ gov' = Still /\ TurnOnly(t.heading, FALSE)

(* Moving; a rate that the filter is far from stops the robot first.       *)
MoveBy(t, g, raw, y) ==
  LET stop == GovAbs(raw) >= SyncYaw /\ ~YawReady(y.out, raw)
  IN  /\ yaw' = y
      /\ gov' = IF stop THEN Still ELSE YawTransition(g, raw, y.out)
      /\ IF stop THEN Publish(0, 0, TRUE) ELSE Publish(g.speed, SafeYaw(raw, y.out), FALSE)

Move(t) ==
  /\ Drivable(t) /\ gov.active /\ ~gov.stopping
  /\ \E c \in {Continuous(t)} :
     \E g \in {LimitByYaw([gov EXCEPT !.stopping = c < MinSpeed], t,
                          IF c < MinSpeed THEN MinSpeed ELSE c)} :
     \E raw \in {RawYaw(t, g.speed)} :
     \E y \in {YawUpdate(raw)} : MoveBy(t, g, raw, y)

StandStill(t) ==
  /\ Drivable(t) /\ ~gov.active /\ Requested(t) < MinSpeed
  /\ gov' = [gov EXCEPT !.speed = Continuous(t), !.committed = FALSE]
  /\ TurnOnly(t.heading, FALSE)

(* The rate at launch, and whether it has to be there before.              *)
LaunchYaw(t)    == RawYaw(t, MinSpeed)
SameLaunch(t)   == SameDirection(LaunchYaw(t), RawYaw(t, Requested(t)))
Synchronized(t) ==
  \/ GovAbs(LaunchYaw(t)) >= SyncYaw
  \/ SameLaunch(t) /\ GovAbs(RawYaw(t, Requested(t))) >= SyncYaw
Waited(t) == Within(Continuous(t), 0, MinSpeed)
Launching(t) == Drivable(t) /\ ~gov.active /\ Requested(t) >= MinSpeed

Launch(t) ==
  /\ Launching(t) /\ gov.committed /\ Waited(t) >= MinSpeed
  /\ \E raw \in {LaunchYaw(t)}, full \in {RawYaw(t, Requested(t))} :
     \E y \in {YawUpdate(raw)} :
       LET crosses == Opposing(t) /\ full * t.curvature > 0
                        /\ GovAbs(raw) < SyncYaw /\ GovAbs(full) >= SyncYaw
           g       == [gov EXCEPT !.speed = MinSpeed, !.committed = FALSE]
           moving  == [g EXCEPT !.active = TRUE, !.stopping = FALSE,
                                !.crossing = @ \/ crosses, !.ready = IF crosses THEN 0 ELSE @]
       IN  /\ yaw' = y
           /\ IF Synchronized(t) /\ ~YawReady(y.out, raw)
              THEN gov' = g /\ Publish(0, 0, TRUE)
              ELSE gov' = YawTransition(moving, raw, y.out)
                     /\ Publish(MinSpeed, SafeYaw(raw, y.out), FALSE)

(* Standing: the filter is warmed up for the launch.                       *)
Preheat(t) ==
  /\ Launching(t) /\ ~(gov.committed /\ Waited(t) >= MinSpeed)
  /\ \E full \in {RawYaw(t, Requested(t))}, waited \in {Waited(t)} :
     \E y \in {YawUpdate(IF SameLaunch(t) /\ GovAbs(full) > GovAbs(LaunchYaw(t))
                         THEN full ELSE LaunchYaw(t))} :
       LET go == waited >= MinSpeed /\ (Synchronized(t) => YawReady(y.out, LaunchYaw(t)))
       IN  /\ yaw' = y
           /\ gov' = [gov EXCEPT !.speed = waited, !.committed = go]
           /\ Publish(0, 0, Synchronized(t) /\ ~go)

GovernorUpdate(t) ==
  \/ RotateInPlace(t) \/ TooSharp(t) \/ FinishStop(t) \/ Move(t)
  \/ StandStill(t) \/ Launch(t) \/ Preheat(t)

(* Faulty variant: an interruption publishes a stop and forgets nothing.   *)
GovernorResetKeepingSpeed == command' = Stopped /\ UNCHANGED <<gov, yaw>>

(* reset: an emergency stop, a new trajectory, an invalid target, or a     *)
(* period that did not last.                                               *)
GovernorReset == command' = Stopped /\ gov' = Still /\ yaw' = NoYaw

Settled == command'.linear = 0 /\ command'.angular = 0 /\ gov'.speed = 0 /\ yaw'.out = 0
=============================================================================
