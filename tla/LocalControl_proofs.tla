------------------------- MODULE LocalControl_proofs -------------------------
(***************************************************************************)
(* Theorems about the control side of a cycle: the governor of the         *)
(* commands, the tracker of the current trajectory, the pursuit of a route *)
(* and its progress, and the merge into the reference route.  Each is      *)
(* about the component's own specification.                                *)
(***************************************************************************)
EXTENDS TrackControl, RouteProgress, RoutePursuit, LocalProgress, MergeReference,
        FiniteSetTheorems, SequenceTheorems, WellFoundedInduction, TLAPS

-----------------------------------------------------------------------------
(* A least element, for minimal counterexamples.                           *)
LEMMA LeastOf ==
  ASSUME NEW T, T \subseteq Nat, T # {}
  PROVE  \E x \in T : \A y \in T : x <= y
<1> DEFINE R == OpToRel(<, Nat)
<1>1. IsWellFoundedOn(R, Nat)
  BY NatLessThanWellFounded
<1>2. PICK x \in T : \A y \in T : ~ (<<y, x>> \in R)
  <2> HIDE DEF R
  <2> QED BY <1>1, WFMin
<1>3. \A y \in T : <<y, x>> \in R <=> y < x
  BY DEF OpToRel
<1> HIDE DEF R
<1>4. \A y \in T : ~ (y < x)
  BY <1>2, <1>3
<1> QED
  BY <1>4

-----------------------------------------------------------------------------
(* The command governor and the path tracking in front of it.              *)
Targets == [linear : Int, hard : Int, curvature : Int, heading : Int,
            rotate : BOOLEAN, creep : BOOLEAN]
Limiters == [speed : 0..MaxSpeed, active : BOOLEAN, committed : BOOLEAN, stopping : BOOLEAN,
             sign : {-1, 0, 1}, crossing : BOOLEAN, ready : Nat]
YawFilters == [filtered : Int, out : Int, turning : {-1, 0, 1}]
Commands == [linear : 0..MaxSpeed, angular : -MaxYaw..MaxYaw, waiting : BOOLEAN]

LEMMA GovernorNumbers ==
  /\ MaxSpeed \in Nat /\ MinSpeed \in Nat /\ SpeedUp \in Nat /\ SpeedDown \in Nat
  /\ MaxYaw \in Nat /\ MinYaw \in Nat /\ SyncYaw \in Nat /\ SignBand \in Nat
  /\ DeadYaw \in Nat /\ StartYaw \in Nat /\ StopYaw \in Nat /\ ReversalYaw \in Nat
  /\ YawStep \in Nat /\ Smoothing \in Nat /\ Smoothing > 0
  /\ 0 < MinSpeed /\ MinSpeed <= MaxSpeed /\ 0 < SpeedUp /\ MinYaw <= MaxYaw
  BY GovernorAssumption

LEMMA TrackNumbers ==
  /\ Cruise \in Int /\ YawReserve \in Nat /\ AlignEnter \in Nat /\ AlignExit \in Nat
  /\ SlowdownStart \in Nat /\ FinishDist \in Int /\ LateralLimit \in Nat /\ BrakingLimit \in Nat
  /\ AlignExit < AlignEnter /\ SlowdownStart < AlignEnter
  BY TrackAssumption

LEMMA WithinInt ==
  ASSUME NEW x \in Int, NEW l \in Int, NEW u \in Int
  PROVE  /\ Within(x, l, u) \in Int
         /\ l <= u => Within(x, l, u) \in l..u
         /\ x <= u => Within(x, l, u) = IF x < l THEN l ELSE x
         /\ l <= x => Within(x, l, u) <= x
  BY DEF Within

LEMMA ClampedYaw ==
  ASSUME NEW x \in Int  PROVE ClampYaw(x) \in -MaxYaw..MaxYaw
  BY GovernorNumbers, WithinInt DEF ClampYaw

LEMMA PercentInt ==
  ASSUME NEW x \in Int  PROVE Percent(x) \in Int
<1>1. GovAbs(x) \in Int /\ GovSign(x) \in {-1, 0, 1}
  BY DEF GovAbs, GovSign
<1>2. GovAbs(x) \div 100 \in Int
  BY <1>1
<1> QED
  BY <1>1, <1>2 DEF Percent

(* The speed whose square is the last below a limit exists.                *)
LEMMA SpeedRootExists ==
  ASSUME NEW limit \in Nat  PROVE SpeedRoot(limit) \in 0..MaxSpeed
<1> DEFINE Over == {v \in 0..MaxSpeed : v = MaxSpeed \/ (v + 1) * (v + 1) > limit}
<1>1. Over \subseteq Nat /\ Over # {}
  BY GovernorNumbers
<1>2. PICK v \in Over : \A w \in Over : v <= w
  <2> HIDE DEF Over
  <2> QED BY <1>1, LeastOf
<1>3. v * v <= limit
  <2>1. CASE v = 0
    BY <2>1
  <2>2. CASE v # 0
    <3>1. v - 1 \in 0..MaxSpeed /\ v - 1 # MaxSpeed
      BY <2>2, <1>1, GovernorNumbers
    <3>2. v - 1 \notin Over
      BY <1>2, <3>1
    <3>3. (v - 1 + 1) * (v - 1 + 1) <= limit
      BY <3>1, <3>2
    <3> QED BY <3>3
  <2> QED BY <2>1, <2>2
<1> QED
  BY <1>2, <1>3 DEF SpeedRoot

LEMMA DivInt ==
  ASSUME NEW x \in Int, NEW y \in Int, y > 0
  PROVE  x \div y \in Int /\ (x >= 0 => x \div y \in Nat)
  OBVIOUS

LEMMA CurveSpeedInt ==
  ASSUME NEW k \in Int  PROVE CurveSpeed(k) \in Int
<1>1. CASE k = 0
  BY <1>1, GovernorNumbers, TrackNumbers DEF CurveSpeed, Least
<1>2. CASE k # 0
  <2>1. GovAbs(k) \in Nat /\ GovAbs(k) > 0
    BY <1>2 DEF GovAbs
  <2>2. SpeedRoot(LateralLimit \div GovAbs(k)) \in Int
    BY <2>1, TrackNumbers, DivInt, SpeedRootExists
  <2>3. (100 * MaxSpeed) \div (100 + SpeedGain * GovAbs(k)) \in Int
    <3>1. 100 + SpeedGain * GovAbs(k) \in Int /\ 100 + SpeedGain * GovAbs(k) > 0
      BY <2>1 DEF SpeedGain
    <3>2. 100 * MaxSpeed \in Int
      BY GovernorNumbers
    <3> QED BY <3>1, <3>2, DivInt
  <2> QED
    BY <1>2, <2>2, <2>3, TrackNumbers DEF CurveSpeed, Least
<1> QED
  BY <1>1, <1>2

LEMMA SlowedInt ==
  ASSUME NEW speed \in Int, NEW e \in Int  PROVE Slowed(speed, e) \in Int
<1>1. GovAbs(e) \in Int
  BY DEF GovAbs
<1>2. Within(AlignEnter - GovAbs(e), 0, AlignEnter - SlowdownStart) \in Int
  BY <1>1, TrackNumbers DEF Within
<1>3. AlignEnter - SlowdownStart \in Int /\ AlignEnter - SlowdownStart > 0
  BY TrackNumbers
<1>4. speed * Within(AlignEnter - GovAbs(e), 0, AlignEnter - SlowdownStart) \in Int
  BY <1>2
<1> QED
  BY <1>3, <1>4, DivInt DEF Slowed

LEMMA HardSpeedInt ==
  ASSUME NEW k \in Int, NEW heading \in Int  PROVE HardSpeed(k, heading) \in Int
<1>1. CASE k = 0
  BY <1>1, GovernorNumbers DEF HardSpeed
<1>2. CASE k # 0
  <2>1. GovAbs(k) \in Int /\ GovAbs(k) > 0 /\ GovSign(k) \in {-1, 1}
    BY <1>2 DEF GovAbs, GovSign
  <2> DEFINE budget == MaxYaw - YawReserve - GovSign(k) * heading
             left   == IF budget < 0 THEN 0 ELSE budget
  <2>2. left \in Int
    BY <2>1, GovernorNumbers, TrackNumbers
  <2>3. SpeedRoot(LateralLimit \div GovAbs(k)) \in Int
    BY <2>1, TrackNumbers, DivInt, SpeedRootExists
  <2>4. HardSpeed(k, heading) =
          Within(Least(left \div GovAbs(k), SpeedRoot(LateralLimit \div GovAbs(k))), 0, MaxSpeed)
    BY <1>2 DEF HardSpeed
  <2> HIDE DEF left
  <2>5. Least(left \div GovAbs(k), SpeedRoot(LateralLimit \div GovAbs(k))) \in Int
    BY <2>1, <2>2, <2>3, DivInt DEF Least
  <2> QED
    BY <2>4, <2>5, WithinInt, GovernorNumbers
<1> QED
  BY <1>1, <1>2

LEMMA RotationTyped ==
  ASSUME NEW rate \in Int  PROVE Rotation(rate) \in Targets
  BY ClampedYaw, GovernorNumbers DEF Rotation, Targets

LEMMA AlignTargetTyped ==
  ASSUME NEW o \in Observations  PROVE AlignTarget(o) \in Targets
<1>1. o.error \in Int
  BY TrackAssumption
<1> DEFINE part == Within(GovAbs(o.error) - AlignExit, 0, AlignEnter - AlignExit)
           gain == HeadingGain + ((AlignGain - HeadingGain) * part) \div (AlignEnter - AlignExit)
<1>2. part \in Int
  <2>1. GovAbs(o.error) \in Int
    BY <1>1 DEF GovAbs
  <2> QED BY <2>1, TrackNumbers DEF Within
<1>3. gain \in Int
  <2> HIDE DEF part
  <2>1. (AlignGain - HeadingGain) * part \in Int
    BY <1>2 DEF AlignGain, HeadingGain
  <2>2. AlignEnter - AlignExit \in Int /\ AlignEnter - AlignExit > 0
    BY TrackNumbers
  <2> QED BY <2>1, <2>2, DivInt DEF HeadingGain
<1>4. AlignTarget(o) = Rotation(Percent(gain * o.error))
  BY DEF AlignTarget
<1> HIDE DEF gain
<1>5. Percent(gain * o.error) \in Int
  BY <1>1, <1>3, PercentInt
<1> QED
  BY <1>4, <1>5, RotationTyped

LEMMA TrackTargetTyped ==
  ASSUME NEW o \in Observations  PROVE TrackTarget(o) \in Targets
<1>1. /\ o.error \in Int /\ o.curvature \in Int /\ o.dist \in Nat /\ o.end \in BOOLEAN
  BY TrackAssumption
<1> DEFINE heading  == Percent(HeadingGain * o.error)
           free     == Slowed(CurveSpeed(o.curvature), o.error)
           stopping == SpeedRoot(BrakingLimit * Within(o.dist - FinishDist, 0, o.dist))
           hard     == HardSpeed(o.curvature, heading)
<1>2. heading \in Int /\ free \in Int
  <2>1. HeadingGain * o.error \in Int
    BY <1>1 DEF HeadingGain
  <2>2. CurveSpeed(o.curvature) \in Int
    BY <1>1, CurveSpeedInt
  <2> QED BY <1>1, <2>1, <2>2, PercentInt, SlowedInt
<1>3. hard \in Int
  <2> HIDE DEF heading
  <2> QED BY <1>1, <1>2, HardSpeedInt
<1>4. stopping \in Int
  <2>1. Within(o.dist - FinishDist, 0, o.dist) \in 0..o.dist
    BY <1>1, TrackNumbers DEF Within
  <2>2. BrakingLimit * Within(o.dist - FinishDist, 0, o.dist) \in Nat
    BY <1>1, <2>1, TrackNumbers
  <2> QED BY <2>2, SpeedRootExists
<1>5. TrackTarget(o) =
        [linear |-> Least(IF o.end THEN Least(free, stopping) ELSE free, hard),
         hard |-> hard, curvature |-> o.curvature, heading |-> heading, rotate |-> FALSE,
         creep |-> o.end /\ stopping > 0 /\ stopping < free]
  BY DEF TrackTarget
<1> HIDE DEF heading, free, stopping, hard
<1>6. Least(IF o.end THEN Least(free, stopping) ELSE free, hard) \in Int
  BY <1>2, <1>3, <1>4 DEF Least
<1>7. (o.end /\ stopping > 0 /\ stopping < free) \in BOOLEAN
  OBVIOUS
<1> QED
  BY <1>1, <1>2, <1>3, <1>5, <1>6, <1>7 DEF Targets

LEMMA ComputeTyped ==
  ASSUME NEW o \in Observations  PROVE Compute(o) \in Targets
<1>1. TrackedTargets[o] \in Targets
  BY TrackTargetTyped DEF TrackedTargets
<1>2. BehindTarget(o) \in Targets
  <2>1. o.bearing \in Int
    BY TrackAssumption
  <2>2. Percent(AlignGain * o.bearing) \in Int
    BY <2>1, PercentInt DEF AlignGain
  <2> QED BY <2>2, RotationTyped DEF BehindTarget
<1> QED
  BY <1>1, <1>2, AlignTargetTyped DEF Compute

(* What a target asks for, within the limits of the robot.                 *)
LEMMA RequestTyped ==
  ASSUME NEW t \in Targets
  PROVE  /\ HardLimit(t) \in 0..MaxSpeed /\ Requested(t) \in 0..HardLimit(t)
         /\ \A s \in Int : RawYaw(t, s) \in -MaxYaw..MaxYaw
<1>1. t.linear \in Int /\ t.hard \in Int /\ t.curvature \in Int /\ t.heading \in Int
  BY DEF Targets
<1>2. HardLimit(t) \in 0..MaxSpeed
  BY <1>1, GovernorNumbers DEF HardLimit, Within
<1>3. RawRequest(t) \in 0..HardLimit(t)
  BY <1>1, <1>2 DEF RawRequest, Within
<1>4. Requested(t) \in 0..HardLimit(t)
  BY <1>2, <1>3, GovernorNumbers DEF Requested
<1>5. ASSUME NEW s \in Int  PROVE RawYaw(t, s) \in -MaxYaw..MaxYaw
  <2>1. s * t.curvature + t.heading \in Int
    BY <1>1
  <2> QED BY <2>1, ClampedYaw DEF RawYaw
<1> QED
  BY <1>2, <1>4, <1>5

(* The limiter of the speed takes one step at most.                        *)
LEMMA ContinuousBounded ==
  ASSUME gov \in Limiters, NEW t \in Targets
  PROVE  Continuous(t) \in 0..HardLimit(t) /\ Continuous(t) <= gov.speed + SpeedUp
<1>1. gov.speed \in Nat
  BY GovernorNumbers DEF Limiters
<1>2. HardLimit(t) \in Nat /\ Requested(t) \in Nat
  BY RequestTyped, GovernorNumbers
<1>3. Slewed(Requested(t)) \in Int /\ Slewed(Requested(t)) <= gov.speed + SpeedUp
  BY <1>1, <1>2, GovernorNumbers DEF Slewed, Within
<1> QED
  BY <1>1, <1>2, <1>3, GovernorNumbers DEF Continuous, Within

LEMMA SignWithDeadbandTyped ==
  ASSUME NEW x \in Int  PROVE SignWithDeadband(x) \in {-1, 0, 1}
  BY DEF SignWithDeadband, GovSign

LEMMA NotedTyped ==
  ASSUME NEW g \in Limiters, NEW t, NEW raw \in Int
  PROVE  /\ Noted(g, t, raw) \in Limiters
         /\ Noted(g, t, raw).speed = g.speed /\ Noted(g, t, raw).active = g.active
<1>1. SignWithDeadband(raw) \in {-1, 0, 1}
  BY SignWithDeadbandTyped
<1> QED
  BY <1>1 DEF Noted, Limiters

(* What the yaw rate takes off the speed leaves MinSpeed at least.         *)
LEMMA LimitTyped ==
  ASSUME yaw \in YawFilters, NEW g0 \in Limiters, NEW t \in Targets,
         NEW speed \in 0..MaxSpeed, speed >= MinSpeed
  PROVE  /\ LimitByYaw(g0, t, speed) \in Limiters
         /\ LimitByYaw(g0, t, speed).active = g0.active
         /\ LimitByYaw(g0, t, speed).speed >= MinSpeed
         /\ LimitByYaw(g0, t, speed).speed <= speed
<1> DEFINE raw      == RawYaw(t, speed)
           g        == Noted(g0, t, raw)
           hold     == Opposing(t) /\ g.crossing /\ g.ready < ReadyCycles
           follows  == SameDirection(raw, yaw.out)
           rate     == IF hold \/ ~follows THEN SyncYaw - 1 ELSE (20 * GovAbs(yaw.out)) \div 17
           fits     == (rate - GovSign(t.curvature) * t.heading) \div GovAbs(t.curvature)
           g2       == IF ~hold /\ ~follows THEN [g EXCEPT !.crossing = TRUE, !.ready = 0] ELSE g
           free     == \/ GovAbs(raw) < SyncYaw \/ raw * t.curvature <= 0
                       \/ ~hold /\ ~follows /\ ~Opposing(t)
<1>1. t.curvature \in Int /\ t.heading \in Int /\ yaw.out \in Int
  BY DEF Targets, YawFilters
<1>2. raw \in Int
  BY RequestTyped, GovernorNumbers
<1>3. g \in Limiters /\ g.active = g0.active
  BY <1>2, NotedTyped
<1>4. g2 \in Limiters /\ g2.active = g0.active
  <2> HIDE DEF g, hold, follows
  <2> QED BY <1>3 DEF Limiters
<1>5. t.curvature # 0 => fits \in Int
  <2>1. rate \in Int
    <3> HIDE DEF hold, follows
    <3>1. GovAbs(yaw.out) \in Int
      BY <1>1 DEF GovAbs
    <3>2. (20 * GovAbs(yaw.out)) \div 17 \in Int
      BY <3>1
    <3> QED BY <3>2, GovernorNumbers
  <2> HIDE DEF rate
  <2>2. ASSUME t.curvature # 0  PROVE fits \in Int
    <3>1. GovAbs(t.curvature) \in Int /\ GovAbs(t.curvature) > 0 /\ GovSign(t.curvature) \in {-1, 1}
      BY <1>1, <2>2 DEF GovAbs, GovSign
    <3>2. rate - GovSign(t.curvature) * t.heading \in Int
      BY <1>1, <2>1, <3>1
    <3> QED BY <3>1, <3>2, DivInt
  <2> QED BY <2>2
<1>6. LimitByYaw(g0, t, speed) =
        IF t.curvature = 0 THEN [g0 EXCEPT !.speed = speed]
        ELSE IF free THEN [g EXCEPT !.speed = speed]
        ELSE IF fits < MinSpeed \/ speed <= fits THEN [g2 EXCEPT !.speed = speed]
        ELSE [g2 EXCEPT !.speed = fits]
  BY DEF LimitByYaw
<1> HIDE DEF raw, g, hold, follows, rate, fits, g2, free
<1>7. ASSUME NEW r \in Limiters, NEW s \in 0..MaxSpeed
      PROVE  /\ [r EXCEPT !.speed = s] \in Limiters
             /\ [r EXCEPT !.speed = s].speed = s /\ [r EXCEPT !.speed = s].active = r.active
  BY DEF Limiters
<1>8. speed \in Int /\ MinSpeed \in Int /\ MaxSpeed \in Int /\ MinSpeed > 0
  BY GovernorNumbers
<1>9. CASE t.curvature # 0 /\ ~free /\ ~(fits < MinSpeed \/ speed <= fits)
  <2>1. fits \in 0..MaxSpeed /\ fits >= MinSpeed /\ fits <= speed
    BY <1>5, <1>8, <1>9
  <2> QED BY <1>4, <1>6, <1>7, <1>9, <2>1
<1>10. CASE ~(t.curvature # 0 /\ ~free /\ ~(fits < MinSpeed \/ speed <= fits))
  <2>1. PICK r \in {g0, g, g2} : LimitByYaw(g0, t, speed) = [r EXCEPT !.speed = speed]
    BY <1>6, <1>10
  <2>2. r \in Limiters /\ r.active = g0.active
    BY <1>3, <1>4, <2>1
  <2> QED BY <1>7, <1>8, <2>1, <2>2
<1> QED
  BY <1>9, <1>10

LEMMA TransitionTyped ==
  ASSUME NEW g \in Limiters, NEW raw \in Int, NEW out \in Int
  PROVE  /\ YawTransition(g, raw, out) \in Limiters
         /\ YawTransition(g, raw, out).speed = g.speed
         /\ YawTransition(g, raw, out).active = g.active
<1>1. SignWithDeadband(raw) \in {-1, 0, 1}
  BY SignWithDeadbandTyped
<1>2. g.ready \in Nat /\ ReadyCycles \in Nat
  BY DEF Limiters, ReadyCycles
<1> DEFINE s == SignWithDeadband(raw)
           r == IF GovSign(out) = SignWithDeadband(raw) THEN g.ready + 1 ELSE 0
<1>3. r \in Nat
  BY <1>2
<1>4. YawTransition(g, raw, out) =
        IF s = 0 THEN g
        ELSE IF ~g.crossing THEN [g EXCEPT !.sign = s]
        ELSE [g EXCEPT !.sign = s, !.ready = r, !.crossing = r < ReadyCycles]
  BY DEF YawTransition
<1>5. (r < ReadyCycles) \in BOOLEAN
  OBVIOUS
<1> HIDE DEF s, r
<1>6. s \in {-1, 0, 1}
  BY <1>1 DEF s
<1> DEFINE c == r < ReadyCycles
<1> HIDE DEF c
<1>8. /\ [g EXCEPT !.sign = s] \in Limiters
      /\ [g EXCEPT !.sign = s, !.ready = r, !.crossing = c] \in Limiters
  BY <1>3, <1>5, <1>6 DEF Limiters, c
<1>9. /\ [g EXCEPT !.sign = s].speed = g.speed /\ [g EXCEPT !.sign = s].active = g.active
      /\ [g EXCEPT !.sign = s, !.ready = r, !.crossing = c].speed = g.speed
      /\ [g EXCEPT !.sign = s, !.ready = r, !.crossing = c].active = g.active
  BY DEF Limiters
<1> QED
  BY <1>4, <1>8, <1>9 DEF c

LEMMA YawUpdateTyped ==
  ASSUME yaw \in YawFilters, NEW raw \in Int
  PROVE  YawUpdate(raw) \in YawFilters
<1>1. yaw.filtered \in Int /\ yaw.turning \in {-1, 0, 1}
  BY DEF YawFilters
<1>2. FilterTarget(raw) \in Int
  BY DEF FilterTarget
<1>3. ASSUME NEW to \in Int  PROVE LowPass(yaw.filtered, to) \in Int
  <2>1. to - yaw.filtered \in Int
    BY <1>1
  <2>2. GovAbs(to - yaw.filtered) \in Int /\ GovSign(to - yaw.filtered) \in Int
    BY <2>1 DEF GovAbs, GovSign
  <2>3. (GovAbs(to - yaw.filtered) + Smoothing - 1) \div Smoothing \in Int
    BY <2>2, GovernorNumbers, DivInt
  <2> QED BY <2>2, <2>3 DEF LowPass
<1>4. Filtered(FilterTarget(raw)) \in Int
  <2>1. Within(LowPass(yaw.filtered, FilterTarget(raw)), -YawStep, YawStep) \in Int
    BY <1>2, <1>3, GovernorNumbers DEF Within
  <2> QED BY <1>1, <2>1 DEF Filtered
<1>5. ASSUME NEW f \in Int, NEW turn \in {-1, 0, 1}
      PROVE  FilterState(f, turn) \in YawFilters
  <2>1. GovSign(f) \in Int /\ GovAbs(f) \in Int
    BY DEF GovSign, GovAbs
  <2>2. GovSign(f) * (IF GovAbs(f) < MinYaw THEN MinYaw ELSE GovAbs(f)) \in Int
    BY <2>1, GovernorNumbers
  <2> QED BY <2>2 DEF FilterState, YawFilters
<1>6. ASSUME NEW f \in Int  PROVE Turning(FilterTarget(raw), f) \in {-1, 0, 1}
  BY <1>1 DEF Turning, GovSign
<1>7. YawUpdate(raw) =
        FilterState(Filtered(FilterTarget(raw)), Turning(FilterTarget(raw), Filtered(FilterTarget(raw))))
  BY DEF YawUpdate
<1> QED
  BY <1>4, <1>5, <1>6, <1>7

LEMMA SafeYawTyped ==
  ASSUME NEW raw \in -MaxYaw..MaxYaw, NEW out \in Int
  PROVE  SafeYaw(raw, out) \in -MaxYaw..MaxYaw
<1>1. GovAbs(raw) \in 0..MaxYaw /\ GovSign(raw) \in {-1, 0, 1} /\ GovAbs(out) \in Nat
  BY GovernorNumbers DEF GovAbs, GovSign
<1> DEFINE size == IF GovAbs(raw) < MinYaw THEN MinYaw
                   ELSE IF GovAbs(out) < GovAbs(raw) THEN GovAbs(out) ELSE GovAbs(raw)
<1>2. size \in 0..MaxYaw
  BY <1>1, GovernorNumbers
<1> HIDE DEF size
<1>3. GovSign(raw) * size \in -MaxYaw..MaxYaw
  BY <1>1, <1>2, GovernorNumbers
<1> USE DEF size
<1> QED
  BY <1>3, GovernorNumbers DEF SafeYaw

(* While the robot moves, the last command is the limiter's speed; it was  *)
(* launched with MinSpeed and is never driven slower.                      *)
MovesAsLimited ==
  IF gov.active THEN command.linear = gov.speed /\ gov.speed >= MinSpeed ELSE command.linear = 0

GovernorTypeOK == gov \in Limiters /\ yaw \in YawFilters /\ command \in Commands
TrackInv == GovernorTypeOK /\ MovesAsLimited

LEMMA StillTyped ==
  Still \in Limiters /\ NoYaw \in YawFilters /\ Stopped \in Commands
  BY GovernorNumbers DEF Still, NoYaw, Stopped, Limiters, YawFilters, Commands

LEMMA TurnOnlyStep ==
  ASSUME yaw \in YawFilters, NEW raw \in Int, NEW waiting \in BOOLEAN, TurnOnly(raw, waiting)
  PROVE  yaw' \in YawFilters /\ command' \in Commands /\ command'.linear = 0
<1>1. ClampYaw(raw) \in -MaxYaw..MaxYaw /\ ClampYaw(raw) \in Int
  BY ClampedYaw, GovernorNumbers
<1>2. yaw' \in YawFilters
  BY <1>1, YawUpdateTyped DEF TurnOnly
<1>3. yaw'.out \in Int
  BY <1>2 DEF YawFilters
<1>4. SafeYaw(ClampYaw(raw), yaw'.out) \in -MaxYaw..MaxYaw
  BY <1>1, <1>3, SafeYawTyped
<1>5. command' = [linear |-> 0, angular |-> SafeYaw(ClampYaw(raw), yaw'.out), waiting |-> waiting]
  BY DEF TurnOnly, Publish
<1> QED
  BY <1>2, <1>4, <1>5, GovernorNumbers DEF Commands

(* Every branch of the governor's update.                                  *)
LEMMA GovernorStep ==
  ASSUME TrackInv, NEW t \in Targets, GovernorUpdate(t)
  PROVE  /\ TrackInv'
         /\ command'.linear <= IF command.linear = 0 THEN MinSpeed ELSE command.linear + SpeedUp
<1>1. /\ t.heading \in Int /\ t.curvature \in Int /\ HardLimit(t) \in 0..MaxSpeed
      /\ Requested(t) \in 0..HardLimit(t)
      /\ \A s \in Int : RawYaw(t, s) \in -MaxYaw..MaxYaw
  BY RequestTyped DEF Targets
<1>2. gov \in Limiters /\ yaw \in YawFilters /\ command \in Commands /\ MovesAsLimited
  BY DEF TrackInv, GovernorTypeOK
<1>3. command.linear \in 0..MaxSpeed /\ gov.speed \in 0..MaxSpeed /\ gov.active \in BOOLEAN
  BY <1>2 DEF Commands, Limiters
<1>4. ASSUME gov' \in Limiters, gov'.active = FALSE, yaw' \in YawFilters,
             command' \in Commands, command'.linear = 0
      PROVE  /\ TrackInv'
             /\ command'.linear <= IF command.linear = 0 THEN MinSpeed ELSE command.linear + SpeedUp
  BY <1>3, <1>4, GovernorNumbers DEF TrackInv, GovernorTypeOK, MovesAsLimited
<1>5. ASSUME gov' \in Limiters, gov'.active = TRUE, yaw' \in YawFilters,
             command' \in Commands, command'.linear = gov'.speed, gov'.speed >= MinSpeed,
             command'.linear <= IF command.linear = 0 THEN MinSpeed ELSE command.linear + SpeedUp
      PROVE  TrackInv'
  BY <1>5 DEF TrackInv, GovernorTypeOK, MovesAsLimited
<1>6. Still.active = FALSE
  BY DEF Still
<1>7. CASE RotateInPlace(t)
  <2>1. gov' = Still /\ TurnOnly(t.heading, FALSE)
    BY <1>7 DEF RotateInPlace
  <2> QED BY <1>1, <1>2, <1>4, <1>6, <2>1, StillTyped, TurnOnlyStep
<1>8. CASE TooSharp(t)
  <2>1. gov' = Still /\ TurnOnly(PreparationYaw(t), TRUE)
    BY <1>8 DEF TooSharp
  <2>2. PreparationYaw(t) \in Int
    <3>1. MinSpeed * t.curvature \in Int
      BY <1>1, GovernorNumbers
    <3>2. ClampYaw(MinSpeed * t.curvature) \in Int /\ ClampYaw(t.heading) \in Int
      BY <1>1, <3>1, ClampedYaw, GovernorNumbers
    <3>3. RawYaw(t, MinSpeed) \in Int
      BY <1>1, GovernorNumbers
    <3> QED BY <3>2, <3>3 DEF PreparationYaw
  <2> QED BY <1>2, <1>4, <1>6, <2>1, <2>2, StillTyped, TurnOnlyStep
<1>9. CASE FinishStop(t)
  <2>1. gov' = Still /\ TurnOnly(t.heading, FALSE)
    BY <1>9 DEF FinishStop
  <2> QED BY <1>1, <1>2, <1>4, <1>6, <2>1, StillTyped, TurnOnlyStep
<1>10. CASE Move(t)
  <2>1. gov.active /\ HardLimit(t) >= MinSpeed
    BY <1>10 DEF Move, Drivable
  <2>2. command.linear = gov.speed /\ gov.speed >= MinSpeed
    BY <1>2, <2>1 DEF MovesAsLimited
  <2> DEFINE c == Continuous(t)
             s == IF c < MinSpeed THEN MinSpeed ELSE c
             slow == c < MinSpeed
             k == [gov EXCEPT !.stopping = slow]
             g == LimitByYaw(k, t, s)
             raw == RawYaw(t, g.speed)
             y == YawUpdate(raw)
  <2>3. MoveBy(t, g, raw, y)
    BY <1>10 DEF Move
  <2>4. c \in 0..HardLimit(t) /\ c <= gov.speed + SpeedUp
    BY <1>2, ContinuousBounded
  <2>5. s \in 0..MaxSpeed /\ s >= MinSpeed /\ s <= gov.speed + SpeedUp
    BY <1>1, <1>3, <2>2, <2>4, GovernorNumbers
  <2>6. k \in Limiters /\ k.active = gov.active
    <3>1. slow \in BOOLEAN
      OBVIOUS
    <3> HIDE DEF slow
    <3> QED BY <1>2, <3>1 DEF Limiters
  <2> HIDE DEF c, s, k
  <2>7. g \in Limiters /\ g.active = gov.active /\ g.speed >= MinSpeed /\ g.speed <= s
    BY <1>2, <2>5, <2>6, LimitTyped
  <2> HIDE DEF g
  <2>8. g.speed \in 0..MaxSpeed
    BY <2>7 DEF Limiters
  <2>9. raw \in -MaxYaw..MaxYaw /\ raw \in Int
    BY <1>1, <2>8, GovernorNumbers
  <2> HIDE DEF raw
  <2>10. y \in YawFilters
    BY <1>2, <2>9, YawUpdateTyped
  <2> HIDE DEF y
  <2>11. y.out \in Int
    BY <2>10 DEF YawFilters
  <2>12. CASE GovAbs(raw) >= SyncYaw /\ ~YawReady(y.out, raw)
    <3>1. yaw' = y /\ gov' = Still /\ command' = [linear |-> 0, angular |-> 0, waiting |-> TRUE]
      BY <2>3, <2>12 DEF MoveBy, Publish
    <3>2. command' \in Commands /\ command'.linear = 0
      BY <3>1, GovernorNumbers DEF Commands
    <3> QED BY <1>4, <1>6, <2>10, <3>1, <3>2, StillTyped
  <2>13. CASE ~(GovAbs(raw) >= SyncYaw /\ ~YawReady(y.out, raw))
    <3>1. /\ yaw' = y /\ gov' = YawTransition(g, raw, y.out)
          /\ command' = [linear |-> g.speed, angular |-> SafeYaw(raw, y.out), waiting |-> FALSE]
      BY <2>3, <2>13 DEF MoveBy, Publish
    <3>2. gov' \in Limiters /\ gov'.speed = g.speed /\ gov'.active = TRUE
      BY <2>1, <2>7, <2>9, <2>11, <3>1, TransitionTyped
    <3>3. SafeYaw(raw, y.out) \in -MaxYaw..MaxYaw
      BY <2>9, <2>11, SafeYawTyped
    <3>4. command' \in Commands /\ command'.linear = g.speed
      BY <2>8, <3>1, <3>3 DEF Commands
    <3>5. command'.linear <= IF command.linear = 0 THEN MinSpeed ELSE command.linear + SpeedUp
      BY <1>3, <2>2, <2>5, <2>7, <2>8, <3>4, GovernorNumbers
    <3> QED BY <1>5, <2>7, <2>10, <3>1, <3>2, <3>4, <3>5
  <2> QED BY <2>12, <2>13
<1>11. CASE StandStill(t)
  <2>1. /\ ~gov.active /\ gov' = [gov EXCEPT !.speed = Continuous(t), !.committed = FALSE]
        /\ TurnOnly(t.heading, FALSE)
    BY <1>11 DEF StandStill
  <2>2. Continuous(t) \in 0..MaxSpeed
    BY <1>1, <1>2, ContinuousBounded, GovernorNumbers
  <2>3. gov' \in Limiters /\ gov'.active = FALSE
    BY <1>2, <2>1, <2>2 DEF Limiters
  <2> QED BY <1>1, <1>2, <1>4, <2>1, <2>3, TurnOnlyStep
<1>12. CASE Launch(t)
  <2> DEFINE raw == LaunchYaw(t)
             full == RawYaw(t, Requested(t))
             y == YawUpdate(raw)
             crosses == Opposing(t) /\ full * t.curvature > 0
                          /\ GovAbs(raw) < SyncYaw /\ GovAbs(full) >= SyncYaw
             g == [gov EXCEPT !.speed = MinSpeed, !.committed = FALSE]
             moving == [g EXCEPT !.active = TRUE, !.stopping = FALSE,
                                 !.crossing = @ \/ crosses, !.ready = IF crosses THEN 0 ELSE @]
  <2>1. /\ ~gov.active /\ yaw' = y
        /\ IF Synchronized(t) /\ ~YawReady(y.out, raw)
           THEN gov' = g /\ Publish(0, 0, TRUE)
           ELSE gov' = YawTransition(moving, raw, y.out)
                  /\ Publish(MinSpeed, SafeYaw(raw, y.out), FALSE)
    BY <1>12 DEF Launch, Launching
  <2>2. command.linear = 0
    BY <1>2, <2>1 DEF MovesAsLimited
  <2>3. raw \in -MaxYaw..MaxYaw /\ raw \in Int
    BY <1>1, GovernorNumbers DEF LaunchYaw
  <2>4. g \in Limiters /\ g.active = FALSE
    <3>1. gov.active = FALSE
      BY <1>3, <2>1
    <3>2. MinSpeed \in 0..MaxSpeed
      BY GovernorNumbers
    <3> QED BY <1>2, <3>1, <3>2 DEF Limiters
  <2>5. moving \in Limiters /\ moving.active = TRUE /\ moving.speed = MinSpeed
    <3> HIDE DEF crosses
    <3>1. g.speed = MinSpeed
      BY <1>2 DEF Limiters
    <3> HIDE DEF g
    <3>2. (g.crossing \/ crosses) \in BOOLEAN
      OBVIOUS
    <3> QED BY <2>4, <3>1, <3>2 DEF Limiters
  <2> HIDE DEF raw, moving, g
  <2>6. y \in YawFilters
    BY <1>2, <2>3, YawUpdateTyped
  <2> HIDE DEF y
  <2>7. y.out \in Int
    BY <2>6 DEF YawFilters
  <2>8. CASE Synchronized(t) /\ ~YawReady(y.out, raw)
    <3>1. gov' = g /\ command' = [linear |-> 0, angular |-> 0, waiting |-> TRUE]
      BY <2>1, <2>8 DEF Publish
    <3>2. command' \in Commands /\ command'.linear = 0
      BY <3>1, GovernorNumbers DEF Commands
    <3> QED BY <1>4, <2>1, <2>4, <2>6, <3>1, <3>2
  <2>9. CASE ~(Synchronized(t) /\ ~YawReady(y.out, raw))
    <3>1. /\ gov' = YawTransition(moving, raw, y.out)
          /\ command' = [linear |-> MinSpeed, angular |-> SafeYaw(raw, y.out), waiting |-> FALSE]
      BY <2>1, <2>9 DEF Publish
    <3>2. gov' \in Limiters /\ gov'.speed = MinSpeed /\ gov'.active = TRUE
      BY <2>3, <2>5, <2>7, <3>1, TransitionTyped
    <3>3. SafeYaw(raw, y.out) \in -MaxYaw..MaxYaw
      BY <2>3, <2>7, SafeYawTyped
    <3>4. command' \in Commands /\ command'.linear = MinSpeed
      BY <3>1, <3>3, GovernorNumbers DEF Commands
    <3>5. command'.linear <= IF command.linear = 0 THEN MinSpeed ELSE command.linear + SpeedUp
      BY <2>2, <3>4, GovernorNumbers
    <3>6. command'.linear = gov'.speed /\ gov'.speed >= MinSpeed
      BY <3>2, <3>4, GovernorNumbers
    <3>7. yaw' \in YawFilters
      BY <2>1, <2>6
    <3>8. TrackInv'
      BY <1>5, <3>2, <3>4, <3>5, <3>6, <3>7
    <3> QED BY <3>5, <3>8
  <2> QED BY <2>8, <2>9
<1>13. CASE Preheat(t)
  <2> DEFINE full == RawYaw(t, Requested(t))
             asked == IF SameLaunch(t) /\ GovAbs(full) > GovAbs(LaunchYaw(t)) THEN full ELSE LaunchYaw(t)
             y == YawUpdate(asked)
             go == Waited(t) >= MinSpeed /\ (Synchronized(t) => YawReady(y.out, LaunchYaw(t)))
  <2>1. /\ ~gov.active /\ yaw' = y
        /\ gov' = [gov EXCEPT !.speed = Waited(t), !.committed = go]
        /\ command' = [linear |-> 0, angular |-> 0, waiting |-> Synchronized(t) /\ ~go]
    BY <1>13 DEF Preheat, Launching, Publish
  <2>2. asked \in Int
    BY <1>1, GovernorNumbers DEF LaunchYaw
  <2> HIDE DEF asked
  <2>3. y \in YawFilters
    BY <1>2, <2>2, YawUpdateTyped
  <2>4. Waited(t) \in 0..MaxSpeed
    BY <1>1, <1>2, ContinuousBounded, GovernorNumbers DEF Waited, Within
  <2>5. go \in BOOLEAN /\ (Synchronized(t) /\ ~go) \in BOOLEAN
    OBVIOUS
  <2> HIDE DEF go, y
  <2>6. gov' \in Limiters /\ gov'.active = FALSE
    BY <1>2, <2>1, <2>4, <2>5 DEF Limiters
  <2>7. command' \in Commands /\ command'.linear = 0
    BY <2>1, <2>5, GovernorNumbers DEF Commands
  <2> QED BY <1>4, <2>1, <2>3, <2>6, <2>7
<1> QED
  BY <1>7, <1>8, <1>9, <1>10, <1>11, <1>12, <1>13 DEF GovernorUpdate

LEMMA TrackInvStart == TrackInit => TrackInv
  BY StillTyped DEF TrackInit, GovernorInit, TrackInv, GovernorTypeOK, MovesAsLimited, Still, Stopped

LEMMA TrackInvStep ==
  ASSUME TrackInv, [TrackNext]_trackVars
  PROVE  /\ TrackInv'
         /\ [command'.linear <= IF command.linear = 0 THEN MinSpeed
                                ELSE command.linear + SpeedUp]_trackVars
<1>1. CASE UNCHANGED trackVars
  BY <1>1 DEF TrackInv, GovernorTypeOK, MovesAsLimited, trackVars
<1>2. CASE ImmediateStop
  <2>1. command' = Stopped /\ gov' = Still /\ yaw' = NoYaw
    BY <1>2 DEF ImmediateStop, GovernorReset
  <2>2. TrackInv'
    BY <2>1, StillTyped DEF TrackInv, GovernorTypeOK, MovesAsLimited, Still, Stopped
  <2>3. command'.linear = 0 /\ command.linear \in Nat
    BY <2>1, GovernorNumbers DEF Stopped, TrackInv, GovernorTypeOK, Commands
  <2> QED BY <2>2, <2>3, GovernorNumbers
<1>3. ASSUME NEW o \in Observations, Track(o) \/ Finish(o)
      PROVE  /\ TrackInv'
             /\ command'.linear <= IF command.linear = 0 THEN MinSpeed ELSE command.linear + SpeedUp
  <2>1. CASE Track(o)
    BY <2>1, ComputeTyped, GovernorStep DEF Track
  <2>2. CASE Finish(o)
    <3>1. EndTarget \in Targets
      BY GovernorNumbers DEF EndTarget, Targets
    <3> QED BY <2>2, <3>1, GovernorStep DEF Finish
  <2> QED BY <1>3, <2>1, <2>2
<1> QED
  BY <1>1, <1>2, <1>3 DEF TrackNext

(* Speeds and yaw rates stay within the robot's limits, and the robot is   *)
(* driven at the speed of the limiter or not at all                        *)
(* (PathCommandGovernor::update).                                          *)
THEOREM CommandsWithinLimits == TrackSpec => []TrackInv
<1>1. TrackInv /\ [TrackNext]_trackVars => TrackInv'
  BY TrackInvStep
<1> QED
  BY <1>1, TrackInvStart, PTL DEF TrackSpec

(* From rest to MinSpeed, and from there by one step of the limiter at     *)
(* most in each period, for every sequence of targets and stops            *)
(* (path_command_governor.h, slew_rate_limiter.h).                         *)
THEOREM GentleSpeedUp == TrackSpec => SpeedsUpGently
<1>1. TrackInv /\ [TrackNext]_trackVars
        => [command'.linear <= IF command.linear = 0 THEN MinSpeed
                               ELSE command.linear + SpeedUp]_trackVars
  BY TrackInvStep
<1> QED
  BY <1>1, CommandsWithinLimits, PTL DEF TrackSpec, SpeedsUpGently

-----------------------------------------------------------------------------
(* Induction without an operator: what holds of a number or of a finite    *)
(* set is given by the set of those it holds of.                           *)
LEMMA NumberInduction ==
  ASSUME NEW G, 0 \in G, \A n \in Nat : n \in G => n + 1 \in G
  PROVE  \A n \in Nat : n \in G
<1> DEFINE T == {n \in Nat : n \notin G}
<1>1. SUFFICES ASSUME T # {} PROVE FALSE
  OBVIOUS
<1>2. PICK m \in T : \A n \in T : m <= n
  <2>1. T \subseteq Nat
    OBVIOUS
  <2> HIDE DEF T
  <2> QED BY <1>1, <2>1, LeastOf
<1>3. m # 0 /\ m - 1 \in Nat /\ m - 1 \notin T
  BY <1>2
<1>4. m - 1 + 1 \in G /\ m - 1 + 1 = m
  BY <1>3
<1> QED
  BY <1>2, <1>4

LEMMA SetInduction ==
  ASSUME NEW D, IsFiniteSet(D), NEW G, {} \in G,
         \A s \in SUBSET D : s # {} => \E x \in s : s \ {x} \in G => s \in G
  PROVE  \A s \in SUBSET D : s \in G
<1> DEFINE N == {n \in Nat : \A s \in SUBSET D : Cardinality(s) = n => s \in G}
<1>1. \A s \in SUBSET D : IsFiniteSet(s) /\ Cardinality(s) \in Nat
  BY FS_Subset, FS_CardinalityType
<1>2. 0 \in N
  BY <1>1, FS_EmptySet
<1>3. ASSUME NEW n \in Nat, n \in N  PROVE n + 1 \in N
  <2>1. SUFFICES ASSUME NEW s \in SUBSET D, Cardinality(s) = n + 1  PROVE s \in G
    OBVIOUS
  <2>2. IsFiniteSet(s) /\ s # {}
    BY <1>1, <2>1, FS_EmptySet
  <2>3. PICK x \in s : s \ {x} \in G => s \in G
    BY <2>2
  <2>4. Cardinality(s \ {x}) = n
    <3>1. Cardinality(s \ {x}) = Cardinality(s) - 1
      BY <2>2, FS_RemoveElement
    <3> QED BY <2>1, <3>1
  <2>5. s \ {x} \in SUBSET D
    OBVIOUS
  <2> QED BY <1>3, <2>3, <2>4, <2>5
<1>4. \A n \in Nat : n \in N
  <2> HIDE DEF N
  <2> QED BY <1>2, <1>3, NumberInduction
<1> QED
  BY <1>1, <1>4

(* A function is defined by recursion over the subsets of a finite set.    *)
Recurses(f, D, base, ch, step) ==
  \A s \in SUBSET D : f[s] = IF s = {} THEN base ELSE step[<<ch[s], f[s \ {ch[s]}]>>]

LEMMA SubsetRecursion ==
  ASSUME NEW D, NEW Y, NEW base, NEW ch, NEW step, IsFiniteSet(D), base \in Y,
         step \in [D \X Y -> Y], ch \in [(SUBSET D) \ {{}} -> D],
         \A s \in SUBSET D : s # {} => ch[s] \in s
  PROVE  \E f \in [SUBSET D -> Y] : Recurses(f, D, base, ch, step)
<1> DEFINE C(n) == {s \in SUBSET D : Cardinality(s) <= n}
           Solves(f, n) == \A s \in C(n) :
             f[s] = IF s = {} THEN base ELSE step[<<ch[s], f[s \ {ch[s]}]>>]
           G == {n \in Nat : \E f \in [C(n) -> Y] : Solves(f, n)}
<1>1. \A s \in SUBSET D : IsFiniteSet(s) /\ Cardinality(s) \in Nat
  BY FS_Subset, FS_CardinalityType
<1>2. 0 \in G
  <2>1. \A s \in C(0) : s = {}
    BY <1>1, FS_EmptySet
  <2> DEFINE f == [s \in C(0) |-> base]
  <2>2. f \in [C(0) -> Y] /\ Solves(f, 0)
    BY <2>1
  <2> QED BY <2>2
<1>3. ASSUME NEW n \in Nat, n \in G  PROVE n + 1 \in G
  <2>1. PICK g \in [C(n) -> Y] : Solves(g, n)
    BY <1>3
  <2> DEFINE f == [s \in C(n + 1) |-> IF s = {} THEN base ELSE step[<<ch[s], g[s \ {ch[s]}]>>]]
  <2>2. ASSUME NEW s \in C(n + 1), s # {}
        PROVE  ch[s] \in D /\ s \ {ch[s]} \in C(n) /\ s \ {ch[s]} \in C(n + 1)
    <3>1. ch[s] \in s
      BY <2>2
    <3>2. Cardinality(s \ {ch[s]}) = Cardinality(s) - 1
      BY <1>1, <3>1, FS_RemoveElement
    <3> QED BY <1>1, <3>1, <3>2
  <2>3. f \in [C(n + 1) -> Y]
    BY <2>2
  <2>4. ASSUME NEW s \in C(n)  PROVE f[s] = g[s]
    <3>1. s \in C(n + 1)
      BY <1>1
    <3> QED BY <2>1, <3>1
  <2>5. Solves(f, n + 1)
    <3>1. SUFFICES ASSUME NEW s \in C(n + 1), s # {}
                   PROVE  f[s] = step[<<ch[s], f[s \ {ch[s]}]>>]
      OBVIOUS
    <3>2. f[s] = step[<<ch[s], g[s \ {ch[s]}]>>]
      BY <3>1
    <3> HIDE DEF f, C
    <3> QED BY <2>2, <2>4, <3>1, <3>2
  <2> HIDE DEF f, C, Solves
  <2>6. \E h \in [C(n + 1) -> Y] : Solves(h, n + 1)
    BY <2>3, <2>5
  <2> QED BY <2>6
<1>4. Cardinality(D) \in G
  <2>1. \A n \in Nat : n \in G
    <3> HIDE DEF G
    <3> QED BY <1>2, <1>3, NumberInduction
  <2> HIDE DEF G
  <2> QED BY <1>1, <2>1
<1>5. C(Cardinality(D)) = SUBSET D
  BY <1>1, FS_Subset
<1> QED
  BY <1>4, <1>5 DEF Recurses

LEMMA GreatestOf ==
  ASSUME NEW n \in Nat, NEW s, s \subseteq 0..n, s # {}
  PROVE  Max(s) \in s /\ \A y \in s : Max(s) >= y
<1> DEFINE T == {n - y : y \in s}
<1>1. PICK x \in T : \A y \in T : x <= y
  <2>1. PICK y \in s : TRUE
    OBVIOUS
  <2>2. n - y \in T /\ T \subseteq Nat
    BY <2>1
  <2> HIDE DEF T
  <2> QED BY <2>2, LeastOf
<1>2. n - x \in s /\ \A y \in s : n - x >= y
  BY <1>1
<1> QED
  BY <1>2 DEF Max

(* Remainders of a ring: in range, and one for each place of a window as   *)
(* long as the ring.                                                       *)
LEMMA ModBounds ==
  ASSUME NEW x \in Int, NEW n \in Nat \ {0}, NEW q, q = x \div n, NEW r, r = x % n
  PROVE  r \in 0..n - 1 /\ q \in Int /\ x = n * q + r
<1>1. n \in Int /\ n > 0
  OBVIOUS
<1>2. q \in Int
  BY <1>1
<1>3. r \in 0..n - 1
  BY <1>1
<1>4. x = n * q + r
  BY <1>1
<1> QED
  BY <1>2, <1>3, <1>4

LEMMA ModUnique ==
  ASSUME NEW n \in Nat \ {0}, NEW q \in Int, NEW r \in 0..n - 1
  PROVE  (n * q + r) % n = r
<1>1. n \in Int /\ n > 0
  OBVIOUS
<1> QED
  BY <1>1

LEMMA ModEqual ==
  ASSUME NEW x \in Int, NEW y \in Int, NEW n \in Nat \ {0}, x % n = y % n,
         NEW low \in Int, x \in low..low + n - 1, y \in low..low + n - 1
  PROVE  x = y
<1> DEFINE p == x \div n
           q == y \div n
           s == x % n
<1>1. s \in 0..n - 1 /\ p \in Int /\ x = n * p + s /\ q \in Int /\ y = n * q + s
  BY ModBounds
<1> HIDE DEF p, q, s
<1>2. n * (p - q) = x - y
  BY <1>1
<1>3. p - q = 0
  <2>1. CASE p - q >= 1
    <3>1. n * (p - q) >= n * 1
      BY <1>1, <2>1
    <3> QED BY <1>1, <1>2, <3>1
  <2>2. CASE p - q <= -1
    <3>1. n * (p - q) <= n * (-1)
      BY <1>1, <2>2
    <3> QED BY <1>1, <1>2, <3>1
  <2> QED BY <1>1, <2>1, <2>2
<1> QED
  BY <1>1, <1>3

(* Quotients are monotone, and none of less than a whole.                  *)
LEMMA DivMonotone ==
  ASSUME NEW x \in Int, NEW y \in Int, x <= y, NEW n \in Nat \ {0}
  PROVE  x \div n <= y \div n
<1> DEFINE p == x \div n
           q == y \div n
           i == x % n
           j == y % n
<1>1. i \in 0..n - 1 /\ p \in Int /\ x = n * p + i /\ j \in 0..n - 1 /\ q \in Int /\ y = n * q + j
  BY ModBounds
<1> HIDE DEF p, q, i, j
<1>2. p <= q
  <2> SUFFICES ASSUME p >= q + 1  PROVE FALSE
    BY <1>1
  <2>1. n * p >= n * (q + 1) /\ n * (q + 1) = n * q + n
    BY <1>1
  <2> QED BY <1>1, <2>1
<1> QED
  BY <1>2 DEF p, q

LEMMA DivSmall ==
  ASSUME NEW n \in Nat \ {0}, NEW x \in 0..n - 1
  PROVE  x \div n = 0
<1> DEFINE q == x \div n
           m == x % n
<1>1. x \in Int /\ x < n /\ x >= 0
  OBVIOUS
<1>2. m \in 0..n - 1 /\ q \in Int /\ x = n * q + m
  BY <1>1, ModBounds
<1> HIDE DEF q, m
<1>3. CASE q >= 1
  <2>1. n * q >= n
    BY <1>2, <1>3
  <2> QED BY <1>1, <1>2, <2>1
<1>4. CASE q <= -1
  <2>1. n * q <= -n
    BY <1>2, <1>4
  <2> QED BY <1>1, <1>2, <2>1
<1>5. q = 0
  BY <1>2, <1>3, <1>4
<1> QED
  BY <1>5 DEF q

-----------------------------------------------------------------------------
(* The recovery sweep and the commands it has to cover.                    *)
(* A command that drives is given with the yaw rate of its own speed.      *)
LEMMA DrivingCommand ==
  ASSUME TrackInv, NEW t \in Targets, GovernorUpdate(t), command'.linear # 0
  PROVE  /\ Drivable(t) /\ command'.linear \in MinSpeed..MaxSpeed
         /\ \E out \in Int : command'.angular = SafeYaw(RawYaw(t, command'.linear), out)
<1>1. /\ \A s \in Int : RawYaw(t, s) \in -MaxYaw..MaxYaw
      /\ yaw \in YawFilters
  BY RequestTyped DEF TrackInv, GovernorTypeOK, Targets
<1>2. /\ gov'.active => command'.linear = gov'.speed /\ gov'.speed >= MinSpeed
      /\ command'.linear \in 0..MaxSpeed /\ (~gov'.active => command'.linear = 0)
  <2>1. TrackInv'
    BY GovernorStep
  <2> QED BY <2>1 DEF TrackInv, GovernorTypeOK, MovesAsLimited, Commands
<1>3. command'.linear \in MinSpeed..MaxSpeed
  BY <1>2, GovernorNumbers
<1>4. ~(RotateInPlace(t) \/ TooSharp(t) \/ FinishStop(t) \/ StandStill(t) \/ Preheat(t))
  BY DEF RotateInPlace, TooSharp, FinishStop, StandStill, Preheat, TurnOnly, Publish
<1>5. ASSUME NEW v \in Int, NEW raw, raw = RawYaw(t, v), NEW y, y = YawUpdate(raw),
             command' = [linear |-> v, angular |-> SafeYaw(raw, y.out), waiting |-> FALSE]
      PROVE  \E out \in Int : command'.angular = SafeYaw(RawYaw(t, command'.linear), out)
  <2>1. raw \in Int
    BY <1>1, <1>5, GovernorNumbers
  <2>2. y \in YawFilters
    BY <1>1, <1>5, <2>1, YawUpdateTyped
  <2>3. y.out \in Int
    BY <2>2 DEF YawFilters
  <2>4. command'.linear = v /\ command'.angular = SafeYaw(raw, y.out)
    BY <1>5
  <2> QED BY <1>5, <2>3, <2>4
<1>6. CASE Move(t)
  <2> DEFINE c == Continuous(t)
             g == LimitByYaw([gov EXCEPT !.stopping = c < MinSpeed], t,
                             IF c < MinSpeed THEN MinSpeed ELSE c)
             raw == RawYaw(t, g.speed)
             y == YawUpdate(raw)
  <2>1. Drivable(t) /\ MoveBy(t, g, raw, y)
    BY <1>6 DEF Move
  <2> HIDE DEF g
  <2>2. command' = [linear |-> g.speed, angular |-> SafeYaw(raw, y.out), waiting |-> FALSE]
    BY <2>1 DEF MoveBy, Publish
  <2>3. g.speed \in Int
    <3>1. command'.linear = g.speed
      BY <2>2
    <3> QED BY <1>3, <3>1, GovernorNumbers
  <2> HIDE DEF raw, y
  <2> QED BY <1>3, <1>5, <2>1, <2>2, <2>3 DEF raw, y
<1>7. CASE Launch(t)
  <2> DEFINE raw == RawYaw(t, MinSpeed)
             y == YawUpdate(raw)
  <2>1. Drivable(t) /\ command' = [linear |-> MinSpeed, angular |-> SafeYaw(raw, y.out), waiting |-> FALSE]
    BY <1>7 DEF Launch, Launching, LaunchYaw, Publish
  <2> HIDE DEF raw, y
  <2> QED BY <1>3, <1>5, <2>1, GovernorNumbers DEF raw, y
<1> QED
  BY <1>4, <1>6, <1>7 DEF GovernorUpdate

(* The yaw rate that goes out: none, or to the side of the raw one, and    *)
(* there the least of the robot or no more than the raw one.               *)
LEMMA SafeYawSides ==
  ASSUME NEW raw \in -MaxYaw..MaxYaw, NEW out \in Int, NEW w, w = SafeYaw(raw, out), w # 0
  PROVE  \E s \in {-1, 1} : /\ s * raw \in Int /\ s * w \in Int /\ s * s = 1
                            /\ s * raw > SignBand /\ s * w > 0
                            /\ s * w = MinYaw \/ s * w <= s * raw
<1>1. raw \in Int /\ MaxYaw \in Nat /\ SignBand \in Nat /\ MinYaw \in Nat
  BY GovernorNumbers
<1>2. GovAbs(raw) > SignBand /\ GovSign(raw) = GovSign(out) /\ raw # 0
  BY <1>1 DEF SafeYaw, SignWithDeadband, GovAbs, GovSign
<1>3. w = GovSign(raw) * (IF GovAbs(raw) < MinYaw THEN MinYaw
                          ELSE IF GovAbs(out) < GovAbs(raw) THEN GovAbs(out) ELSE GovAbs(raw))
  BY <1>1, <1>2 DEF SafeYaw, SignWithDeadband
<1>4. PICK q \in Int : w = GovSign(raw) * q /\ (q = MinYaw \/ q <= GovAbs(raw)) /\ q >= 0
  BY <1>1, <1>3 DEF GovAbs
<1>5. CASE raw > 0
  <2>1. w = q /\ GovAbs(raw) = raw
    BY <1>1, <1>4, <1>5 DEF GovSign, GovAbs
  <2>2. 1 * raw = raw /\ 1 * w = w /\ 1 * 1 = 1
    BY <1>1, <2>1
  <2> QED BY <1>1, <1>2, <1>4, <2>1, <2>2
<1>6. CASE raw < 0
  <2>1. w = -q /\ GovAbs(raw) = -raw
    BY <1>1, <1>4, <1>6 DEF GovSign, GovAbs
  <2>2. (-1) * raw = -raw /\ (-1) * w = q /\ (-1) * (-1) = 1 /\ -raw \in Int
    BY <1>1, <2>1
  <2> QED BY <1>1, <1>2, <1>4, <2>1, <2>2
<1> QED
  BY <1>1, <1>2, <1>5, <1>6

(* A quotient that is reached is a product that fits.                      *)
LEMMA ProductFits ==
  ASSUME NEW x \in Int, NEW y \in Int, y > 0, NEW m \in Int, x \div y >= m
  PROVE  m * y <= x
<1> DEFINE q == x \div y
           r == x % y
<1>1. y \in Nat \ {0}
  OBVIOUS
<1>2. r \in 0..y - 1 /\ q \in Int /\ x = y * q + r
  BY <1>1, ModBounds
<1>3. q >= m
  OBVIOUS
<1> HIDE DEF q, r
<1>4. y * q >= y * m
  BY <1>1, <1>2, <1>3
<1>5. y * m = m * y /\ y * m \in Int /\ y * q \in Int
  BY <1>1, <1>2
<1> QED
  BY <1>2, <1>4, <1>5

(* The yaw rate of a speed v against those of the sweep, with the side it  *)
(* turns to taken as positive: K is the curvature, H the rate for the      *)
(* heading, q the rate that goes out.                                      *)
RateFor(v, K, H) == ClampYaw(v * K + H)
RateTaken(v, K, H, q) ==
  /\ MinSpeed <= v /\ RateFor(v, K, H) > DeadYaw
  /\ K > 0 => MinSpeed * K + H <= MaxYaw
  /\ q = MinYaw \/ q <= RateFor(v, K, H)
RateSwept(v, K, H, q) ==
  \/ q * MinSpeed <= (MinSpeed * K) * v
  \/ q * MinSpeed <= RateFor(MinSpeed, K, H) * v
  \/ /\ q = MinYaw /\ q * MinSpeed <= MinYaw * v
     /\ RateFor(MinSpeed, K, H) > DeadYaw \/ K > 0 \/ (K = 0 /\ H > DeadYaw)

LEMMA RateIsSwept ==
  ASSUME NEW v \in Int, NEW K \in Int, NEW H \in Int, NEW q \in Nat, RateTaken(v, K, H, q)
  PROVE  RateSwept(v, K, H, q)
<1> DEFINE M == MinSpeed
           R == RateFor(v, K, H)
           R0 == RateFor(M, K, H)
<1>0. /\ M \in Nat /\ M > 0 /\ M <= v /\ R > DeadYaw
      /\ R = ClampYaw(v * K + H) /\ R0 = ClampYaw(M * K + H)
      /\ K > 0 => M * K + H <= MaxYaw
      /\ q = MinYaw \/ q <= R
  BY GovernorNumbers DEF RateTaken, RateFor
<1> SUFFICES \/ q * M <= (M * K) * v
             \/ q * M <= R0 * v
             \/ /\ q = MinYaw /\ q * M <= MinYaw * v
                /\ R0 > DeadYaw \/ K > 0 \/ (K = 0 /\ H > DeadYaw)
  BY DEF RateSwept
<1> HIDE DEF M, R, R0
<1> DEFINE P == v * K
           Q == M * K
<1>1. /\ P \in Int /\ Q \in Int /\ v \in Nat /\ MaxYaw \in Nat /\ DeadYaw \in Nat
      /\ MinYaw \in Nat /\ R = ClampYaw(P + H) /\ R0 = ClampYaw(Q + H)
  BY <1>0, GovernorNumbers
<1>2. /\ K > 0 => (P >= Q /\ Q >= 0 /\ Q + H <= MaxYaw)
      /\ K <= 0 => (P <= Q /\ P <= 0)
      /\ K = 0 => (P = 0 /\ Q = 0)
  BY <1>0
<1>3. M * P = Q * v
  BY <1>0
<1> HIDE DEF P, Q
<1>4. /\ R \in Int /\ R0 \in Int /\ R <= P + H /\ R <= MaxYaw /\ P + H > DeadYaw
      /\ Q + H > MaxYaw => R0 = MaxYaw
      /\ (Q + H <= MaxYaw /\ Q + H >= 0) => R0 = Q + H
  BY <1>0, <1>1 DEF ClampYaw, Within
<1>5. CASE q = MinYaw
  <2>1. q * M <= MinYaw * v
    BY <1>0, <1>1, <1>5
  <2>2. K < 0 => R0 > DeadYaw
    BY <1>0, <1>1, <1>2, <1>4
  <2>3. K = 0 => H > DeadYaw
    BY <1>0, <1>1, <1>2, <1>4
  <2> QED BY <1>0, <1>5, <2>1, <2>2, <2>3
<1>6. CASE q <= R /\ H <= 0
  <2>1. q <= P
    BY <1>0, <1>1, <1>4, <1>6
  <2>2. q * M <= M * P
    BY <1>0, <1>1, <2>1
  <2> QED BY <1>0, <1>3, <2>2 DEF Q
<1>7. CASE q <= R /\ H > 0
  <2>1. CASE Q + H > MaxYaw
    <3>1. R0 = MaxYaw /\ q <= R0
      BY <1>0, <1>1, <1>4, <1>7, <2>1
    <3>2. q * M <= R0 * M /\ R0 * M <= R0 * v
      BY <1>0, <1>1, <3>1
    <3>3. q * M \in Int /\ R0 * M \in Int /\ R0 * v \in Int
      BY <1>0, <1>1, <1>4
    <3> QED BY <3>2, <3>3
  <2>2. CASE Q + H <= MaxYaw
    <3>1. Q + H >= 0
      BY <1>0, <1>1, <1>2, <1>4, <1>7
    <3>2. R0 = Q + H
      BY <1>0, <1>4, <2>2, <3>1
    <3>3. q <= P + H
      BY <1>0, <1>1, <1>4, <1>7
    <3>4. q * M <= M * (P + H) /\ M * (P + H) = M * P + M * H
      BY <1>0, <1>1, <3>3
    <3>5. M * H <= v * H /\ R0 * v = Q * v + v * H
      BY <1>0, <1>1, <1>7, <3>2
    <3>6. {q * M, M * P, M * H, v * H, Q * v, R0 * v} \subseteq Int
      BY <1>0, <1>1, <1>4
    <3> QED BY <1>0, <1>3, <3>4, <3>5, <3>6
  <2> QED BY <1>0, <1>1, <2>1, <2>2
<1> QED
  BY <1>0, <1>1, <1>4, <1>5, <1>6, <1>7

(* Clamping does not tell the sides apart.                                 *)
LEMMA ClampMirrored ==
  ASSUME NEW s \in {-1, 1}, NEW x \in Int  PROVE s * ClampYaw(x) = ClampYaw(s * x)
<1>1. MaxYaw \in Nat /\ ClampYaw(x) \in Int /\ -x \in Int
  BY GovernorNumbers, ClampedYaw
<1>2. ClampYaw(-x) = -ClampYaw(x)
  BY <1>1 DEF ClampYaw, Within
<1>3. CASE s = 1
  BY <1>1, <1>3
<1>4. CASE s = -1
  <2>1. (-1) * x = -x /\ (-1) * ClampYaw(x) = -ClampYaw(x)
    BY <1>1
  <2> QED BY <1>2, <1>4, <2>1
<1> QED
  BY <1>3, <1>4

(* What drives at all is close enough in heading, ahead, and an arc that   *)
(* fits the yaw rate at MinSpeed.                                          *)
LEMMA DrivenIsSwept ==
  ASSUME NEW o \in Observations, NEW t, t = Compute(o), Drivable(t)
  PROVE  /\ ~Aligns(o) /\ SweepsTrack(o)
         /\ t.curvature = o.curvature /\ t.heading = RecoveryHeading(o)
<1>1. /\ o.error \in Int /\ o.curvature \in Int /\ o.ahead \in BOOLEAN
      /\ AlignExit \in Nat /\ AlignEnter \in Nat /\ AlignExit < AlignEnter
  BY TrackAssumption, TrackNumbers
<1>2. ~t.rotate /\ HardLimit(t) >= MinSpeed
  BY DEF Drivable
<1>3. ~Aligns(o) /\ o.ahead
  BY <1>2 DEF Compute, AlignTarget, BehindTarget, Rotation
<1>4. t = TrackTarget(o)
  BY <1>3 DEF Compute, TrackedTargets
<1> DEFINE h == RecoveryHeading(o)
           k == o.curvature
<1>5. t.hard = HardSpeed(k, h) /\ t.curvature = k /\ t.heading = h
  BY <1>4 DEF TrackTarget, RecoveryHeading
<1>6. GovAbs(o.error) < AlignEnter
  BY <1>1, <1>3 DEF Aligns, GovAbs
<1>7. h \in Int
  <2>1. HeadingGain * o.error \in Int
    BY <1>1 DEF HeadingGain
  <2> QED BY <2>1, PercentInt DEF RecoveryHeading
<1> HIDE DEF h
<1>8. ASSUME k # 0  PROVE MinSpeed * GovAbs(k) + GovSign(k) * h <= MaxYaw
  <2> DEFINE b == MaxYaw - YawReserve - GovSign(k) * h
             c == IF b < 0 THEN 0 ELSE b
             y == GovAbs(k)
             q == c \div y
             r == SpeedRoot(LateralLimit \div y)
  <2>1. /\ GovSign(k) \in Int /\ y \in Nat /\ y > 0 /\ GovSign(k) * h \in Int
        /\ MaxYaw \in Nat /\ YawReserve \in Nat /\ MinSpeed \in Nat /\ MinSpeed > 0
        /\ MaxSpeed \in Nat
    <3>1. GovSign(k) \in Int /\ y \in Nat /\ y > 0
      BY <1>1, <1>8 DEF GovSign, GovAbs
    <3>2. GovSign(k) * h \in Int
      BY <1>7, <3>1
    <3> QED BY <3>1, <3>2, GovernorNumbers, TrackNumbers
  <2>2. t.hard = Within(Least(q, r), 0, MaxSpeed)
    BY <1>5, <1>8 DEF HardSpeed
  <2>3. b \in Int /\ c \in Nat
    BY <2>1
  <2> HIDE DEF y
  <2>4. LateralLimit \div y \in Nat
    <3>1. LateralLimit \in Nat /\ y \in Nat \ {0}
      BY <2>1, TrackNumbers
    <3> QED BY <3>1, ModBounds
  <2>5. r \in Int
    BY <2>4, SpeedRootExists
  <2>6. q \in Int
    <3> HIDE DEF c
    <3> QED BY <2>1, <2>3
  <2> HIDE DEF q, r
  <2>7. q >= MinSpeed
    BY <1>2, <2>1, <2>2, <2>5, <2>6 DEF HardLimit, Within, Least
  <2>8. MinSpeed * y <= c
    <3>1. c \div y >= MinSpeed
      BY <2>7 DEF q
    <3> HIDE DEF c
    <3> QED BY <2>1, <2>3, <3>1, ProductFits
  <2>9. MinSpeed * y > 0 /\ MinSpeed * y \in Int
    BY <2>1
  <2>10. MinSpeed * y <= b
    BY <2>3, <2>8, <2>9
  <2> QED BY <2>1, <2>9, <2>10 DEF y
<1> QED
  BY <1>3, <1>5, <1>6, <1>8 DEF SweepsTrack, h

(* One curve of the sweep on the side the robot turns to is enough, since  *)
(* straight on is always another.                                          *)
LEMMA SweptBetween ==
  ASSUME NEW o, NEW c \in Int, c \in Candidates(o), NEW v \in Int, NEW w \in Int,
         NEW s \in {-1, 1}, s * w >= 0, (s * w) * MinSpeed <= (s * c) * v
  PROVE  Swept(o, v, w)
<1>1. 0 \in Candidates(o) /\ 0 * v = 0 /\ MinSpeed \in Nat
  BY GovernorNumbers DEF Candidates
<1>2. CASE s = 1
  <2>1. s * w = w /\ s * c = c
    BY <1>2
  <2>2. w * MinSpeed >= 0 /\ w * MinSpeed <= c * v
    BY <1>1, <2>1
  <2> QED BY <1>1, <2>2 DEF Swept
<1>3. CASE s = -1
  <2>1. s * w = -w /\ s * c = -c
    BY <1>3
  <2>2. (-w) * MinSpeed = -(w * MinSpeed) /\ (-c) * v = -(c * v)
    BY <1>1
  <2>3. w <= 0 /\ w * MinSpeed \in Int /\ c * v \in Int
    BY <1>1, <2>1
  <2>4. w * MinSpeed <= 0
    BY <1>1, <2>3
  <2>5. c * v <= w * MinSpeed
    BY <2>1, <2>2, <2>3
  <2> QED BY <1>1, <2>4, <2>5 DEF Swept
<1> QED
  BY <1>2, <1>3

(* The yaw rates of the controller at any speed it drives at.              *)
LEMMA RateWithinSweep ==
  ASSUME SignBand = DeadYaw, NEW o \in Observations, SweepsTrack(o),
         NEW v \in MinSpeed..MaxSpeed, NEW out \in Int, NEW raw,
         raw = ClampYaw(v * o.curvature + RecoveryHeading(o)), NEW w, w = SafeYaw(raw, out)
  PROVE  Swept(o, v, w)
<1> DEFINE k == o.curvature
           h == RecoveryHeading(o)
           raw0 == ClampYaw(MinSpeed * k + h)
<1>1. k \in Int /\ h \in Int /\ MinSpeed \in Nat /\ 0 < MinSpeed /\ v \in Int /\ v >= MinSpeed
      /\ MaxYaw \in Nat /\ MinYaw \in Nat /\ DeadYaw \in Nat
  <2>1. o.error \in Int /\ o.curvature \in Int
    BY TrackAssumption
  <2>2. HeadingGain * o.error \in Int
    BY <2>1 DEF HeadingGain
  <2> QED BY <2>1, <2>2, PercentInt, GovernorNumbers DEF RecoveryHeading
<1>2. k # 0 => MinSpeed * GovAbs(k) + GovSign(k) * h <= MaxYaw
  BY DEF SweepsTrack
<1>3. Candidates(o) = {0, MinSpeed * k, raw0} \cup
        {s * MinYaw : s \in {t \in {-1, 1} : \/ t * raw0 > DeadYaw \/ t * k > 0
                                             \/ k = 0 /\ t * h > DeadYaw}}
  BY DEF Candidates
<1>4. v * k + h \in Int /\ MinSpeed * k + h \in Int /\ MinSpeed * k \in Int
  BY <1>1
<1>5. raw \in -MaxYaw..MaxYaw /\ raw0 \in Int
  BY <1>1, <1>4, ClampedYaw
<1>6. raw = ClampYaw(v * k + h)
  OBVIOUS
<1>7. w \in Int
  BY <1>1, <1>5, SafeYawTyped
<1> HIDE DEF k, h, raw0
<1>8. CASE w = 0
  <2>1. 0 \in Candidates(o) /\ 1 \in {-1, 1} /\ (1 * w) * MinSpeed <= (1 * 0) * v /\ 1 * w >= 0
    BY <1>1, <1>3, <1>8
  <2> QED BY <1>1, <1>7, <2>1, SweptBetween
<1>9. CASE w # 0
  <2>1. PICK s \in {-1, 1} : /\ s * raw \in Int /\ s * w \in Int /\ s * s = 1
                             /\ s * raw > DeadYaw /\ s * w > 0
                             /\ s * w = MinYaw \/ s * w <= s * raw
    BY <1>5, <1>9, SafeYawSides
  <2> DEFINE K == s * k
             H == s * h
             R == s * raw
             R0 == s * raw0
             q == s * w
  <2>2. K \in Int /\ H \in Int /\ q \in Nat /\ s \in Int
    BY <1>1, <2>1
  <2>3. R = ClampYaw(v * K + H) /\ R0 = ClampYaw(MinSpeed * K + H)
    <3>1. s * (v * k + h) = v * K + H /\ s * (MinSpeed * k + h) = MinSpeed * K + H
      BY <1>1
    <3>2. raw0 = ClampYaw(MinSpeed * k + h)
      BY DEF raw0
    <3> QED BY <1>4, <1>6, <3>1, <3>2, ClampMirrored
  <2>4. K > 0 => MinSpeed * K + H <= MaxYaw
    <3>1. ASSUME K > 0  PROVE k # 0 /\ GovAbs(k) = K /\ GovSign(k) = s
      <4>1. CASE s = 1
        BY <1>1, <3>1, <4>1 DEF GovAbs, GovSign
      <4>2. CASE s = -1
        BY <1>1, <3>1, <4>2 DEF GovAbs, GovSign
      <4> QED BY <4>1, <4>2
    <3> QED BY <1>2, <3>1
  <2>5. s * (MinSpeed * k) = MinSpeed * K /\ s * (s * MinYaw) = MinYaw /\ s * MinYaw \in Int
    BY <1>1, <2>1
  <2>6. \/ q * MinSpeed <= (MinSpeed * K) * v
        \/ q * MinSpeed <= R0 * v
        \/ /\ q = MinYaw /\ q * MinSpeed <= MinYaw * v
           /\ R0 > DeadYaw \/ K > 0 \/ (K = 0 /\ H > DeadYaw)
    <3>1. R > DeadYaw /\ (q = MinYaw \/ q <= R)
      BY <2>1
    <3> HIDE DEF K, H, R, R0, q
    <3>2. RateTaken(v, K, H, q)
      BY <1>1, <2>3, <2>4, <3>1 DEF RateTaken, RateFor
    <3>3. RateSwept(v, K, H, q)
      BY <1>1, <2>2, <3>2, RateIsSwept
    <3> QED BY <2>3, <3>3 DEF RateSwept, RateFor
  <2>7. CASE q * MinSpeed <= (MinSpeed * K) * v
    <3>1. MinSpeed * k \in Candidates(o)
      BY <1>3
    <3>2. (s * w) * MinSpeed <= (s * (MinSpeed * k)) * v /\ s * w >= 0
      BY <2>1, <2>5, <2>7
    <3> QED BY <1>1, <1>4, <1>7, <3>1, <3>2, SweptBetween
  <2>8. CASE q * MinSpeed <= R0 * v
    <3>1. raw0 \in Candidates(o)
      BY <1>3
    <3>2. (s * w) * MinSpeed <= (s * raw0) * v /\ s * w >= 0
      BY <2>1, <2>8
    <3> QED BY <1>1, <1>5, <1>7, <3>1, <3>2, SweptBetween
  <2>9. CASE /\ q = MinYaw /\ q * MinSpeed <= MinYaw * v
             /\ R0 > DeadYaw \/ K > 0 \/ (K = 0 /\ H > DeadYaw)
    <3>1. s * MinYaw \in Candidates(o)
      <4>1. K = 0 => k = 0
        BY <1>1, <2>1
      <4>2. s \in {t \in {-1, 1} : \/ t * raw0 > DeadYaw \/ t * k > 0
                                   \/ k = 0 /\ t * h > DeadYaw}
        BY <2>9, <4>1
      <4> QED BY <1>3, <4>2
    <3>2. (s * w) * MinSpeed <= (s * (s * MinYaw)) * v /\ s * w >= 0
      BY <2>1, <2>5, <2>9
    <3> QED BY <1>1, <1>7, <2>5, <3>1, <3>2, SweptBetween
  <2> QED BY <2>6, <2>7, <2>8, <2>9
<1> QED
  BY <1>8, <1>9

(* An alignment goes on only above its exit error, where its yaw rate is   *)
(* enough to be swept.                                                     *)
LEMMA AlignedIsSwept ==
  ASSUME AlignGain * (AlignExit + 1) >= 100 * StartYaw, NEW o \in Observations, Aligns(o)
  PROVE  SweepsAlignment(o)
<1>1. /\ o.error \in Int /\ AlignExit \in Nat /\ AlignExit < AlignEnter /\ AlignEnter \in Nat
      /\ StartYaw \in Nat /\ MaxYaw \in Nat /\ StartYaw <= MaxYaw
  BY TrackAssumption, TrackNumbers, GovernorNumbers, GovernorAssumption
<1> DEFINE e == GovAbs(o.error)
<1>2. e \in Nat /\ e > AlignExit
  BY <1>1 DEF Aligns, GovAbs
<1>3. GovAbs(AlignGain * o.error) = AlignGain * e /\ AlignGain * o.error \in Int
  BY <1>1 DEF GovAbs, AlignGain
<1> HIDE DEF e
<1> DEFINE x == AlignGain * o.error
           q == GovAbs(x) \div 100
<1>4. GovAbs(x) >= 100 * StartYaw /\ GovAbs(x) \in Nat
  BY <1>1, <1>2, <1>3 DEF AlignGain
<1>5. x # 0 \/ StartYaw = 0
  BY <1>1, <1>4 DEF GovAbs
<1> HIDE DEF x
<1>6. q \in Nat /\ q >= StartYaw
  BY <1>1, <1>4
<1> HIDE DEF q
<1>7. GovAbs(Percent(x)) >= StartYaw /\ Percent(x) \in Int
  <2>1. Percent(x) = GovSign(x) * q
    BY DEF Percent, q
  <2>2. GovSign(x) \in {-1, 0, 1} /\ (GovSign(x) = 0 => StartYaw = 0)
    BY <1>3, <1>5 DEF GovSign, x
  <2>3. CASE GovSign(x) = 0
    BY <1>6, <2>1, <2>2, <2>3 DEF GovAbs
  <2>4. CASE GovSign(x) = 1
    BY <1>6, <2>1, <2>4 DEF GovAbs
  <2>5. CASE GovSign(x) = -1
    BY <1>1, <1>6, <2>1, <2>5 DEF GovAbs
  <2> QED BY <2>2, <2>3, <2>4, <2>5
<1>8. GovAbs(ClampYaw(Percent(x))) >= StartYaw
  BY <1>1, <1>7 DEF ClampYaw, Within, GovAbs
<1> QED
  BY <1>2, <1>8 DEF SweepsAlignment, e, x

(* What the two processes have to agree on, beyond what setConfig of       *)
(* either demands: yaw_rate_deadband is the one value behind the governor's*)
(* direction deadband and the filter's (closed_loop_controller.cpp:87-101, *)
(* 192) and is the planner's as well (scan_replan_fsm.cpp:201), and the    *)
(* alignment gain at the exit error gives at least the yaw rate at which a *)
(* rotation is swept (controllers.yaml: 0.80 * 0.45 against 0.06).         *)
SweepDeployment ==
  SignBand = DeadYaw /\ AlignGain * (AlignExit + 1) >= 100 * StartYaw

LEMMA SweptStep ==
  ASSUME SweepDeployment, TrackInv, SweepCoversCommand, [TrackNext]_trackVars
  PROVE  SweepCoversCommand'
<1>1. CASE UNCHANGED trackVars
  BY <1>1 DEF SweepCoversCommand, trackVars, Finishing, Swept, SweepsTrack, SweepsAlignment,
              Candidates, RecoveryHeading
<1>2. CASE ImmediateStop
  BY <1>2 DEF ImmediateStop, Unheld, SweepCoversCommand
<1>3. ASSUME NEW o \in Observations, Track(o)  PROVE SweepCoversCommand'
  <2>1. held'.seen = o /\ aligning' = Aligns(o)
    BY <1>3 DEF Track, Hold
  <2>2. GovernorUpdate(Compute(o)) /\ Compute(o) \in Targets
    BY <1>3, ComputeTyped DEF Track
  <2>3. Aligns(o) => SweepsAlignment(o)
    BY AlignedIsSwept DEF SweepDeployment
  <2>4. ASSUME command'.linear > 0
        PROVE  SweepsTrack(o) /\ Swept(o, command'.linear, command'.angular)
    <3> DEFINE t == Compute(o)
               v == command'.linear
    <3>1. v # 0
      BY <2>4
    <3>2. /\ Drivable(t) /\ v \in MinSpeed..MaxSpeed
          /\ \E out \in Int : command'.angular = SafeYaw(RawYaw(t, v), out)
      <4> HIDE DEF t
      <4> QED BY <2>2, <3>1, DrivingCommand DEF t
    <3>3. SweepsTrack(o) /\ t.curvature = o.curvature /\ t.heading = RecoveryHeading(o)
      BY <3>2, DrivenIsSwept
    <3>4. PICK out \in Int : command'.angular = SafeYaw(RawYaw(t, v), out)
      BY <3>2
    <3>5. RawYaw(t, v) = ClampYaw(v * o.curvature + RecoveryHeading(o))
      BY <3>3 DEF RawYaw
    <3> DEFINE w == command'.angular
    <3> HIDE DEF t, v, w
    <3>6. Swept(o, v, w)
      BY <3>2, <3>3, <3>4, <3>5, RateWithinSweep DEF SweepDeployment, w
    <3> QED BY <3>3, <3>6 DEF v, w
  <2> QED BY <2>1, <2>3, <2>4 DEF SweepCoversCommand
<1>4. ASSUME NEW o \in Observations, Finish(o)  PROVE SweepCoversCommand'
  BY <1>4 DEF Finish, Hold, SweepCoversCommand
<1> QED
  BY <1>1, <1>2, <1>3, <1>4 DEF TrackNext

(* Every command the controller gives for what it sees of the path was     *)
(* covered by what the planner swept of the same path before it let the    *)
(* robot go on: the arc lies between two swept curves whatever the speed,  *)
(* the state of the filter and of a reversal, and a rotation on the spot   *)
(* was swept wherever the controller starts or goes on with one            *)
(* (samplePurePursuitRecoverySweep, pure_pursuit_recovery_sweep.h, against *)
(* PathTrackingController::compute and PathCommandGovernor::update).       *)
THEOREM SweepIsEnough == SweepDeployment /\ TrackSpec => []SweepCoversCommand
<1>1. TrackInit => SweepCoversCommand
  BY DEF TrackInit, Unheld, SweepCoversCommand
<1>2. SweepDeployment /\ TrackInv /\ SweepCoversCommand /\ [TrackNext]_trackVars
        => SweepCoversCommand'
  BY SweptStep
<1>3. SweepDeployment => []SweepDeployment
  <2>1. SweepDeployment => SweepDeployment'
    BY DEF SweepDeployment
  <2> QED BY <2>1, PTL
<1> QED
  BY <1>1, <1>2, <1>3, CommandsWithinLimits, PTL DEF TrackSpec

-----------------------------------------------------------------------------
(* Polylines.                                                              *)
Places == Int \X Int

(* The fold by which the constructor drops repeated points.                *)
KeepNew(kept, p) == IF kept # <<>> /\ Last(kept) = p THEN kept ELSE Append(kept, p)

LEMMA KeepNewTyped ==
  ASSUME NEW kept \in Seq(Places), NEW p \in Places
  PROVE  /\ KeepNew(kept, p) \in Seq(Places)
         /\ (\A i \in 1..Len(kept) - 1 : kept[i] # kept[i + 1])
              => \A i \in 1..Len(KeepNew(kept, p)) - 1 : KeepNew(kept, p)[i] # KeepNew(kept, p)[i + 1]
<1>1. CASE kept # <<>> /\ Last(kept) = p
  BY <1>1 DEF KeepNew
<1>2. CASE ~(kept # <<>> /\ Last(kept) = p)
  <2>1. KeepNew(kept, p) = Append(kept, p)
    BY <1>2 DEF KeepNew
  <2>2. kept # <<>> => kept[Len(kept)] # p
    BY <1>2 DEF Last
  <2> QED BY <2>1, <2>2
<1> QED
  BY <1>1, <1>2

LEMMA DistinctTyped ==
  ASSUME NEW points \in Seq(Places)
  PROVE  /\ Distinct(points) \in Seq(Places)
         /\ \A i \in 1..Len(Distinct(points)) - 1 : Distinct(points)[i] # Distinct(points)[i + 1]
<1> DEFINE D == DOMAIN points
           Y == {q \in Seq(Places) : \A i \in 1..Len(q) - 1 : q[i] # q[i + 1]}
           Solves(f) == f = [s \in SUBSET D |->
                               IF s = {} THEN <<>> ELSE KeepNew(f[s \ {Max(s)}], points[Max(s)])]
           iter == CHOOSE f : Solves(f)
           ch   == [s \in (SUBSET D) \ {{}} |-> Max(s)]
           step == [z \in D \X Y |-> KeepNew(z[2], points[z[1]])]
           base == <<>>
<1>1. Distinct(points) = iter[D]
  BY DEF Distinct, FoldLeft, MapThenFoldSet, KeepNew
<1>2. D = 1..Len(points) /\ IsFiniteSet(D) /\ Len(points) \in Nat
  BY FS_Interval
<1>3. ASSUME NEW s \in SUBSET D, s # {}  PROVE Max(s) \in s
  <2>1. s \subseteq 0..Len(points)
    BY <1>2
  <2> QED BY <1>2, <1>3, <2>1, GreatestOf
<1>4. <<>> \in Y
  OBVIOUS
<1>5. ASSUME NEW q \in Y, NEW i \in D  PROVE KeepNew(q, points[i]) \in Y
  <2>1. points[i] \in Places
    BY <1>2
  <2> QED BY <2>1, KeepNewTyped
<1>6. \E f : Solves(f)
  <2>0. ch \in [(SUBSET D) \ {{}} -> D]
    BY <1>3
  <2>1. \A s \in SUBSET D : s # {} => ch[s] \in s
    BY <1>3
  <2>2. step \in [D \X Y -> Y]
    BY <1>5
  <2>3. IsFiniteSet(D) /\ base \in Y
    BY <1>2, <1>4
  <2> HIDE DEF D, Y, ch, step, base
  <2>4. PICK f \in [SUBSET D -> Y] : Recurses(f, D, base, ch, step)
    BY <2>0, <2>1, <2>2, <2>3, SubsetRecursion
  <2>5. \A s \in SUBSET D : f[s] = IF s = {} THEN base ELSE step[<<ch[s], f[s \ {ch[s]}]>>]
    BY <2>4 DEF Recurses
  <2>6. ASSUME NEW s \in SUBSET D, s # {}
        PROVE  f[s] = KeepNew(f[s \ {Max(s)}], points[Max(s)])
    <3>1. ch[s] = Max(s) /\ Max(s) \in D
      BY <1>3, <2>6 DEF ch
    <3>2. f[s \ {Max(s)}] \in Y
      OBVIOUS
    <3>3. step[<<Max(s), f[s \ {Max(s)}]>>] = KeepNew(f[s \ {Max(s)}], points[Max(s)])
      BY <3>1, <3>2 DEF step
    <3> QED BY <2>5, <2>6, <3>1, <3>3
  <2>7. \A s \in SUBSET D :
          f[s] = IF s = {} THEN <<>> ELSE KeepNew(f[s \ {Max(s)}], points[Max(s)])
    BY <2>5, <2>6 DEF base
  <2>8. Solves(f)
    BY <2>7
  <2> QED BY <2>8
<1>7. Solves(iter)
  <2> HIDE DEF Solves
  <2> QED BY <1>6
<1> HIDE DEF iter
<1> DEFINE G == {s \in SUBSET D : iter[s] \in Y}
<1>8. {} \in G
  BY <1>4, <1>7
<1>9. ASSUME NEW s \in SUBSET D, s # {}  PROVE \E x \in s : s \ {x} \in G => s \in G
  <2>1. Max(s) \in s
    BY <1>3, <1>9
  <2>2. iter[s] = KeepNew(iter[s \ {Max(s)}], points[Max(s)])
    BY <1>7, <1>9
  <2>3. s \ {Max(s)} \in G => s \in G
    BY <1>5, <2>1, <2>2
  <2> QED BY <2>1, <2>3
<1>10. D \in G
  <2>1. IsFiniteSet(D)
    BY <1>2
  <2>2. \A s \in SUBSET D : s # {} => \E x \in s : s \ {x} \in G => s \in G
    BY <1>9
  <2> HIDE DEF G, D
  <2>3. \A s \in SUBSET D : s \in G
    BY <1>8, <2>1, <2>2, SetInduction
  <2> QED BY <2>3
<1> QED
  BY <1>1, <1>10

LEMMA LegTyped ==
  ASSUME NEW p \in Places, NEW q \in Places
  PROVE  /\ Leg(p, q) \in Nat /\ (Leg(p, q) = 0 <=> p = q) /\ Leg(p, q) = Leg(q, p)
         /\ Square(p, q) \in Nat /\ Square(p, q) <= Leg(p, q) * Leg(p, q)
<1>1. PICK a, b, c, d \in Int : p = <<a, b>> /\ q = <<c, d>>
  BY DEF Places
<1>2. Leg(p, q) = Gap(a - c) + Gap(b - d) /\ Leg(q, p) = Gap(c - a) + Gap(d - b)
  BY <1>1 DEF Leg
<1>3. Square(p, q) = (a - c) * (a - c) + (b - d) * (b - d)
  BY <1>1 DEF Square, Dot, Minus
<1>4. /\ Gap(a - c) \in Nat /\ Gap(b - d) \in Nat
      /\ Gap(c - a) = Gap(a - c) /\ Gap(d - b) = Gap(b - d)
  BY DEF Gap
<1>5. ASSUME NEW x \in Int  PROVE x * x = Gap(x) * Gap(x)
  BY DEF Gap
<1> DEFINE u == Gap(a - c)
           v == Gap(b - d)
<1>6. Square(p, q) = u * u + v * v
  BY <1>3, <1>5
<1>7. u \in Nat /\ v \in Nat
  BY <1>4
<1>8. (u = 0 <=> a = c) /\ (v = 0 <=> b = d)
  BY DEF Gap
<1>9. Leg(p, q) = u + v /\ Leg(q, p) = u + v
  BY <1>2, <1>4
<1> HIDE DEF u, v
<1>10. u * u + v * v <= (u + v) * (u + v)
  BY <1>7
<1> QED
  BY <1>1, <1>6, <1>7, <1>8, <1>9, <1>10

(* What the constructor makes: an arc length for each point, rising, and   *)
(* the closing segment of a loop behind the last.                          *)
IsRoute(r) ==
  /\ r.pts \in Seq(Places) /\ Len(r.pts) >= 2 /\ r.closed \in BOOLEAN
  /\ r.cum \in [1..Len(r.pts) -> Nat] /\ r.cum[1] = 0
  /\ \A i \in 1..Len(r.pts) - 1 : r.cum[i] < r.cum[i + 1]
  /\ r.total \in Nat
  /\ IF r.closed THEN r.total > r.cum[Len(r.pts)] ELSE r.total = r.cum[Len(r.pts)]

RisesBy(pts, cum) ==
  /\ cum \in [1..Len(pts) -> Nat] /\ cum[1] = 0
  /\ \A i \in 1..Len(pts) - 1 : cum[i] < cum[i + 1] /\ cum[i + 1] = cum[i] + Leg(pts[i], pts[i + 1])

LEMMA ArcLengths ==
  ASSUME NEW pts \in Seq(Places), NEW n, n = Len(pts), n >= 2,
         \A i \in 1..n - 1 : pts[i] # pts[i + 1],
         NEW cum, cum = CHOOSE f : f = [i \in 1..n |-> IF i = 1 THEN 0
                                                       ELSE f[i - 1] + Leg(pts[i - 1], pts[i])]
  PROVE  RisesBy(pts, cum)
<1> DEFINE Solves(f, k) == f = [i \in 1..k |-> IF i = 1 THEN 0
                                               ELSE f[i - 1] + Leg(pts[i - 1], pts[i])]
           G == {k \in Nat : k \in 1..n => \E f \in [1..k -> Nat] : Solves(f, k)}
<1>1. n \in Nat /\ \A i \in 1..n : pts[i] \in Places
  OBVIOUS
<1>2. ASSUME NEW i \in 1..n, i # 1
      PROVE  i - 1 \in 1..n /\ Leg(pts[i - 1], pts[i]) \in Nat /\ Leg(pts[i - 1], pts[i]) > 0
  <2>1. i - 1 \in 1..n /\ i - 1 \in 1..n - 1 /\ i - 1 + 1 = i
    BY <1>1, <1>2
  <2>2. pts[i - 1] # pts[i]
    <3>1. \A j \in 1..n - 1 : pts[j] # pts[j + 1]
      OBVIOUS
    <3>2. pts[i - 1] # pts[i - 1 + 1]
      BY <2>1, <3>1
    <3> QED BY <2>1, <3>2
  <2>3. pts[i - 1] \in Places /\ pts[i] \in Places
    BY <1>1, <2>1
  <2>4. Leg(pts[i - 1], pts[i]) \in Nat /\ Leg(pts[i - 1], pts[i]) # 0
    BY <2>2, <2>3, LegTyped
  <2> QED BY <2>1, <2>4
<1>3. 0 \in G
  OBVIOUS
<1>4. ASSUME NEW k \in Nat, k \in G  PROVE k + 1 \in G
  <2>1. SUFFICES ASSUME k + 1 \in 1..n  PROVE \E f \in [1..k + 1 -> Nat] : Solves(f, k + 1)
    BY DEF G
  <2>2. CASE k = 0
    <3> DEFINE f == [i \in 1..1 |-> 0]
    <3>1. f \in [1..1 -> Nat] /\ Solves(f, 1)
      OBVIOUS
    <3> HIDE DEF f
    <3> QED BY <2>2, <3>1
  <2>3. CASE k # 0
    <3>1. PICK g \in [1..k -> Nat] : Solves(g, k)
      BY <1>1, <1>4, <2>1, <2>3
    <3> DEFINE f == [i \in 1..k + 1 |-> IF i = 1 THEN 0 ELSE g[i - 1] + Leg(pts[i - 1], pts[i])]
    <3>2. f \in [1..k + 1 -> Nat]
      <4>1. ASSUME NEW i \in 1..k + 1, i # 1  PROVE g[i - 1] + Leg(pts[i - 1], pts[i]) \in Nat
        <5>1. i \in 1..n /\ i - 1 \in 1..k
          BY <1>1, <2>1, <4>1
        <5>2. Leg(pts[i - 1], pts[i]) \in Nat
          BY <1>2, <4>1, <5>1
        <5> QED BY <3>1, <5>1, <5>2
      <4> QED BY <4>1
    <3>3. ASSUME NEW i \in 1..k  PROVE f[i] = g[i]
      <4>1. i \in 1..k + 1
        OBVIOUS
      <4>2. f[i] = IF i = 1 THEN 0 ELSE g[i - 1] + Leg(pts[i - 1], pts[i])
        BY <4>1
      <4>3. g[i] = IF i = 1 THEN 0 ELSE g[i - 1] + Leg(pts[i - 1], pts[i])
        BY <3>1
      <4> QED BY <4>2, <4>3
    <3>4. ASSUME NEW i \in 1..k + 1
          PROVE  f[i] = IF i = 1 THEN 0 ELSE f[i - 1] + Leg(pts[i - 1], pts[i])
      <4>1. f[i] = IF i = 1 THEN 0 ELSE g[i - 1] + Leg(pts[i - 1], pts[i])
        OBVIOUS
      <4>2. i # 1 => i - 1 \in 1..k
        OBVIOUS
      <4> HIDE DEF f
      <4> QED BY <3>3, <4>1, <4>2
    <3> HIDE DEF f
    <3>5. Solves(f, k + 1)
      BY <3>2, <3>4
    <3> QED BY <3>2, <3>5
  <2> QED BY <2>2, <2>3
<1>5. n \in G
  <2> HIDE DEF G
  <2>1. \A k \in Nat : k \in G
    BY <1>3, <1>4, NumberInduction
  <2> QED BY <1>1, <2>1
<1>6. Solves(cum, n)
  <2>1. \E f : Solves(f, n)
    BY <1>1, <1>5
  <2> QED BY <2>1
<1>7. ASSUME NEW i \in 1..n
      PROVE  cum[i] = IF i = 1 THEN 0 ELSE cum[i - 1] + Leg(pts[i - 1], pts[i])
  BY <1>6
<1> DEFINE H == {k \in Nat : k \in 1..n => cum[k] \in Nat}
<1>8. 0 \in H
  OBVIOUS
<1>9. ASSUME NEW k \in Nat, k \in H  PROVE k + 1 \in H
  <2>1. SUFFICES ASSUME k + 1 \in 1..n, k + 1 # 1  PROVE cum[k + 1] \in Nat
    BY <1>7
  <2>2. k \in 1..n /\ k + 1 - 1 = k
    BY <1>1, <2>1
  <2>a. cum[k + 1] = cum[k + 1 - 1] + Leg(pts[k + 1 - 1], pts[k + 1])
    BY <1>7, <2>1
  <2>b. Leg(pts[k + 1 - 1], pts[k + 1]) \in Nat
    BY <1>2, <2>1
  <2>3. cum[k + 1] = cum[k] + Leg(pts[k], pts[k + 1]) /\ Leg(pts[k], pts[k + 1]) \in Nat
    BY <2>2, <2>a, <2>b
  <2> QED BY <1>9, <2>2, <2>3
<1>10. \A k \in 1..n : cum[k] \in Nat
  <2>1. \A k \in Nat : k \in H
    <3> HIDE DEF H
    <3> QED BY <1>8, <1>9, NumberInduction
  <2> QED BY <1>1, <2>1
<1>11. cum \in [1..n -> Nat]
  BY <1>6, <1>10
<1>12. ASSUME NEW i \in 1..n - 1
       PROVE  cum[i] < cum[i + 1] /\ cum[i + 1] = cum[i] + Leg(pts[i], pts[i + 1])
  <2>1. i \in 1..n /\ i + 1 \in 1..n /\ i + 1 # 1 /\ i + 1 - 1 = i
    BY <1>1
  <2>2. cum[i + 1] = cum[i] + Leg(pts[i], pts[i + 1])
    BY <1>7, <2>1
  <2>3. Leg(pts[i], pts[i + 1]) \in Nat /\ Leg(pts[i], pts[i + 1]) > 0
    BY <1>2, <2>1
  <2> QED BY <1>10, <2>1, <2>2, <2>3
<1>13. cum[1] = 0
  BY <1>1, <1>7
<1> QED
  BY <1>11, <1>12, <1>13 DEF RisesBy

LEMMA CleanedTyped ==
  ASSUME NEW points \in Seq(Places), NEW closed \in BOOLEAN, RouteAccepted(points, closed)
  PROVE  LET pts == Cleaned(points, closed)
         IN  /\ pts \in Seq(Places) /\ Len(pts) >= 2
             /\ \A i \in 1..Len(pts) - 1 : pts[i] # pts[i + 1]
             /\ closed => Len(pts) >= 3 /\ pts[Len(pts)] # pts[1]
<1> DEFINE d   == Distinct(points)
           pts == Cleaned(points, closed)
<1>1. d \in Seq(Places) /\ \A i \in 1..Len(d) - 1 : d[i] # d[i + 1]
  BY DistinctTyped
<1>2. Len(pts) >= IF closed THEN 3 ELSE 2
  BY DEF RouteAccepted
<1>3. CASE closed /\ Len(d) >= 2 /\ d[1] = d[Len(d)]
  <2>1. pts = Front(d)
    BY <1>1, <1>3 DEF Cleaned, Last
  <2>2. pts = SubSeq(d, 1, Len(d) - 1)
    BY <2>1 DEF Front
  <2> HIDE DEF pts, d
  <2>3. pts \in Seq(Places) /\ Len(pts) = Len(d) - 1 /\ \A i \in 1..Len(d) - 1 : pts[i] = d[i]
    BY <1>1, <1>3, <2>2
  <2>4. \A i \in 1..Len(pts) - 1 : pts[i] # pts[i + 1]
    BY <1>1, <2>3
  <2>5. pts[Len(pts)] # pts[1]
    <3>1. d[Len(d) - 1] # d[Len(d) - 1 + 1]
      BY <1>1, <1>3
    <3>2. pts[Len(pts)] = d[Len(d) - 1] /\ pts[1] = d[1]
      BY <1>1, <1>2, <1>3, <2>3
    <3> QED BY <1>1, <1>3, <3>1, <3>2
  <2> QED BY <1>2, <2>3, <2>4, <2>5 DEF pts
<1>4. CASE ~(closed /\ Len(d) >= 2 /\ d[1] = d[Len(d)])
  <2>1. pts = d
    BY <1>1, <1>4 DEF Cleaned, Last
  <2> HIDE DEF pts, d
  <2> QED BY <1>1, <1>2, <1>4, <2>1 DEF pts
<1> QED
  BY <1>3, <1>4

(* The arc length grows along a segment by its length.                     *)
Measured(r) ==
  \A i \in Segments(r) : SegmentEnd(r, i) = r.cum[i] + Leg(r.pts[i], NextVertex(r, i))

LEMMA RouteTyped ==
  ASSUME NEW points \in Seq(Places), NEW closed \in BOOLEAN, RouteAccepted(points, closed)
  PROVE  /\ IsRoute(RouteOf(points, closed)) /\ RouteOf(points, closed).closed = closed
         /\ Measured(RouteOf(points, closed))
<1> DEFINE pts == Cleaned(points, closed)
           cum == CHOOSE f : f = [i \in 1..Len(pts) |-> IF i = 1 THEN 0
                                                        ELSE f[i - 1] + Leg(pts[i - 1], pts[i])]
           r   == [pts |-> pts, cum |-> cum, closed |-> closed,
                   total |-> cum[Len(pts)] + IF closed THEN Leg(Last(pts), Head(pts)) ELSE 0]
<1>1. RouteOf(points, closed) = r
  BY DEF RouteOf
<1>2. /\ pts \in Seq(Places) /\ Len(pts) >= 2
      /\ \A i \in 1..Len(pts) - 1 : pts[i] # pts[i + 1]
      /\ closed => Len(pts) >= 3 /\ pts[Len(pts)] # pts[1]
  BY CleanedTyped
<1> HIDE DEF pts
<1>3. /\ cum \in [1..Len(pts) -> Nat] /\ cum[1] = 0 /\ \A i \in 1..Len(pts) - 1 : cum[i] < cum[i + 1]
      /\ \A i \in 1..Len(pts) - 1 : cum[i + 1] = cum[i] + Leg(pts[i], pts[i + 1])
  <2>1. RisesBy(pts, cum)
    BY <1>2, ArcLengths
  <2> QED BY <2>1 DEF RisesBy
<1> HIDE DEF cum
<1>4. closed => Leg(Last(pts), Head(pts)) \in Nat /\ Leg(Last(pts), Head(pts)) > 0
  <2>1. Last(pts) = pts[Len(pts)] /\ Head(pts) = pts[1] /\ pts[Len(pts)] \in Places /\ pts[1] \in Places
    BY <1>2 DEF Last
  <2>2. closed => Leg(pts[Len(pts)], pts[1]) \in Nat /\ Leg(pts[Len(pts)], pts[1]) # 0
    BY <1>2, <2>1, LegTyped
  <2> QED BY <2>1, <2>2
<1>5. cum[Len(pts)] \in Nat
  BY <1>2, <1>3
<1>6. r.pts = pts /\ r.cum = cum /\ r.closed = closed
  OBVIOUS
<1>7. /\ r.total \in Nat /\ (closed => r.total > cum[Len(pts)])
      /\ (~closed => r.total = cum[Len(pts)])
  BY <1>4, <1>5
<1>8. closed => r.total = cum[Len(pts)] + Leg(pts[Len(pts)], pts[1])
  BY <1>2 DEF Last
<1> HIDE DEF r
<1>9. IsRoute(r)
  BY <1>2, <1>3, <1>6, <1>7 DEF IsRoute
<1>10. ASSUME NEW i \in Segments(r)
       PROVE  SegmentEnd(r, i) = r.cum[i] + Leg(r.pts[i], NextVertex(r, i))
  <2>1. i \in 1..Len(pts) /\ (i < Len(pts) \/ closed)
    <3>1. CASE closed
      BY <1>2, <1>6, <1>10, <3>1 DEF Segments
    <3>2. CASE ~closed
      BY <1>2, <1>6, <1>10, <3>2 DEF Segments
    <3> QED BY <3>1, <3>2
  <2>2. CASE i < Len(pts)
    <3>1. i \in 1..Len(pts) - 1
      BY <1>2, <2>1, <2>2
    <3>2. NextVertex(r, i) = pts[i + 1] /\ SegmentEnd(r, i) = cum[i + 1]
      BY <1>6, <2>2 DEF NextVertex, SegmentEnd
    <3> QED BY <1>3, <1>6, <3>1, <3>2
  <2>3. CASE ~(i < Len(pts))
    <3>1. i = Len(pts) /\ closed
      BY <1>2, <2>1, <2>3
    <3>2. NextVertex(r, i) = pts[1] /\ SegmentEnd(r, i) = r.total
      BY <1>6, <2>3 DEF NextVertex, SegmentEnd
    <3> QED BY <1>6, <1>8, <3>1, <3>2
  <2> QED BY <2>2, <2>3
<1> QED
  BY <1>1, <1>6, <1>9, <1>10 DEF Measured

(* A place on a route.                                                     *)
LEMMA RouteLength ==
  ASSUME NEW r, IsRoute(r)
  PROVE  /\ r.total \in Nat \ {0}
         /\ \A i \in Segments(r) : /\ i \in 1..Len(r.pts)
                                   /\ r.pts[i] \in Places /\ NextVertex(r, i) \in Places
                                   /\ r.cum[i] \in Nat /\ SegmentEnd(r, i) \in Nat
                                   /\ r.cum[i] < SegmentEnd(r, i) /\ SegmentEnd(r, i) <= r.total
<1> DEFINE n == Len(r.pts)
           H == {k \in Nat : k \in 1..n => r.cum[k] >= k - 1}
           K == {k \in Nat : k \in 0..n - 1 => r.cum[n - k] <= r.total}
<1>1. /\ n \in Nat /\ n >= 2 /\ r.cum \in [1..n -> Nat] /\ r.cum[1] = 0
      /\ \A i \in 1..n - 1 : r.cum[i] < r.cum[i + 1]
      /\ r.total \in Nat /\ r.total >= r.cum[n] /\ r.closed \in BOOLEAN
      /\ r.closed => r.total > r.cum[n]
  BY DEF IsRoute
<1>2. \A i \in 1..n : r.pts[i] \in Places
  BY DEF IsRoute
<1>3. r.cum[n] > 0
  <2>1. 0 \in H
    OBVIOUS
  <2>2. ASSUME NEW k \in Nat, k \in H  PROVE k + 1 \in H
    <3>1. SUFFICES ASSUME k + 1 \in 1..n, k # 0  PROVE r.cum[k + 1] >= k + 1 - 1
      BY <1>1
    <3>2. k \in 1..n - 1 /\ k \in 1..n
      BY <1>1, <3>1
    <3>3. r.cum[k] < r.cum[k + 1] /\ r.cum[k] \in Nat /\ r.cum[k + 1] \in Nat
      BY <1>1, <3>1, <3>2
    <3> QED BY <2>2, <3>2, <3>3
  <2>3. n \in H
    <3>1. \A k \in Nat : k \in H
      <4> HIDE DEF H
      <4> QED BY <2>1, <2>2, NumberInduction
    <3> QED BY <1>1, <3>1
  <2> QED BY <1>1, <2>3
<1>4. \A i \in 1..n : r.cum[i] <= r.total
  <2>1. 0 \in K
    BY <1>1
  <2>2. ASSUME NEW k \in Nat, k \in K  PROVE k + 1 \in K
    <3>1. SUFFICES ASSUME k + 1 \in 0..n - 1  PROVE r.cum[n - (k + 1)] <= r.total
      OBVIOUS
    <3>2. /\ k \in 0..n - 1 /\ n - (k + 1) \in 1..n - 1 /\ n - (k + 1) + 1 = n - k /\ n - k \in 1..n
          /\ n - (k + 1) \in 1..n
      BY <1>1, <3>1
    <3>3. r.cum[n - (k + 1)] < r.cum[n - k]
      <4>1. r.cum[n - (k + 1)] < r.cum[n - (k + 1) + 1]
        BY <1>1, <3>2
      <4> QED BY <3>2, <4>1
    <3>4. r.cum[n - k] <= r.total
      BY <2>2, <3>2
    <3>5. r.cum[n - (k + 1)] \in Nat /\ r.cum[n - k] \in Nat
      BY <1>1, <3>2
    <3> QED BY <1>1, <3>3, <3>4, <3>5
  <2>3. \A k \in Nat : k \in K
    <3> HIDE DEF K
    <3> QED BY <2>1, <2>2, NumberInduction
  <2>4. ASSUME NEW i \in 1..n  PROVE r.cum[i] <= r.total
    <3>1. n - i \in Nat /\ n - i \in 0..n - 1 /\ n - (n - i) = i
      BY <1>1
    <3>2. r.cum[n - (n - i)] <= r.total
      BY <2>3, <3>1
    <3> QED BY <3>1, <3>2
  <2> QED BY <2>4
<1>5. ASSUME NEW i \in Segments(r)
      PROVE  /\ i \in 1..n
             /\ r.pts[i] \in Places /\ NextVertex(r, i) \in Places
             /\ r.cum[i] \in Nat /\ SegmentEnd(r, i) \in Nat
             /\ r.cum[i] < SegmentEnd(r, i) /\ SegmentEnd(r, i) <= r.total
  <2>1. i \in 1..n /\ (i < n \/ r.closed)
    <3>1. CASE r.closed
      BY <1>1, <1>5, <3>1 DEF Segments
    <3>2. CASE ~r.closed
      BY <1>1, <1>5, <3>2 DEF Segments
    <3> QED BY <3>1, <3>2
  <2>2. CASE i < n
    <3>1. i \in 1..n - 1 /\ i + 1 \in 1..n
      BY <1>1, <2>1, <2>2
    <3>2. NextVertex(r, i) = r.pts[i + 1] /\ SegmentEnd(r, i) = r.cum[i + 1]
      BY <2>2 DEF NextVertex, SegmentEnd
    <3>3. r.cum[i] \in Nat /\ r.cum[i + 1] \in Nat
      BY <1>1, <2>1, <3>1
    <3> QED BY <1>1, <1>2, <1>4, <2>1, <3>1, <3>2, <3>3
  <2>3. CASE ~(i < n)
    <3>1. i = n /\ r.closed
      BY <1>1, <2>1, <2>3
    <3>2. NextVertex(r, i) = r.pts[1] /\ SegmentEnd(r, i) = r.total
      BY <2>3 DEF NextVertex, SegmentEnd
    <3>3. 1 \in 1..n /\ r.cum[i] \in Nat
      BY <1>1, <2>1
    <3> QED BY <1>1, <1>2, <2>1, <3>1, <3>2, <3>3
  <2> QED BY <2>2, <2>3
<1>6. r.total \in Nat \ {0}
  <2>1. r.cum[n] \in Nat
    BY <1>1
  <2> QED BY <1>1, <1>3, <2>1
<1> QED
  BY <1>5, <1>6

LEMMA NormalTyped ==
  ASSUME NEW r, IsRoute(r), NEW s \in Int
  PROVE  NormalizeRouteS(r, s) \in 0..r.total
<1>1. r.total \in Nat \ {0}
  BY RouteLength
<1>2. CASE r.closed
  BY <1>1, <1>2 DEF NormalizeRouteS
<1>3. CASE ~r.closed
  BY <1>1, <1>3 DEF NormalizeRouteS, Bounded, Lesser, Greater
<1> QED
  BY <1>2, <1>3

LEMMA SegmentFound ==
  ASSUME NEW r, IsRoute(r), NEW s \in Int
  PROVE  LET i == SegmentIndex(r, s)
         IN  /\ i \in Segments(r) /\ r.cum[i] <= NormalizeRouteS(r, s)
             /\ i + 1 \in Segments(r) => NormalizeRouteS(r, s) < r.cum[i + 1]
<1> DEFINE x == NormalizeRouteS(r, s)
           S == {i \in Segments(r) : r.cum[i] <= x}
<1>1. /\ Len(r.pts) \in Nat /\ Len(r.pts) >= 2 /\ r.cum[1] = 0 /\ r.closed \in BOOLEAN
      /\ r.cum \in [1..Len(r.pts) -> Nat]
  BY DEF IsRoute
<1>2. x \in 0..r.total /\ r.total \in Nat
  BY NormalTyped DEF IsRoute
<1> HIDE DEF x
<1>3. S # {} /\ S \subseteq 0..Len(r.pts)
  <2>1. 1 \in Segments(r) /\ Segments(r) \subseteq 0..Len(r.pts)
    <3>1. CASE r.closed
      BY <1>1, <3>1 DEF Segments
    <3>2. CASE ~r.closed
      BY <1>1, <3>2 DEF Segments
    <3> QED BY <3>1, <3>2
  <2> QED BY <1>1, <1>2, <2>1
<1>4. Max(S) \in S /\ \A y \in S : Max(S) >= y
  BY <1>1, <1>3, GreatestOf
<1> DEFINE i == Max(S)
<1>5. i \in Segments(r) /\ r.cum[i] <= x
  BY <1>4
<1>6. i + 1 \in Segments(r) => x < r.cum[i + 1]
  <2>1. SUFFICES ASSUME i + 1 \in Segments(r), ~(x < r.cum[i + 1])  PROVE FALSE
    OBVIOUS
  <2>2. r.cum[i + 1] \in Nat
    BY <2>1, RouteLength
  <2>3. i + 1 \in S
    BY <1>2, <2>1, <2>2
  <2>4. i >= i + 1
    BY <1>4, <2>3
  <2>5. i \in Nat
    <3>1. i \in S /\ S \subseteq 0..Len(r.pts)
      BY <1>3, <1>4
    <3> HIDE DEF S, i
    <3>2. i \in 0..Len(r.pts)
      BY <3>1
    <3> QED BY <1>1, <3>2
  <2> QED BY <2>4, <2>5
<1>7. \E j \in Segments(r) : /\ r.cum[j] <= NormalizeRouteS(r, s)
                             /\ j + 1 \in Segments(r) => NormalizeRouteS(r, s) < r.cum[j + 1]
  BY <1>5, <1>6 DEF x
<1> QED
  BY <1>7 DEF SegmentIndex

LEMMA PointTyped ==
  ASSUME NEW r, IsRoute(r), NEW s \in Int
  PROVE  PointAt(r, s) \in Places
<1> DEFINE i == SegmentIndex(r, s)
           d == Direction(r.pts[i], NextVertex(r, i))
           a == NormalizeRouteS(r, s) - r.cum[i]
<1>1. i \in Segments(r) /\ NormalizeRouteS(r, s) \in 0..r.total /\ r.total \in Nat
  BY SegmentFound, NormalTyped, RouteLength
<1>2. r.pts[i] \in Places /\ NextVertex(r, i) \in Places /\ r.cum[i] \in Nat
  BY <1>1, RouteLength
<1>3. PointAt(r, s) = <<r.pts[i][1] + a * d[1], r.pts[i][2] + a * d[2]>>
  BY DEF PointAt
<1>4. a \in Int
  BY <1>1, <1>2
<1>5. d[1] \in Int /\ d[2] \in Int
  BY DEF Direction, Unit
<1>6. r.pts[i][1] \in Int /\ r.pts[i][2] \in Int
  BY <1>2 DEF Places
<1> HIDE DEF i, d, a
<1> QED
  BY <1>3, <1>4, <1>5, <1>6 DEF Places

-----------------------------------------------------------------------------
(* The trackers of an open polyline, whatever other fields they have.      *)
TrackerFields == {"route", "last", "progress", "credit"}
HasCredit(t) == TrackerFields \subseteq DOMAIN t /\ t.last \in Places /\ t.credit \in 0..MaxAdvance
IsTracker(t) ==
  /\ HasCredit(t)
  /\ IsRoute(t.route) /\ ~t.route.closed /\ t.progress \in 0..t.route.total

(* The whole part of the way between two poses is at most the way along    *)
(* the axes.                                                               *)
LEMMA RootBounded ==
  ASSUME NEW p \in Places, NEW q \in Places
  PROVE  Root(Square(p, q)) \in Nat /\ Root(Square(p, q)) <= Leg(p, q)
<1> DEFINE n == Square(p, q)
           l == Leg(p, q)
           T == {k \in Nat : n < (k + 1) * (k + 1)}
<1>1. n \in Nat /\ l \in Nat /\ n <= l * l
  BY LegTyped
<1> HIDE DEF n, l
<1>2. n \in T
  BY <1>1
<1>3. PICK m \in T : \A k \in T : m <= k
  <2>1. T \subseteq Nat /\ T # {}
    BY <1>2
  <2> HIDE DEF T
  <2> QED BY <2>1, LeastOf
<1>4. m \in Nat /\ n < (m + 1) * (m + 1)
  BY <1>3
<1>5. m * m <= n
  <2>1. CASE m = 0
    BY <1>1, <2>1
  <2>2. CASE m # 0
    <3>1. m - 1 \in Nat /\ m - 1 + 1 = m
      BY <1>4, <2>2
    <3>2. m - 1 \notin T
      <4>1. SUFFICES ASSUME m - 1 \in T  PROVE FALSE
        OBVIOUS
      <4>2. m <= m - 1
        BY <1>3, <4>1
      <4> QED BY <1>4, <4>2
    <3>3. ~(n < (m - 1 + 1) * (m - 1 + 1))
      BY <3>1, <3>2
    <3>4. ~(n < m * m)
      BY <3>1, <3>3
    <3>5. m * m \in Nat
      BY <1>4
    <3> QED BY <1>1, <3>4, <3>5
  <2> QED BY <2>1, <2>2
<1>6. m \in 0..n
  <2>1. m <= m * m
    BY <1>4
  <2>2. m * m \in Nat
    BY <1>4
  <2> QED BY <1>1, <1>4, <1>5, <2>1, <2>2
<1>7. \E k \in 0..n : k * k <= n /\ n < (k + 1) * (k + 1)
  BY <1>4, <1>5, <1>6
<1> DEFINE k == Root(n)
<1>8. k \in 0..n /\ k * k <= n
  BY <1>7 DEF Root
<1> HIDE DEF k
<1>9. k <= l
  <2>1. SUFFICES ASSUME k > l  PROVE FALSE
    BY <1>1, <1>8
  <2>2. k * k > l * l
    BY <1>1, <1>8, <2>1
  <2>3. k * k \in Nat /\ l * l \in Nat
    BY <1>1, <1>8
  <2> QED BY <1>1, <1>8, <2>2, <2>3
<1> QED
  BY <1>1, <1>8, <1>9 DEF k, n, l

LEMMA LegTriangle ==
  ASSUME NEW p \in Places, NEW q \in Places, NEW u \in Places
  PROVE  Leg(p, u) <= Leg(p, q) + Leg(q, u)
<1>1. PICK a, b, c, d, e, f \in Int : p = <<a, b>> /\ q = <<c, d>> /\ u = <<e, f>>
  BY DEF Places
<1>2. ASSUME NEW x \in Int, NEW y \in Int, NEW z \in Int
      PROVE  Gap(x - z) <= Gap(x - y) + Gap(y - z) /\ Gap(x - z) \in Nat
  BY DEF Gap
<1>3. /\ Leg(p, u) = Gap(a - e) + Gap(b - f) /\ Leg(p, q) = Gap(a - c) + Gap(b - d)
      /\ Leg(q, u) = Gap(c - e) + Gap(d - f)
  BY <1>1 DEF Leg
<1>4. Gap(a - e) <= Gap(a - c) + Gap(c - e) /\ Gap(b - f) <= Gap(b - d) + Gap(d - f)
  BY <1>2
<1>5. /\ Gap(a - e) \in Nat /\ Gap(b - f) \in Nat /\ Gap(a - c) \in Nat
      /\ Gap(b - d) \in Nat /\ Gap(c - e) \in Nat /\ Gap(d - f) \in Nat
  BY <1>2
<1> QED
  BY <1>3, <1>4, <1>5

(* The movement credit is paid for by the way of the robot.                *)
LEMMA CreditedPays ==
  ASSUME NEW t, NEW at \in Places, HasCredit(t)
  PROVE  /\ HasCredit(Credited(t, at))
         /\ Credited(t, at).route = t.route /\ Credited(t, at).progress = t.progress
         /\ DOMAIN Credited(t, at) = DOMAIN t
         /\ \A x \in DOMAIN t \ TrackerFields : Credited(t, at)[x] = t[x]
         /\ IF Moved(t, at)
            THEN Credited(t, at).last = at
                 /\ Credited(t, at).credit <= t.credit + CreditScale * Leg(t.last, at)
            ELSE Credited(t, at) = t
<1>1. TrackerFields \subseteq DOMAIN t /\ t.last \in Places /\ t.credit \in 0..MaxAdvance
  BY DEF HasCredit
<1>2. MaxAdvance \in Nat /\ CreditScale \in Nat
  BY RouteAssumption
<1>3. CASE ~Moved(t, at)
  BY <1>3 DEF Credited
<1>4. CASE Moved(t, at)
  <2> DEFINE k == Root(Square(at, t.last))
             c == Lesser(MaxAdvance, t.credit + CreditScale * k)
  <2>1. Credited(t, at) = [t EXCEPT !.credit = c, !.last = at]
    BY <1>4 DEF Credited
  <2>2. k \in Nat /\ k <= Leg(t.last, at) /\ Leg(t.last, at) \in Nat
    BY <1>1, RootBounded, LegTyped
  <2> HIDE DEF k
  <2>3. CreditScale * k \in Nat /\ CreditScale * k <= CreditScale * Leg(t.last, at)
        /\ CreditScale * Leg(t.last, at) \in Nat
    BY <1>2, <2>2
  <2>4. c \in 0..MaxAdvance /\ c <= t.credit + CreditScale * Leg(t.last, at)
    BY <1>1, <1>2, <2>3 DEF Lesser
  <2> HIDE DEF c
  <2> DEFINE u == [t EXCEPT !.credit = c, !.last = at]
  <2>5. /\ u.route = t.route /\ u.last = at /\ u.progress = t.progress /\ u.credit = c
        /\ DOMAIN u = DOMAIN t
    BY <1>1 DEF TrackerFields
  <2>6. \A x \in DOMAIN t \ TrackerFields : u[x] = t[x]
    BY <1>1 DEF TrackerFields
  <2> HIDE DEF u
  <2>7. HasCredit(u)
    BY <1>1, <2>4, <2>5 DEF HasCredit
  <2>8. Credited(t, at) = u
    BY <2>1 DEF u
  <2> QED BY <1>4, <2>4, <2>5, <2>6, <2>7, <2>8
<1> QED
  BY <1>3, <1>4

LEMMA NearestWithin ==
  ASSUME NEW r, IsRoute(r), NEW a \in Int, NEW b \in Int, a <= b, NEW p \in Places
  PROVE  Nearest(r, a, b, p) \in a..b
<1> DEFINE d == Direction(PointAt(r, a), PointAt(r, b))
           x == Dot(Minus(p, PointAt(r, a)), d)
<1>1. PointAt(r, a) \in Places /\ PointAt(r, b) \in Places
  BY PointTyped
<1>2. d[1] \in Int /\ d[2] \in Int
  BY DEF Direction, Unit
<1>3. x \in Int
  <2>1. p[1] \in Int /\ p[2] \in Int /\ PointAt(r, a)[1] \in Int /\ PointAt(r, a)[2] \in Int
    BY <1>1 DEF Places
  <2> HIDE DEF d
  <2> QED BY <1>2, <2>1 DEF Dot, Minus
<1>4. Nearest(r, a, b, p) = a + Bounded(x, 0, b - a)
  BY DEF Nearest
<1> HIDE DEF x, d
<1> QED
  BY <1>3, <1>4 DEF Bounded, Lesser, Greater

(* The place on the route that is nearest to the robot lies in the window. *)
LEMMA ProjectionWithin ==
  ASSUME NEW t, NEW at \in Places, IsTracker(t)
  PROVE  Projection(t, at) \in t.progress..WindowEnd(t)
<1> DEFINE P == Projections(t, at)
           w == WindowEnd(t)
           far(s) == Square(PointAt(t.route, s), at)
<1>1. /\ IsRoute(t.route) /\ t.progress \in 0..t.route.total /\ t.credit \in 0..MaxAdvance
      /\ t.route.total \in Nat /\ MaxAdvance \in Nat
  BY RouteLength, RouteAssumption DEF IsTracker, HasCredit
<1>2. w \in t.progress..t.route.total
  BY <1>1 DEF WindowEnd, Lesser
<1> HIDE DEF w
<1>3. P \subseteq t.progress..w
  <2>1. ASSUME NEW i \in InWindow(t)
        PROVE  Nearest(t.route, Greater(t.progress, t.route.cum[i]),
                       Lesser(w, SegmentEnd(t.route, i)), at) \in t.progress..w
    <3> DEFINE a == Greater(t.progress, t.route.cum[i])
               b == Lesser(w, SegmentEnd(t.route, i))
    <3>1. /\ i \in Segments(t.route) /\ t.route.cum[i] <= w /\ SegmentEnd(t.route, i) >= t.progress
      BY DEF InWindow, w
    <3>2. /\ t.route.cum[i] \in Nat /\ SegmentEnd(t.route, i) \in Nat
          /\ t.route.cum[i] < SegmentEnd(t.route, i)
      BY <1>1, <3>1, RouteLength
    <3>3. a \in Int /\ b \in Int /\ a <= b /\ t.progress <= a /\ b <= w
      BY <1>1, <1>2, <3>1, <3>2 DEF Greater, Lesser
    <3> HIDE DEF a, b
    <3>4. Nearest(t.route, a, b, at) \in a..b
      BY <1>1, <3>3, NearestWithin
    <3>5. Nearest(t.route, a, b, at) \in t.progress..w
      BY <1>1, <1>2, <3>3, <3>4
    <3> QED BY <3>5 DEF a, b
  <2>2. t.progress \in t.progress..w
    BY <1>1, <1>2
  <2> QED BY <2>1, <2>2 DEF Projections, w
<1>4. t.progress \in P
  BY DEF Projections
<1> HIDE DEF P
<1>5. P \subseteq Nat /\ \A s \in P : far(s) \in Nat
  <2>1. P \subseteq Nat
    BY <1>1, <1>2, <1>3
  <2>2. ASSUME NEW s \in P  PROVE far(s) \in Nat
    <3>1. PointAt(t.route, s) \in Places
      BY <1>1, <2>1, PointTyped
    <3> QED BY <3>1, LegTyped
  <2> QED BY <2>1, <2>2
<1> HIDE DEF far
<1>6. PICK s \in P : \A u \in P : far(s) < far(u) \/ (far(s) = far(u) /\ s <= u)
  <2> DEFINE F == {far(u) : u \in P}
  <2>1. F \subseteq Nat /\ F # {}
    BY <1>4, <1>5
  <2>2. PICK m \in F : \A n \in F : m <= n
    <3> HIDE DEF F
    <3> QED BY <2>1, LeastOf
  <2> DEFINE S == {u \in P : far(u) = m}
  <2>3. S \subseteq Nat /\ S # {}
    BY <1>5, <2>2
  <2>4. PICK s \in S : \A u \in S : s <= u
    <3> HIDE DEF S
    <3> QED BY <2>3, LeastOf
  <2>5. ASSUME NEW u \in P  PROVE far(s) < far(u) \/ (far(s) = far(u) /\ s <= u)
    <3>1. m <= far(u) /\ far(s) = m /\ m \in Nat /\ far(u) \in Nat
      BY <1>5, <2>2, <2>4
    <3>2. far(u) = m => s <= u
      BY <2>4
    <3> QED BY <3>1, <3>2
  <2> QED BY <2>4, <2>5
<1>7. Projection(t, at) \in P
  <2> DEFINE ranked == {<<far(u), u>> : u \in P}
             best(r) == \A q \in ranked : r[1] < q[1] \/ (r[1] = q[1] /\ r[2] <= q[2])
             nearest == CHOOSE r \in ranked : best(r)
  <2>1. Projection(t, at) = nearest[2]
    BY DEF Projection, P, far
  <2>2. <<far(s), s>> \in ranked
    OBVIOUS
  <2>3. ASSUME NEW q \in ranked
        PROVE  far(s) < q[1] \/ (far(s) = q[1] /\ s <= q[2])
    BY <1>6
  <2>4. best(<<far(s), s>>)
    BY <2>3
  <2>5. nearest \in ranked
    <3> HIDE DEF ranked, best
    <3> QED BY <2>2, <2>4
  <2>6. PICK u \in P : nearest = <<far(u), u>>
    BY <2>5
  <2> HIDE DEF nearest
  <2> QED BY <2>1, <2>6
<1> QED
  BY <1>3, <1>7 DEF w

(* One update: the progress only grows, and what it takes comes out of the *)
(* credit.                                                                 *)
LEMMA ProjectedPays ==
  ASSUME NEW t, NEW at \in Places, IsTracker(t)
  PROVE  LET u == Projected(t, at)
         IN  /\ IsTracker(u) /\ u.route = t.route
             /\ DOMAIN u = DOMAIN t /\ \A x \in DOMAIN t \ TrackerFields : u[x] = t[x]
             /\ u.progress >= t.progress
             /\ u.progress + u.credit = t.progress + Credited(t, at).credit
             /\ u.last = Credited(t, at).last
<1> DEFINE c == Credited(t, at)
           s == Projection(c, at)
<1>1. Projected(t, at) = Advanced(c, s)
  BY DEF Projected
<1>2. /\ IsTracker(c) /\ c.route = t.route /\ c.progress = t.progress
      /\ DOMAIN c = DOMAIN t /\ \A x \in DOMAIN t \ TrackerFields : c[x] = t[x]
  <2>1. HasCredit(t)
    BY DEF IsTracker
  <2>2. /\ HasCredit(c) /\ c.route = t.route /\ c.progress = t.progress
        /\ DOMAIN c = DOMAIN t /\ \A x \in DOMAIN t \ TrackerFields : c[x] = t[x]
    BY <2>1, CreditedPays
  <2> HIDE DEF c
  <2> QED BY <2>2 DEF IsTracker
<1> HIDE DEF c
<1>3. s \in c.progress..WindowEnd(c)
  BY <1>2, ProjectionWithin
<1> HIDE DEF s
<1>4. /\ TrackerFields \subseteq DOMAIN c
      /\ c.progress \in 0..c.route.total /\ c.credit \in 0..MaxAdvance
      /\ c.route.total \in Nat /\ MaxAdvance \in Nat
  BY <1>2, RouteLength, RouteAssumption DEF IsTracker, HasCredit
<1>5. s \in Nat /\ s <= c.route.total /\ s >= c.progress /\ s - c.progress <= c.credit
  BY <1>3, <1>4 DEF WindowEnd, Lesser
<1>6. /\ Greater(0, c.credit - (s - c.progress)) = c.credit - (s - c.progress)
      /\ c.credit - (s - c.progress) \in 0..MaxAdvance
  BY <1>4, <1>5 DEF Greater
<1> DEFINE g == c.credit - (s - c.progress)
           u == [c EXCEPT !.progress = s, !.credit = g]
<1>7. Advanced(c, s) = u
  BY <1>6 DEF Advanced
<1> HIDE DEF g
<1>8. /\ u.route = c.route /\ u.last = c.last /\ u.progress = s /\ u.credit = g
      /\ DOMAIN u = DOMAIN c
  BY <1>4 DEF TrackerFields
<1>9. \A x \in DOMAIN c \ TrackerFields : u[x] = c[x]
  BY <1>4 DEF TrackerFields
<1> HIDE DEF u
<1>10. IsTracker(u)
  BY <1>2, <1>4, <1>5, <1>6, <1>8 DEF IsTracker, HasCredit, g
<1>11. u.progress >= t.progress /\ u.progress + u.credit = t.progress + c.credit
  BY <1>2, <1>4, <1>5, <1>8 DEF g
<1>12. DOMAIN u = DOMAIN t /\ \A x \in DOMAIN t \ TrackerFields : u[x] = t[x]
  BY <1>2, <1>8, <1>9
<1> QED
  BY <1>1, <1>2, <1>7, <1>8, <1>10, <1>11, <1>12 DEF c

-----------------------------------------------------------------------------
(* The current local trajectory.  A tracker holds nothing or has the route *)
(* of a trajectory.                                                        *)
TracksOne(t) ==
  \/ t = Held
  \/ /\ IsTracker(t)
     /\ \E points \in Trajectories : RouteAccepted(points, FALSE) /\ t.route = RouteOf(points, FALSE)

(* The recorded distance is of use up to its bound only, which a complete  *)
(* trajectory takes the robot to.                                          *)
DistanceIsRecorded ==
  \A points \in Trajectories :
    RouteAccepted(points, FALSE) =>
      RouteOf(points, FALSE).total
        <= InitialCredit + CreditScale * MaxDistance + Lesser(EndRemaining, 2 * MaxAdvance)

IsBeat(h) ==
  \/ h = None
  \/ /\ h = [id |-> h.id, arc |-> h.arc] /\ h.id \in 1..planner.id /\ h.arc \in Nat
     /\ h.id = planner.id => h.arc <= Earned \/ distance = MaxDistance

LocalTyped ==
  /\ place \in Places /\ distance \in 0..MaxDistance
  /\ planner = [id |-> planner.id, at |-> planner.at, tracker |-> planner.tracker]
  /\ planner.id \in Nat /\ planner.at \in Places /\ TracksOne(planner.tracker)
  /\ controller = [id |-> controller.id, at |-> controller.at, posed |-> controller.posed,
                   tracker |-> controller.tracker, beat |-> controller.beat]
  /\ controller.id \in 0..planner.id /\ controller.at \in Places /\ controller.posed \in BOOLEAN
  /\ TracksOne(controller.tracker)
  /\ IsBeat(beat) /\ IsBeat(controller.beat)
  /\ bspline.id = planner.id
  /\ bspline.id # 0 => bspline.points \in Trajectories

(* The planner's progress and credit are paid for by the way driven since  *)
(* the trajectory was committed, the one to the last credited pose off.    *)
PlannerPays ==
  planner.id # 0 /\ IsActive(planner.tracker) =>
    \/ planner.tracker.progress + planner.tracker.credit
         + CreditScale * Leg(planner.tracker.last, place) <= Earned
    \/ distance = MaxDistance

(* The controller's are one credit ahead where it last saw the robot, for  *)
(* a heartbeat carries its progress to the planner's without taking its    *)
(* credit, and another at the next pose.                                   *)
ControllerPays ==
  controller.id # 0 /\ controller.id = planner.id /\ IsActive(controller.tracker) =>
    \/ controller.tracker.progress + controller.tracker.credit <= Earned + MaxAdvance
    \/ controller.tracker.progress + controller.tracker.credit
         + CreditScale * Leg(controller.tracker.last, place) <= Earned + 2 * MaxAdvance
    \/ distance = MaxDistance
PoseCredited ==
  controller.posed /\ IsActive(controller.tracker) => ~Moved(controller.tracker, controller.at)

LocalInv == LocalTyped /\ PlannerPays /\ ControllerPays /\ PoseCredited

LEMMA LocalNumbers ==
  /\ MaxAdvance \in Nat \ {0} /\ CreditScale \in Nat \ {0} /\ Deadband \in Nat
  /\ InitialCredit \in 0..MaxAdvance
  /\ EndDistance \in Nat /\ EndRemaining \in Nat /\ MaxDistance \in Nat
  /\ \A points \in Trajectories : points \in Seq(Places) /\ points # <<>> /\ Head(points) \in Places
  /\ Ground \subseteq Places
<1>1. \A points \in Trajectories : points \in Seq(Places) /\ points # <<>>
  BY LocalProgressAssumption DEF Places
<1>2. \A points \in Trajectories : Head(points) \in Places
  BY <1>1
<1> QED
  BY <1>1, <1>2, RouteAssumption, LocalProgressAssumption DEF Places

LEMMA HeldStill == TracksOne(Held) /\ ~IsActive(Held) /\ Held.progress = 0
  BY DEF TracksOne, Held, IsActive

LEMMA ActiveTyped ==
  ASSUME NEW t, TracksOne(t)
  PROVE  /\ IsActive(t) => IsTracker(t)
         /\ ~IsActive(t) => t = Held
<1>1. CASE t = Held
  BY <1>1, HeldStill
<1>2. CASE IsTracker(t)
  <2>1. t.route.total \in Nat \ {0}
    BY <1>2, RouteLength DEF IsTracker, HasCredit
  <2> QED BY <1>2, <2>1 DEF IsActive
<1> QED
  BY <1>1, <1>2 DEF TracksOne

LEMMA TrackingTyped ==
  ASSUME NEW points \in Trajectories, NEW at \in Places
  PROVE  LET t == Tracking(points, at)
         IN  /\ TracksOne(t) /\ t.progress = 0
             /\ IsActive(t) => t.credit = InitialCredit /\ t.last = at
<1>1. CASE ~RouteAccepted(points, FALSE)
  BY <1>1, HeldStill DEF Tracking
<1>2. CASE RouteAccepted(points, FALSE)
  <2> DEFINE r == RouteOf(points, FALSE)
  <2>1. IsRoute(r) /\ ~r.closed
    BY <1>2, LocalNumbers, RouteTyped
  <2> HIDE DEF r
  <2> DEFINE t == [route |-> r, last |-> at, progress |-> 0, credit |-> InitialCredit]
  <2>2. Tracking(points, at) = t
    BY <1>2 DEF Tracking, r
  <2>3. /\ TrackerFields \subseteq DOMAIN t
        /\ t.route = r /\ t.last = at /\ t.progress = 0 /\ t.credit = InitialCredit
    BY DEF TrackerFields
  <2> HIDE DEF t
  <2>4. IsTracker(t)
    <3>1. 0 \in 0..r.total
      BY <2>1, RouteLength
    <3> QED BY <2>1, <2>3, <3>1, LocalNumbers DEF IsTracker, HasCredit
  <2> QED BY <1>2, <2>2, <2>3, <2>4 DEF TracksOne, r
<1> QED
  BY <1>1, <1>2

LEMMA UpdatedTyped ==
  ASSUME NEW t, NEW at \in Places, TracksOne(t)
  PROVE  LET u == Updated(t, at)
         IN  /\ TracksOne(u) /\ (IsActive(u) => IsActive(t))
             /\ ~IsActive(t) => u = t
             /\ IsActive(t) => u = Projected(t, at)
<1>1. CASE ~IsActive(t)
  BY <1>1 DEF Updated
<1>2. CASE IsActive(t)
  <2>1. IsTracker(t) /\ t # Held
    BY <1>2, ActiveTyped, HeldStill
  <2>2. Updated(t, at) = Projected(t, at)
    BY <1>2 DEF Updated
  <2>3. IsTracker(Projected(t, at)) /\ Projected(t, at).route = t.route
    BY <2>1, ProjectedPays
  <2>4. \E points \in Trajectories : RouteAccepted(points, FALSE) /\ t.route = RouteOf(points, FALSE)
    BY <2>1 DEF TracksOne
  <2> QED BY <1>2, <2>2, <2>3, <2>4 DEF TracksOne
<1> QED
  BY <1>1, <1>2

LEMMA AdvancedToTyped ==
  ASSUME NEW t, NEW s \in Nat, TracksOne(t)
  PROVE  LET u == AdvancedTo(t, s)
         IN  /\ TracksOne(u) /\ (IsActive(u) => IsActive(t))
             /\ IsActive(t) => /\ IsTracker(u) /\ u.last = t.last /\ u.credit = t.credit
                               /\ u.progress = t.progress \/ u.progress <= s
<1>1. CASE ~IsActive(t)
  BY <1>1 DEF AdvancedTo
<1>2. CASE IsActive(t)
  <2> DEFINE g == Greater(t.progress, Bounded(s, 0, t.route.total))
             u == AdvancedTo(t, s)
  <2>1. /\ TrackerFields \subseteq DOMAIN t
        /\ t.progress \in 0..t.route.total /\ t.route.total \in Nat /\ t # Held /\ IsTracker(t)
    BY <1>2, ActiveTyped, HeldStill, RouteLength DEF IsTracker, HasCredit
  <2>2. u = [t EXCEPT !.progress = g]
    BY <1>2 DEF AdvancedTo
  <2>3. g \in 0..t.route.total /\ (g = t.progress \/ g <= s)
    BY <2>1 DEF Greater, Lesser, Bounded
  <2> HIDE DEF g, u
  <2>5. /\ u.route = t.route /\ u.last = t.last /\ u.progress = g /\ u.credit = t.credit
        /\ TrackerFields \subseteq DOMAIN u
    BY <2>1, <2>2 DEF TrackerFields
  <2>6. IsTracker(u)
    BY <2>1, <2>3, <2>5 DEF IsTracker, HasCredit
  <2>7. \E points \in Trajectories : RouteAccepted(points, FALSE) /\ t.route = RouteOf(points, FALSE)
    BY <2>1 DEF TracksOne
  <2>8. TracksOne(u)
    BY <2>5, <2>6, <2>7 DEF TracksOne
  <2> QED BY <1>2, <2>3, <2>5, <2>6, <2>8 DEF u
<1> QED
  BY <1>1, <1>2

(* An update at a pose: the place of the robot is credited, or it has not  *)
(* moved.                                                                  *)
LEMMA PoseTaken ==
  ASSUME NEW t, NEW at \in Places, IsTracker(t)
  PROVE  LET u == Projected(t, at)
         IN  /\ ~Moved(u, at)
             /\ \/ u.last = t.last /\ u.progress + u.credit = t.progress + t.credit
                \/ /\ u.last = at
                   /\ u.progress + u.credit <= t.progress + MaxAdvance
                   /\ u.progress + u.credit
                        <= t.progress + t.credit + CreditScale * Leg(t.last, at)
<1> DEFINE u == Projected(t, at)
           c == Credited(t, at)
<1>1. /\ IsTracker(u) /\ u.progress + u.credit = t.progress + c.credit /\ u.last = c.last
  BY ProjectedPays
<1>2. /\ HasCredit(c)
      /\ IF Moved(t, at)
         THEN c.last = at /\ c.credit <= t.credit + CreditScale * Leg(t.last, at)
         ELSE c = t
  BY CreditedPays DEF IsTracker
<1> HIDE DEF u, c
<1>3. /\ t.progress \in Int /\ t.credit \in Int /\ c.credit \in 0..MaxAdvance /\ MaxAdvance \in Nat
      /\ CreditScale * Leg(t.last, at) \in Int
  <2>1. t.progress \in Int /\ t.credit \in Int /\ c.credit \in 0..MaxAdvance /\ MaxAdvance \in Nat
    BY <1>2, RouteLength, RouteAssumption DEF IsTracker, HasCredit
  <2>2. t.last \in Places
    BY DEF IsTracker, HasCredit
  <2>3. Leg(t.last, at) \in Int /\ CreditScale \in Int
    BY <2>2, LegTyped, RouteAssumption
  <2> QED BY <2>1, <2>3
<1>4. CASE Moved(t, at)
  <2>1. ~Moved(u, at)
    BY <1>1, <1>2, <1>4 DEF Moved
  <2>2. u.last = at /\ u.progress + u.credit <= t.progress + MaxAdvance
    BY <1>1, <1>2, <1>3, <1>4
  <2>3. u.progress + u.credit <= t.progress + t.credit + CreditScale * Leg(t.last, at)
    BY <1>1, <1>2, <1>3, <1>4
  <2> QED BY <2>1, <2>2, <2>3 DEF u
<1>5. CASE ~Moved(t, at)
  <2>1. ~Moved(u, at)
    BY <1>1, <1>2, <1>5 DEF Moved
  <2> QED BY <1>1, <1>2, <1>5, <2>1 DEF u
<1> QED
  BY <1>4, <1>5

LEMMA LocalInvStart == LocalInit => LocalInv
<1> SUFFICES ASSUME LocalInit  PROVE LocalInv
  OBVIOUS
<1>1. place \in Places
  BY LocalNumbers DEF LocalInit
<1>2. /\ planner = [id |-> 0, at |-> place, tracker |-> Held] /\ distance = 0
      /\ controller = [id |-> 0, at |-> <<0, 0>>, posed |-> FALSE, tracker |-> Held, beat |-> None]
      /\ bspline = None /\ beat = None
  BY DEF LocalInit, Restarted
<1>3. planner.id = 0 /\ controller.id = 0 /\ controller.posed = FALSE /\ bspline.id = 0
  BY <1>2 DEF None
<1>4. LocalTyped
  <2>1. <<0, 0>> \in Places /\ MaxDistance \in Nat
    BY LocalNumbers DEF Places
  <2> QED BY <1>1, <1>2, <1>3, <2>1, HeldStill DEF LocalTyped, IsBeat
<1> QED
  BY <1>3, <1>4 DEF LocalInv, PlannerPays, ControllerPays, PoseCredited

LEMMA EarnedTyped == distance \in Nat => Earned \in Int
  BY LocalNumbers DEF Earned

LEMMA PaidTyped ==
  ASSUME NEW t, IsTracker(t), NEW at \in Places
  PROVE  /\ t.progress \in Nat /\ t.credit \in 0..MaxAdvance /\ t.progress <= t.route.total
         /\ CreditScale * Leg(t.last, at) \in Nat
<1>1. t.last \in Places /\ t.credit \in 0..MaxAdvance /\ t.progress \in 0..t.route.total
  BY DEF IsTracker, HasCredit
<1>2. t.route.total \in Nat
  BY RouteLength DEF IsTracker, HasCredit
<1>3. CreditScale \in Nat /\ Leg(t.last, at) \in Nat
  BY <1>1, LocalNumbers, LegTyped
<1>4. CreditScale * Leg(t.last, at) \in Nat
  BY <1>3
<1> QED
  BY <1>1, <1>2, <1>4

(* What the planner publishes of its progress is paid for.                 *)
LEMMA ProgressPaid ==
  ASSUME LocalInv, planner.id # 0
  PROVE  /\ planner.tracker.progress \in Nat
         /\ planner.tracker.progress <= Earned \/ distance = MaxDistance
<1> DEFINE t == planner.tracker
<1>1. TracksOne(t) /\ place \in Places /\ distance \in Nat
  BY LocalNumbers DEF LocalInv, LocalTyped
<1>2. Earned \in Int /\ Earned >= 0
  BY <1>1, LocalNumbers DEF Earned
<1>3. CASE ~IsActive(t)
  BY <1>1, <1>2, <1>3, ActiveTyped, HeldStill
<1>4. CASE IsActive(t)
  <2>1. IsTracker(t)
    BY <1>1, <1>4, ActiveTyped
  <2>2. \/ t.progress + t.credit + CreditScale * Leg(t.last, place) <= Earned
        \/ distance = MaxDistance
    BY <1>4 DEF LocalInv, PlannerPays
  <2>3. /\ t.progress \in Nat /\ t.credit \in 0..MaxAdvance
        /\ CreditScale * Leg(t.last, place) \in Nat /\ MaxAdvance \in Nat
    BY <1>1, <2>1, PaidTyped, LocalNumbers
  <2> HIDE DEF t
  <2> QED BY <1>2, <2>2, <2>3 DEF t
<1> QED
  BY <1>3, <1>4

(* A heartbeat adopted.                                                    *)
LEMMA AppliedPays ==
  ASSUME LocalInv, NEW c,
         c = [id |-> c.id, at |-> c.at, posed |-> c.posed, tracker |-> c.tracker, beat |-> c.beat],
         c.id \in 1..planner.id, c.at \in Places, c.posed \in BOOLEAN, TracksOne(c.tracker),
         IsBeat(c.beat), c.posed /\ IsActive(c.tracker) => ~Moved(c.tracker, c.at),
         c.id = planner.id /\ IsActive(c.tracker) =>
           \/ c.tracker.progress + c.tracker.credit <= Earned + MaxAdvance
           \/ c.tracker.progress + c.tracker.credit
                + CreditScale * Leg(c.tracker.last, place) <= Earned + 2 * MaxAdvance
           \/ distance = MaxDistance
  PROVE  LET u == Applied(c)
         IN  /\ u = [id |-> c.id, at |-> c.at, posed |-> c.posed, tracker |-> u.tracker,
                     beat |-> c.beat]
             /\ TracksOne(u.tracker)
             /\ c.posed /\ IsActive(u.tracker) => ~Moved(u.tracker, c.at)
             /\ c.id = planner.id /\ IsActive(u.tracker) =>
                  \/ u.tracker.progress + u.tracker.credit <= Earned + MaxAdvance
                  \/ u.tracker.progress + u.tracker.credit
                       + CreditScale * Leg(u.tracker.last, place) <= Earned + 2 * MaxAdvance
                  \/ distance = MaxDistance
<1>1. CASE ~MatchesTrajectory(c, c.beat)
  <2>1. Applied(c) = c
    BY <1>1 DEF Applied
  <2> QED BY <2>1
<1>2. CASE MatchesTrajectory(c, c.beat)
  <2> DEFINE v == AdvancedTo(c.tracker, c.beat.arc)
             u == [id |-> c.id, at |-> c.at, posed |-> c.posed, tracker |-> v, beat |-> c.beat]
  <2>1. Applied(c) = u
    <3>1. Applied(c) = [c EXCEPT !.tracker = v]
      BY <1>2 DEF Applied
    <3> HIDE DEF v
    <3> QED BY <3>1
  <2>2. c.beat.id = c.id /\ c.beat.id # 0
    BY <1>2 DEF MatchesTrajectory
  <2>3. c.beat.arc \in Nat /\ (c.id = planner.id => c.beat.arc <= Earned \/ distance = MaxDistance)
    <3>1. c.beat # None
      BY <2>2 DEF None
    <3> QED BY <2>2, <3>1 DEF IsBeat
  <2>4. /\ TracksOne(v) /\ (IsActive(v) => IsActive(c.tracker))
        /\ IsActive(c.tracker) => /\ IsTracker(v) /\ v.last = c.tracker.last
                                  /\ v.credit = c.tracker.credit
                                  /\ v.progress = c.tracker.progress \/ v.progress <= c.beat.arc
    BY <2>3, AdvancedToTyped
  <2> HIDE DEF v
  <2>5. c.posed /\ IsActive(v) => ~Moved(v, c.at)
    BY <2>4 DEF Moved
  <2>6. c.id = planner.id /\ IsActive(v) =>
          \/ v.progress + v.credit <= Earned + MaxAdvance
          \/ v.progress + v.credit + CreditScale * Leg(v.last, place) <= Earned + 2 * MaxAdvance
          \/ distance = MaxDistance
    <3>1. SUFFICES ASSUME c.id = planner.id, IsActive(v), distance # MaxDistance,
                          v.progress # c.tracker.progress
                   PROVE  v.progress + v.credit <= Earned + MaxAdvance
      BY <2>4
    <3>2. v.progress <= c.beat.arc /\ c.beat.arc <= Earned
      BY <2>3, <2>4, <3>1
    <3>3. v.progress \in Nat /\ v.credit \in 0..MaxAdvance /\ MaxAdvance \in Nat /\ Earned \in Int
      <4>1. IsTracker(v) /\ place \in Places /\ distance \in Nat
        BY <2>4, <3>1, LocalNumbers DEF LocalInv, LocalTyped
      <4> QED BY <4>1, PaidTyped, EarnedTyped, LocalNumbers
    <3> QED BY <2>3, <3>2, <3>3
  <2> QED BY <2>1, <2>4, <2>5, <2>6
<1> QED
  BY <1>1, <1>2

(* Of the steps that leave the planner and the robot alone.                *)
LEMMA ControllerStep ==
  ASSUME LocalInv, UNCHANGED <<place, planner, distance, bspline>>,
         beat' = beat \/ beat' = None \/ (planner.id # 0 /\ beat' = [id |-> planner.id,
                                                                     arc |-> planner.tracker.progress]),
         LET c == controller'
         IN  /\ c = [id |-> c.id, at |-> c.at, posed |-> c.posed, tracker |-> c.tracker, beat |-> c.beat]
             /\ c.id \in 0..planner.id /\ c.at \in Places /\ c.posed \in BOOLEAN
             /\ TracksOne(c.tracker) /\ IsBeat(c.beat)
             /\ c.posed /\ IsActive(c.tracker) => ~Moved(c.tracker, c.at)
             /\ c.id # 0 /\ c.id = planner.id /\ IsActive(c.tracker) =>
                  \/ c.tracker.progress + c.tracker.credit <= Earned + MaxAdvance
                  \/ c.tracker.progress + c.tracker.credit
                       + CreditScale * Leg(c.tracker.last, place) <= Earned + 2 * MaxAdvance
                  \/ distance = MaxDistance
  PROVE  LocalInv'
<1>1. Earned' = Earned
  BY DEF Earned
<1>2. IsBeat(beat)'
  <2>1. CASE planner.id # 0 /\ beat' = [id |-> planner.id, arc |-> planner.tracker.progress]
    <3>1. beat'.id = planner.id /\ beat'.arc = planner.tracker.progress
      BY <2>1
    <3>2. planner.id \in 1..planner.id
      BY <2>1 DEF LocalInv, LocalTyped
    <3>3. /\ planner.tracker.progress \in Nat
          /\ planner.tracker.progress <= Earned \/ distance = MaxDistance
      BY <2>1, ProgressPaid
    <3> QED BY <1>1, <2>1, <3>1, <3>2, <3>3 DEF IsBeat
  <2>2. CASE beat' = beat
    BY <1>1, <2>2 DEF LocalInv, LocalTyped, IsBeat
  <2>3. CASE beat' = None
    BY <2>3 DEF IsBeat
  <2> QED BY <2>1, <2>2, <2>3
<1>3. IsBeat(controller.beat)'
  BY <1>1 DEF IsBeat
<1>4. TracksOne(controller.tracker)' /\ TracksOne(planner.tracker)'
  BY DEF LocalInv, LocalTyped, TracksOne
<1>5. LocalTyped'
  BY <1>2, <1>3, <1>4 DEF LocalInv, LocalTyped
<1>6. PlannerPays'
  BY <1>1 DEF LocalInv, PlannerPays
<1>7. ControllerPays'
  BY <1>1 DEF ControllerPays
<1>8. PoseCredited'
  BY DEF PoseCredited
<1> QED
  BY <1>5, <1>6, <1>7, <1>8 DEF LocalInv

LEMMA TakeBsplineStep == LocalInv /\ TakeBspline => LocalInv'
<1> SUFFICES ASSUME LocalInv, TakeBspline  PROVE LocalInv'
  OBVIOUS
<1> DEFINE k == Tracking(bspline.points, IF controller.posed THEN controller.at ELSE Head(bspline.points))
           c == [id |-> bspline.id, at |-> controller.at, posed |-> controller.posed,
                 tracker |-> k, beat |-> controller.beat]
<1>1. /\ controller = [id |-> controller.id, at |-> controller.at, posed |-> controller.posed,
                       tracker |-> controller.tracker, beat |-> controller.beat]
      /\ controller.at \in Places /\ controller.posed \in BOOLEAN /\ IsBeat(controller.beat)
      /\ planner.id \in Nat /\ bspline.id = planner.id /\ bspline.id # 0
      /\ bspline.points \in Trajectories /\ distance \in Nat
  BY LocalNumbers DEF LocalInv, LocalTyped, TakeBspline
<1>2. controller' = Applied(c) /\ UNCHANGED <<place, planner, bspline, beat, distance>>
  <2>1. controller' = Applied([controller EXCEPT !.id = bspline.id, !.tracker = k])
        /\ UNCHANGED <<place, planner, bspline, beat, distance>>
    BY DEF TakeBspline, SampleControllerPath
  <2> HIDE DEF k
  <2> DEFINE d == [controller EXCEPT !.id = bspline.id]
  <2>2. [controller EXCEPT !.id = bspline.id, !.tracker = k] = [d EXCEPT !.tracker = k]
    OBVIOUS
  <2>3. d = [id |-> bspline.id, at |-> controller.at, posed |-> controller.posed,
             tracker |-> controller.tracker, beat |-> controller.beat]
    BY <1>1
  <2> HIDE DEF d
  <2>4. [d EXCEPT !.tracker = k] = c
    BY <2>3
  <2> QED BY <2>1, <2>2, <2>4
<1>3. /\ TracksOne(k) /\ k.progress = 0
      /\ IsActive(k) => k.credit = InitialCredit
                        /\ k.last = IF controller.posed THEN controller.at ELSE Head(bspline.points)
  <2>1. (IF controller.posed THEN controller.at ELSE Head(bspline.points)) \in Places
    BY <1>1, LocalNumbers
  <2> QED BY <1>1, <2>1, TrackingTyped
<1> HIDE DEF k
<1>4. controller.posed /\ IsActive(k) => ~Moved(k, controller.at)
  BY <1>3 DEF Moved
<1>5. IsActive(k) => k.progress + k.credit <= Earned + MaxAdvance
  <2>1. distance \in Nat => Earned \in Nat
    BY LocalNumbers DEF Earned
  <2> QED BY <1>1, <1>3, <2>1, LocalNumbers
<1>6. /\ c = [id |-> c.id, at |-> c.at, posed |-> c.posed, tracker |-> c.tracker, beat |-> c.beat]
      /\ c.id = planner.id /\ c.at = controller.at /\ c.posed = controller.posed /\ c.tracker = k
      /\ c.beat = controller.beat
  BY <1>1
<1>7. planner.id \in 1..planner.id
  BY <1>1
<1> DEFINE u == Applied(c)
<1>8. /\ u = [id |-> planner.id, at |-> controller.at, posed |-> controller.posed,
              tracker |-> u.tracker, beat |-> controller.beat]
      /\ TracksOne(u.tracker)
      /\ controller.posed /\ IsActive(u.tracker) => ~Moved(u.tracker, controller.at)
      /\ IsActive(u.tracker) =>
           \/ u.tracker.progress + u.tracker.credit <= Earned + MaxAdvance
           \/ u.tracker.progress + u.tracker.credit
                + CreditScale * Leg(u.tracker.last, place) <= Earned + 2 * MaxAdvance
           \/ distance = MaxDistance
  <2> HIDE DEF c
  <2> QED BY <1>1, <1>3, <1>4, <1>5, <1>6, <1>7, AppliedPays
<1> HIDE DEF u, c
<1>9. u.id = planner.id /\ u.at = controller.at /\ u.posed = controller.posed /\ u.beat = controller.beat
  BY <1>8
<1>10. u = [id |-> u.id, at |-> u.at, posed |-> u.posed, tracker |-> u.tracker, beat |-> u.beat]
  BY <1>8, <1>9
<1>11. u.id \in 0..planner.id
  BY <1>1, <1>9
<1>12. controller' = u
  BY <1>2 DEF u
<1> QED
  BY <1>1, <1>2, <1>8, <1>9, <1>10, <1>11, <1>12, ControllerStep

LEMMA TakeHeartbeatStep == LocalInv /\ TakeHeartbeat => LocalInv'
<1> SUFFICES ASSUME LocalInv, TakeHeartbeat  PROVE LocalInv'
  OBVIOUS
<1> DEFINE c == [id |-> controller.id, at |-> controller.at, posed |-> controller.posed,
                 tracker |-> controller.tracker, beat |-> beat]
           u == Applied(c)
<1>1. /\ controller = [id |-> controller.id, at |-> controller.at, posed |-> controller.posed,
                       tracker |-> controller.tracker, beat |-> controller.beat]
      /\ controller.at \in Places /\ controller.posed \in BOOLEAN /\ IsBeat(beat)
      /\ planner.id \in Nat /\ controller.id \in 0..planner.id /\ TracksOne(controller.tracker)
  BY DEF LocalInv, LocalTyped
<1>2. controller' = u /\ UNCHANGED <<place, planner, bspline, distance>> /\ beat' = None
  <2>1. controller' = Applied([controller EXCEPT !.beat = beat])
    BY DEF TakeHeartbeat
  <2>2. [controller EXCEPT !.beat = beat] = c
    BY <1>1
  <2> QED BY <2>1, <2>2 DEF TakeHeartbeat
<1>3. c = [id |-> c.id, at |-> c.at, posed |-> c.posed, tracker |-> c.tracker, beat |-> c.beat]
      /\ c.id = controller.id /\ c.at = controller.at /\ c.posed = controller.posed
      /\ c.tracker = controller.tracker /\ c.beat = beat
  OBVIOUS
<1> HIDE DEF c
<1>4. CASE controller.id = 0
  <2>1. u = c
    BY <1>3, <1>4 DEF Applied, MatchesTrajectory
  <2>2. controller' = c
    BY <1>2, <2>1
  <2>3. controller.posed /\ IsActive(controller.tracker) => ~Moved(controller.tracker, controller.at)
    BY DEF LocalInv, PoseCredited
  <2> HIDE DEF u
  <2> QED BY <1>1, <1>2, <1>3, <1>4, <2>2, <2>3, ControllerStep
<1>5. CASE controller.id # 0
  <2>1. controller.id \in 1..planner.id
    BY <1>1, <1>5
  <2>2. /\ controller.posed /\ IsActive(controller.tracker) => ~Moved(controller.tracker, controller.at)
        /\ controller.id = planner.id /\ IsActive(controller.tracker) =>
             \/ controller.tracker.progress + controller.tracker.credit <= Earned + MaxAdvance
             \/ controller.tracker.progress + controller.tracker.credit
                  + CreditScale * Leg(controller.tracker.last, place) <= Earned + 2 * MaxAdvance
             \/ distance = MaxDistance
    BY <1>5 DEF LocalInv, ControllerPays, PoseCredited
  <2>3. /\ u = [id |-> controller.id, at |-> controller.at, posed |-> controller.posed,
                tracker |-> u.tracker, beat |-> beat]
        /\ TracksOne(u.tracker)
        /\ controller.posed /\ IsActive(u.tracker) => ~Moved(u.tracker, controller.at)
        /\ controller.id = planner.id /\ IsActive(u.tracker) =>
             \/ u.tracker.progress + u.tracker.credit <= Earned + MaxAdvance
             \/ u.tracker.progress + u.tracker.credit
                  + CreditScale * Leg(u.tracker.last, place) <= Earned + 2 * MaxAdvance
             \/ distance = MaxDistance
    BY <1>1, <1>3, <2>1, <2>2, AppliedPays
  <2> HIDE DEF u
  <2>4. u.id = controller.id /\ u.at = controller.at /\ u.posed = controller.posed /\ u.beat = beat
    BY <2>3
  <2>5. u = [id |-> u.id, at |-> u.at, posed |-> u.posed, tracker |-> u.tracker, beat |-> u.beat]
    BY <2>3, <2>4
  <2> QED BY <1>1, <1>2, <2>3, <2>4, <2>5, ControllerStep
<1> QED
  BY <1>4, <1>5

(* A pose, the same or a new one, at the controller.                       *)
LEMMA FollowPathStep == LocalInv /\ FollowPath => LocalInv'
<1> SUFFICES ASSUME LocalInv, FollowPath  PROVE LocalInv'
  OBVIOUS
<1> DEFINE t == controller.tracker
           u == Updated(t, controller.at)
           c == [id |-> controller.id, at |-> controller.at, posed |-> controller.posed,
                 tracker |-> u, beat |-> controller.beat]
<1>1. /\ controller = [id |-> controller.id, at |-> controller.at, posed |-> controller.posed,
                       tracker |-> controller.tracker, beat |-> controller.beat]
      /\ controller.at \in Places /\ controller.posed \in BOOLEAN /\ IsBeat(controller.beat)
      /\ controller.id \in 0..planner.id /\ TracksOne(t) /\ controller.posed /\ controller.id # 0
      /\ place \in Places
  BY DEF LocalInv, LocalTyped, FollowPath
<1>2. controller' = [controller EXCEPT !.tracker = u] /\ UNCHANGED <<place, planner, bspline, beat, distance>>
  BY DEF FollowPath
<1>3. TracksOne(u) /\ (IsActive(u) => IsActive(t)) /\ (IsActive(t) => u = Projected(t, controller.at))
  BY <1>1, UpdatedTyped
<1>4. IsActive(t) => u = Projected(t, controller.at) /\ IsTracker(t)
  BY <1>1, <1>3, ActiveTyped
<1>5. IsActive(t) => ~Moved(t, controller.at)
  BY <1>1 DEF LocalInv, PoseCredited
<1>6. IsActive(t) => ~Moved(u, controller.at) /\ u.last = t.last /\ u.progress + u.credit = t.progress + t.credit
  <2>1. SUFFICES ASSUME IsActive(t)
                 PROVE  /\ ~Moved(u, controller.at) /\ u.last = t.last
                        /\ u.progress + u.credit = t.progress + t.credit
    OBVIOUS
  <2> HIDE DEF u, t
  <2>2. Credited(t, controller.at) = t
    BY <1>5, <2>1 DEF Credited
  <2>3. u.last = t.last /\ u.progress + u.credit = t.progress + t.credit
    BY <1>1, <1>4, <2>1, <2>2, ProjectedPays
  <2>4. ~Moved(u, controller.at)
    BY <1>5, <2>1, <2>3 DEF Moved
  <2> QED BY <2>3, <2>4
<1>7. controller.id = planner.id /\ IsActive(t) =>
        \/ t.progress + t.credit <= Earned + MaxAdvance
        \/ t.progress + t.credit + CreditScale * Leg(t.last, place) <= Earned + 2 * MaxAdvance
        \/ distance = MaxDistance
  BY <1>1 DEF LocalInv, ControllerPays
<1> HIDE DEF u
<1>8. controller' = c
  BY <1>1, <1>2
<1>9. c = [id |-> c.id, at |-> c.at, posed |-> c.posed, tracker |-> c.tracker, beat |-> c.beat]
      /\ c.id = controller.id /\ c.at = controller.at /\ c.posed = controller.posed /\ c.tracker = u
      /\ c.beat = controller.beat
  OBVIOUS
<1> HIDE DEF c
<1>10. controller.posed /\ IsActive(u) => ~Moved(u, controller.at)
  BY <1>3, <1>6
<1>11. controller.id = planner.id /\ IsActive(u) =>
        \/ u.progress + u.credit <= Earned + MaxAdvance
        \/ u.progress + u.credit + CreditScale * Leg(u.last, place) <= Earned + 2 * MaxAdvance
        \/ distance = MaxDistance
  <2> HIDE DEF t
  <2> QED BY <1>3, <1>6, <1>7
<1> QED
  BY <1>1, <1>2, <1>3, <1>8, <1>9, <1>10, <1>11, ControllerStep

LEMMA TakePoseStep == LocalInv /\ TakePose => LocalInv'
<1> SUFFICES ASSUME LocalInv, TakePose  PROVE LocalInv'
  OBVIOUS
<1> DEFINE t == controller.tracker
           u == Updated(t, place)
           c == [id |-> controller.id, at |-> place, posed |-> TRUE,
                 tracker |-> u, beat |-> controller.beat]
<1>1. /\ controller = [id |-> controller.id, at |-> controller.at, posed |-> controller.posed,
                       tracker |-> controller.tracker, beat |-> controller.beat]
      /\ IsBeat(controller.beat) /\ controller.id \in 0..planner.id /\ TracksOne(t)
      /\ place \in Places /\ distance \in Nat
  BY LocalNumbers DEF LocalInv, LocalTyped
<1>2. controller' = c /\ UNCHANGED <<place, planner, bspline, beat, distance>>
  <2>1. controller' = [controller EXCEPT !.at = place, !.posed = TRUE, !.tracker = u]
        /\ UNCHANGED <<place, planner, bspline, beat, distance>>
    BY DEF TakePose
  <2> HIDE DEF u
  <2> DEFINE yes == TRUE
             d == [controller EXCEPT !.at = place]
             e == [d EXCEPT !.posed = yes]
  <2>2. [controller EXCEPT !.at = place, !.posed = TRUE, !.tracker = u] = [e EXCEPT !.tracker = u]
    OBVIOUS
  <2>3. d = [id |-> controller.id, at |-> place, posed |-> controller.posed,
             tracker |-> controller.tracker, beat |-> controller.beat]
    BY <1>1
  <2> HIDE DEF d, yes
  <2>4. /\ d.id = controller.id /\ d.at = place /\ d.tracker = t /\ d.beat = controller.beat
        /\ d = [id |-> d.id, at |-> d.at, posed |-> d.posed, tracker |-> d.tracker, beat |-> d.beat]
    BY <2>3
  <2>5. e = [id |-> d.id, at |-> d.at, posed |-> yes, tracker |-> d.tracker, beat |-> d.beat]
    BY <2>4
  <2> HIDE DEF e
  <2>6. /\ e.id = controller.id /\ e.at = place /\ e.posed = yes /\ e.beat = controller.beat
        /\ e = [id |-> e.id, at |-> e.at, posed |-> e.posed, tracker |-> e.tracker, beat |-> e.beat]
    BY <2>4, <2>5
  <2>7. [e EXCEPT !.tracker = u]
          = [id |-> e.id, at |-> e.at, posed |-> e.posed, tracker |-> u, beat |-> e.beat]
    BY <2>6
  <2> QED BY <2>1, <2>2, <2>6, <2>7 DEF yes
<1>3. TracksOne(u) /\ (IsActive(u) => IsActive(t)) /\ (IsActive(t) => u = Projected(t, place))
  BY <1>1, UpdatedTyped
<1>4. IsActive(t) =>
        /\ IsTracker(t) /\ IsTracker(u) /\ ~Moved(u, place)
        /\ \/ u.last = t.last /\ u.progress + u.credit = t.progress + t.credit
           \/ /\ u.last = place
              /\ u.progress + u.credit <= t.progress + MaxAdvance
              /\ u.progress + u.credit <= t.progress + t.credit + CreditScale * Leg(t.last, place)
  <2>1. IsActive(t) => u = Projected(t, place) /\ IsTracker(t)
    BY <1>1, <1>3, ActiveTyped
  <2> HIDE DEF u, t
  <2>2. IsActive(t) => IsTracker(u)
    BY <1>1, <2>1, ProjectedPays
  <2> QED BY <1>1, <2>1, <2>2, PoseTaken
<1>5. controller.id # 0 /\ controller.id = planner.id /\ IsActive(t) =>
        \/ t.progress + t.credit <= Earned + MaxAdvance
        \/ t.progress + t.credit + CreditScale * Leg(t.last, place) <= Earned + 2 * MaxAdvance
        \/ distance = MaxDistance
  BY DEF LocalInv, ControllerPays
<1> HIDE DEF u
<1>6. c = [id |-> c.id, at |-> c.at, posed |-> c.posed, tracker |-> c.tracker, beat |-> c.beat]
      /\ c.id = controller.id /\ c.at = place /\ c.posed = TRUE /\ c.tracker = u
      /\ c.beat = controller.beat
  OBVIOUS
<1> HIDE DEF c, t
<1>7. controller.id # 0 /\ controller.id = planner.id /\ IsActive(u) =>
        \/ u.progress + u.credit <= Earned + MaxAdvance
        \/ u.progress + u.credit + CreditScale * Leg(u.last, place) <= Earned + 2 * MaxAdvance
        \/ distance = MaxDistance
  <2>a. SUFFICES ASSUME controller.id # 0, controller.id = planner.id, IsActive(u), distance # MaxDistance
                 PROVE  \/ u.progress + u.credit <= Earned + MaxAdvance
                        \/ u.progress + u.credit + CreditScale * Leg(u.last, place)
                             <= Earned + 2 * MaxAdvance
    OBVIOUS
  <2>b. IsActive(t)
    BY <1>3, <2>a
  <2>c. CASE u.last = t.last /\ u.progress + u.credit = t.progress + t.credit
    BY <1>5, <2>a, <2>b, <2>c
  <2>1. SUFFICES ASSUME /\ u.last = place
                        /\ u.progress + u.credit <= t.progress + MaxAdvance
                        /\ u.progress + u.credit
                             <= t.progress + t.credit + CreditScale * Leg(t.last, place)
                 PROVE  u.progress + u.credit + CreditScale * Leg(u.last, place)
                          <= Earned + 2 * MaxAdvance
    BY <1>4, <2>a, <2>b, <2>c
  <2>2. CreditScale * Leg(u.last, place) = 0
    <3>1. Leg(u.last, place) = 0
      BY <1>1, <2>1, LegTyped
    <3> QED BY <3>1, LocalNumbers
  <2>3. /\ t.progress \in Nat /\ t.credit \in 0..MaxAdvance /\ u.progress \in Nat
        /\ u.credit \in 0..MaxAdvance /\ CreditScale * Leg(t.last, place) \in Nat
        /\ Earned \in Int /\ MaxAdvance \in Nat
    BY <1>1, <1>4, <2>b, PaidTyped, EarnedTyped, LocalNumbers
  <2>4. CASE t.progress + t.credit <= Earned + MaxAdvance
    <3>1. u.progress + u.credit <= t.progress + MaxAdvance
      BY <2>1
    <3> QED BY <2>2, <2>3, <2>4, <3>1
  <2>5. CASE t.progress + t.credit + CreditScale * Leg(t.last, place) <= Earned + 2 * MaxAdvance
    <3>1. u.progress + u.credit <= t.progress + t.credit + CreditScale * Leg(t.last, place)
      BY <2>1
    <3> QED BY <2>2, <2>3, <2>5, <3>1
  <2> QED BY <1>5, <2>a, <2>b, <2>4, <2>5
<1>8. IsActive(u) => ~Moved(u, place)
  BY <1>3, <1>4
<1> QED
  BY <1>1, <1>2, <1>3, <1>6, <1>7, <1>8, ControllerStep DEF t

(* Of the steps of the planner and of the robot, which leave the           *)
(* controller alone.                                                       *)
LEMMA BeatKept ==
  ASSUME NEW h, LocalInv, IsBeat(h), distance' \in 0..MaxDistance,
         \/ planner'.id = planner.id /\ (Earned' >= Earned \/ distance' = MaxDistance)
                                     /\ (distance = MaxDistance => distance' = MaxDistance)
         \/ planner'.id = planner.id + 1
  PROVE  \/ h = None
         \/ /\ h = [id |-> h.id, arc |-> h.arc] /\ h.id \in 1..planner'.id /\ h.arc \in Nat
            /\ h.id = planner'.id => h.arc <= Earned' \/ distance' = MaxDistance
<1>1. planner.id \in Nat /\ distance \in Nat /\ distance' \in Nat
  BY LocalNumbers DEF LocalInv, LocalTyped
<1>2. Earned \in Int /\ Earned' \in Int
  BY <1>1, LocalNumbers DEF Earned
<1>3. CASE h = None
  BY <1>3
<1>4. CASE h # None
  <2>1. /\ h = [id |-> h.id, arc |-> h.arc] /\ h.id \in 1..planner.id /\ h.arc \in Nat
        /\ h.id = planner.id => h.arc <= Earned \/ distance = MaxDistance
    BY <1>4 DEF IsBeat
  <2>2. CASE planner'.id = planner.id + 1
    <3>1. h.id \in 1..planner'.id /\ h.id # planner'.id
      BY <1>1, <2>1, <2>2
    <3> QED BY <2>1, <3>1
  <2>3. CASE /\ planner'.id = planner.id /\ (Earned' >= Earned \/ distance' = MaxDistance)
             /\ (distance = MaxDistance => distance' = MaxDistance)
    <3>1. h.id = planner'.id => h.arc <= Earned' \/ distance' = MaxDistance
      BY <1>2, <2>1, <2>3
    <3> QED BY <2>1, <2>3, <3>1
  <2> QED BY <2>2, <2>3
<1> QED
  BY <1>3, <1>4

LEMMA CommitStep ==
  ASSUME LocalInv, NEW points \in Trajectories, Commit(points)
  PROVE  LocalInv'
<1> DEFINE k == Tracking(points, planner.at)
           p == [id |-> planner.id + 1, at |-> planner.at, tracker |-> k]
<1>1. /\ planner = [id |-> planner.id, at |-> planner.at, tracker |-> planner.tracker]
      /\ planner.id \in Nat /\ planner.at \in Places /\ place \in Places
      /\ controller.id \in 0..planner.id /\ TracksOne(controller.tracker)
  BY DEF LocalInv, LocalTyped
<1>2. planner' = p
  <2>1. planner' = [planner EXCEPT !.id = planner.id + 1, !.tracker = k]
    BY DEF Commit
  <2> HIDE DEF k
  <2> DEFINE d == [planner EXCEPT !.id = planner.id + 1]
  <2>2. [planner EXCEPT !.id = planner.id + 1, !.tracker = k] = [d EXCEPT !.tracker = k]
    OBVIOUS
  <2>3. d = [id |-> planner.id + 1, at |-> planner.at, tracker |-> planner.tracker]
    BY <1>1
  <2> HIDE DEF d
  <2>4. [d EXCEPT !.tracker = k] = p
    BY <2>3
  <2> QED BY <2>1, <2>2, <2>4
<1>3. /\ bspline' = [id |-> planner'.id, points |-> points]
      /\ distance' = Lesser(MaxDistance, Leg(place, planner.at))
      /\ UNCHANGED <<place, controller, beat>>
  BY DEF Commit
<1>4. TracksOne(k) /\ k.progress = 0 /\ (IsActive(k) => k.credit = InitialCredit /\ k.last = planner.at)
  BY <1>1, TrackingTyped
<1> HIDE DEF k
<1>5. planner'.id = planner.id + 1 /\ planner'.at = planner.at /\ planner'.tracker = k
  BY <1>2
<1>6. planner' = [id |-> planner'.id, at |-> planner'.at, tracker |-> planner'.tracker]
  BY <1>2, <1>5
<1>7. /\ Leg(place, planner.at) \in Nat /\ Leg(place, planner.at) = Leg(planner.at, place)
      /\ MaxDistance \in Nat
  BY <1>1, LegTyped, LocalNumbers
<1>8. distance' \in 0..MaxDistance /\ (distance' = Leg(planner.at, place) \/ distance' = MaxDistance)
  BY <1>3, <1>7 DEF Lesser
<1>9. /\ bspline'.id = planner'.id /\ bspline'.points \in Trajectories
  BY <1>3
<1>10. IsBeat(beat)' /\ IsBeat(controller.beat)'
  <2>1. IsBeat(beat) /\ IsBeat(controller.beat) /\ beat' = beat /\ controller' = controller
    BY <1>3 DEF LocalInv, LocalTyped
  <2>2. IsBeat(beat)'
    BY <1>5, <1>8, <2>1, BeatKept DEF IsBeat
  <2>3. IsBeat(controller.beat)'
    BY <1>5, <1>8, <2>1, BeatKept DEF IsBeat
  <2> QED BY <2>2, <2>3
<1>11. controller'.id \in 0..planner'.id /\ controller'.id # planner'.id
  BY <1>1, <1>3, <1>5
<1>12. LocalTyped'
  <2>1. TracksOne(planner.tracker)' /\ TracksOne(controller.tracker)'
    BY <1>1, <1>3, <1>4, <1>5 DEF TracksOne
  <2>2. planner'.id \in Nat /\ place' \in Places /\ planner'.at \in Places
    BY <1>1, <1>3, <1>5
  <2> QED BY <1>3, <1>6, <1>8, <1>9, <1>10, <1>11, <2>1, <2>2 DEF LocalInv, LocalTyped
<1>13. PlannerPays'
  <2>1. SUFFICES ASSUME IsActive(k), distance' # MaxDistance
                 PROVE  k.progress + k.credit + CreditScale * Leg(k.last, place) <= Earned'
    BY <1>3, <1>5 DEF PlannerPays
  <2>2. Earned' = InitialCredit + CreditScale * Leg(planner.at, place)
    BY <1>8, <2>1 DEF Earned
  <2>3. CreditScale * Leg(planner.at, place) \in Nat
    BY <1>7, LocalNumbers
  <2> QED BY <1>4, <2>1, <2>2, <2>3, LocalNumbers
<1>14. ControllerPays'
  BY <1>11 DEF ControllerPays
<1>15. PoseCredited'
  BY <1>3 DEF LocalInv, PoseCredited
<1> QED
  BY <1>12, <1>13, <1>14, <1>15 DEF LocalInv

LEMMA PlannerPoseStep == LocalInv /\ PlannerPose => LocalInv'
<1> SUFFICES ASSUME LocalInv, PlannerPose  PROVE LocalInv'
  OBVIOUS
<1> DEFINE t == planner.tracker
           u == Updated(t, place)
           p == [id |-> planner.id, at |-> place, tracker |-> u]
<1>1. /\ planner = [id |-> planner.id, at |-> planner.at, tracker |-> planner.tracker]
      /\ planner.id \in Nat /\ place \in Places /\ TracksOne(t) /\ TracksOne(controller.tracker)
      /\ distance \in 0..MaxDistance /\ distance \in Nat
  BY LocalNumbers DEF LocalInv, LocalTyped
<1>2. planner' = p
  <2>1. planner' = [planner EXCEPT !.at = place, !.tracker = u]
    BY DEF PlannerPose
  <2> HIDE DEF u
  <2> DEFINE d == [planner EXCEPT !.at = place]
  <2>2. [planner EXCEPT !.at = place, !.tracker = u] = [d EXCEPT !.tracker = u]
    OBVIOUS
  <2>3. d = [id |-> planner.id, at |-> place, tracker |-> planner.tracker]
    BY <1>1
  <2> HIDE DEF d
  <2>4. [d EXCEPT !.tracker = u] = p
    BY <2>3
  <2> QED BY <2>1, <2>2, <2>4
<1>3. UNCHANGED <<place, controller, bspline, beat, distance>>
  BY DEF PlannerPose
<1>4. TracksOne(u) /\ (IsActive(u) => IsActive(t)) /\ (IsActive(t) => u = Projected(t, place))
  BY <1>1, UpdatedTyped
<1>5. IsActive(t) =>
        /\ IsTracker(t) /\ IsTracker(u)
        /\ \/ u.last = t.last /\ u.progress + u.credit = t.progress + t.credit
           \/ /\ u.last = place
              /\ u.progress + u.credit <= t.progress + t.credit + CreditScale * Leg(t.last, place)
  <2>1. IsActive(t) => u = Projected(t, place) /\ IsTracker(t)
    BY <1>1, <1>4, ActiveTyped
  <2> HIDE DEF u, t
  <2>2. IsActive(t) => IsTracker(u)
    BY <1>1, <2>1, ProjectedPays
  <2> QED BY <1>1, <2>1, <2>2, PoseTaken
<1> HIDE DEF u
<1>6. planner'.id = planner.id /\ planner'.at = place /\ planner'.tracker = u
  BY <1>2
<1>7. planner' = [id |-> planner'.id, at |-> planner'.at, tracker |-> planner'.tracker]
  BY <1>2, <1>6
<1>8. Earned' = Earned /\ Earned \in Int
  BY <1>1, <1>3, EarnedTyped DEF Earned
<1>9. LocalTyped'
  <2>1. IsBeat(beat)' /\ IsBeat(controller.beat)'
    BY <1>3, <1>6, <1>8 DEF LocalInv, LocalTyped, IsBeat
  <2>2. TracksOne(planner.tracker)' /\ TracksOne(controller.tracker)'
    BY <1>1, <1>3, <1>4, <1>6 DEF TracksOne
  <2> QED BY <1>1, <1>3, <1>6, <1>7, <2>1, <2>2 DEF LocalInv, LocalTyped
<1>10. PlannerPays'
  <2>1. SUFFICES ASSUME planner.id # 0, IsActive(u), distance # MaxDistance
                 PROVE  u.progress + u.credit + CreditScale * Leg(u.last, place) <= Earned
    BY <1>3, <1>6, <1>8 DEF PlannerPays
  <2>2. t.progress + t.credit + CreditScale * Leg(t.last, place) <= Earned /\ IsActive(t)
    BY <1>4, <2>1 DEF LocalInv, PlannerPays
  <2> HIDE DEF t
  <2>3. CASE u.last = t.last /\ u.progress + u.credit = t.progress + t.credit
    BY <2>2, <2>3
  <2>4. CASE /\ u.last = place
             /\ u.progress + u.credit <= t.progress + t.credit + CreditScale * Leg(t.last, place)
    <3>1. CreditScale * Leg(u.last, place) = 0
      <4>1. Leg(u.last, place) = 0
        BY <1>1, <2>4, LegTyped
      <4> QED BY <4>1, LocalNumbers
    <3>2. /\ t.progress \in Nat /\ t.credit \in 0..MaxAdvance /\ u.progress \in Nat
          /\ u.credit \in 0..MaxAdvance /\ CreditScale * Leg(t.last, place) \in Nat
          /\ MaxAdvance \in Nat
      BY <1>1, <1>5, <2>2, PaidTyped, LocalNumbers
    <3> QED BY <1>8, <2>2, <2>4, <3>1, <3>2
  <2> QED BY <1>5, <2>2, <2>3, <2>4
<1>11. ControllerPays'
  BY <1>3, <1>6, <1>8 DEF LocalInv, ControllerPays
<1>12. PoseCredited'
  BY <1>3 DEF LocalInv, PoseCredited
<1> QED
  BY <1>9, <1>10, <1>11, <1>12 DEF LocalInv

LEMMA MoveStep ==
  ASSUME LocalInv, NEW at \in Ground, MoveTo(at)
  PROVE  LocalInv'
<1>1. /\ place' = at /\ Leg(place, at) = 1 /\ distance' = Lesser(MaxDistance, distance + 1)
      /\ UNCHANGED <<planner, controller, bspline, beat>> /\ at \in Places /\ place \in Places
      /\ distance \in 0..MaxDistance /\ MaxDistance \in Nat
  BY LocalNumbers DEF MoveTo, LocalInv, LocalTyped
<1>2. /\ distance' \in 0..MaxDistance /\ (distance' = MaxDistance \/ distance' = distance + 1)
      /\ (distance = MaxDistance => distance' = MaxDistance)
  BY <1>1 DEF Lesser
<1>3. distance' # MaxDistance => Earned' = Earned + CreditScale /\ distance # MaxDistance
  <2>1. ASSUME distance' # MaxDistance  PROVE Earned' = Earned + CreditScale
    <3>1. distance' = distance + 1
      BY <1>2, <2>1
    <3>2. CreditScale * (distance + 1) = CreditScale * distance + CreditScale
      BY <1>1, LocalNumbers
    <3> QED BY <1>1, <3>1, <3>2, LocalNumbers DEF Earned
  <2> QED BY <1>2, <2>1
<1>4. Earned \in Int /\ Earned' \in Int /\ CreditScale \in Nat
  <2>1. distance \in Nat /\ distance' \in Nat
    BY <1>1, <1>2
  <2> QED BY <2>1, LocalNumbers DEF Earned
<1>5. IsBeat(beat)' /\ IsBeat(controller.beat)'
  <2>1. IsBeat(beat) /\ IsBeat(controller.beat) /\ beat' = beat /\ controller' = controller
    BY <1>1 DEF LocalInv, LocalTyped
  <2>2. planner'.id = planner.id /\ (Earned' >= Earned \/ distance' = MaxDistance)
    BY <1>1, <1>3, <1>4
  <2>3. IsBeat(beat)'
    BY <1>2, <2>1, <2>2, BeatKept DEF IsBeat
  <2>4. IsBeat(controller.beat)'
    BY <1>2, <2>1, <2>2, BeatKept DEF IsBeat
  <2> QED BY <2>3, <2>4
<1>6. ASSUME NEW t, IsTracker(t)
      PROVE  CreditScale * Leg(t.last, place') <= CreditScale * Leg(t.last, place) + CreditScale
  <2>1. t.last \in Places
    BY <1>6 DEF IsTracker, HasCredit
  <2>2. Leg(t.last, at) <= Leg(t.last, place) + 1 /\ Leg(t.last, at) \in Nat /\ Leg(t.last, place) \in Nat
    BY <1>1, <2>1, LegTriangle, LegTyped
  <2>3. CreditScale * Leg(t.last, at) <= CreditScale * (Leg(t.last, place) + 1)
    BY <1>4, <2>2
  <2>4. CreditScale * (Leg(t.last, place) + 1) = CreditScale * Leg(t.last, place) + CreditScale
    BY <1>4, <2>2
  <2> QED BY <1>1, <2>3, <2>4
<1>7. ASSUME NEW t, TracksOne(t), IsActive(t)
      PROVE  /\ IsTracker(t) /\ t.progress \in Nat /\ t.credit \in 0..MaxAdvance
             /\ CreditScale * Leg(t.last, place) \in Nat /\ CreditScale * Leg(t.last, place') \in Nat
             /\ CreditScale * Leg(t.last, place') <= CreditScale * Leg(t.last, place) + CreditScale
  <2>1. IsTracker(t)
    BY <1>7, ActiveTyped
  <2>2. place' \in Places
    BY <1>1
  <2> QED BY <1>1, <1>6, <2>1, <2>2, PaidTyped
<1>8. LocalTyped'
  <2>1. TracksOne(planner.tracker)' /\ TracksOne(controller.tracker)'
    BY <1>1 DEF LocalInv, LocalTyped, TracksOne
  <2> QED BY <1>1, <1>2, <1>5, <2>1 DEF LocalInv, LocalTyped
<1>9. PlannerPays'
  <2> DEFINE t == planner.tracker
  <2>1. SUFFICES ASSUME planner.id # 0, IsActive(t), distance' # MaxDistance
                 PROVE  t.progress + t.credit + CreditScale * Leg(t.last, place') <= Earned'
    BY <1>1 DEF PlannerPays
  <2>2. t.progress + t.credit + CreditScale * Leg(t.last, place) <= Earned
    BY <1>3, <2>1 DEF LocalInv, PlannerPays
  <2>3. TracksOne(t)
    BY DEF LocalInv, LocalTyped
  <2> HIDE DEF t
  <2> QED BY <1>3, <1>4, <1>7, <2>1, <2>2, <2>3, LocalNumbers
<1>10. ControllerPays'
  <2> DEFINE t == controller.tracker
  <2>1. SUFFICES ASSUME controller.id # 0, controller.id = planner.id, IsActive(t),
                        distance' # MaxDistance
                 PROVE  \/ t.progress + t.credit <= Earned' + MaxAdvance
                        \/ t.progress + t.credit + CreditScale * Leg(t.last, place')
                             <= Earned' + 2 * MaxAdvance
    BY <1>1 DEF ControllerPays
  <2>2. \/ t.progress + t.credit <= Earned + MaxAdvance
        \/ t.progress + t.credit + CreditScale * Leg(t.last, place) <= Earned + 2 * MaxAdvance
    BY <1>3, <2>1 DEF LocalInv, ControllerPays
  <2>3. TracksOne(t)
    BY DEF LocalInv, LocalTyped
  <2> HIDE DEF t
  <2>4. /\ t.progress \in Nat /\ t.credit \in 0..MaxAdvance
        /\ CreditScale * Leg(t.last, place) \in Nat /\ CreditScale * Leg(t.last, place') \in Nat
        /\ CreditScale * Leg(t.last, place') <= CreditScale * Leg(t.last, place) + CreditScale
    BY <1>7, <2>1, <2>3
  <2>5. CASE t.progress + t.credit <= Earned + MaxAdvance
    BY <1>3, <1>4, <2>1, <2>4, <2>5, LocalNumbers
  <2>6. CASE t.progress + t.credit + CreditScale * Leg(t.last, place) <= Earned + 2 * MaxAdvance
    BY <1>3, <1>4, <2>1, <2>4, <2>6, LocalNumbers
  <2> QED BY <2>2, <2>5, <2>6
<1>11. PoseCredited'
  BY <1>1 DEF LocalInv, PoseCredited
<1> QED
  BY <1>8, <1>9, <1>10, <1>11 DEF LocalInv

(* Of the steps that leave the trackers alone.                             *)
LEMMA TrackersKept ==
  ASSUME LocalInv, UNCHANGED <<place, planner, distance, bspline>>,
         controller' = controller \/ controller' = Restarted,
         beat' = beat \/ beat' = None \/ (planner.id # 0 /\ beat' = [id |-> planner.id,
                                                                     arc |-> planner.tracker.progress])
  PROVE  LocalInv'
<1>1. CASE controller' = controller
  <2>1. /\ controller = [id |-> controller.id, at |-> controller.at, posed |-> controller.posed,
                         tracker |-> controller.tracker, beat |-> controller.beat]
        /\ controller.id \in 0..planner.id /\ controller.at \in Places /\ controller.posed \in BOOLEAN
        /\ TracksOne(controller.tracker) /\ IsBeat(controller.beat)
    BY DEF LocalInv, LocalTyped
  <2>2. /\ controller.posed /\ IsActive(controller.tracker) => ~Moved(controller.tracker, controller.at)
        /\ controller.id # 0 /\ controller.id = planner.id /\ IsActive(controller.tracker) =>
             \/ controller.tracker.progress + controller.tracker.credit <= Earned + MaxAdvance
             \/ controller.tracker.progress + controller.tracker.credit
                  + CreditScale * Leg(controller.tracker.last, place) <= Earned + 2 * MaxAdvance
             \/ distance = MaxDistance
    BY DEF LocalInv, ControllerPays, PoseCredited
  <2> QED BY <1>1, <2>1, <2>2, ControllerStep
<1>2. CASE controller' = Restarted
  <2> DEFINE no == FALSE
             c == [id |-> 0, at |-> <<0, 0>>, posed |-> no, tracker |-> Held, beat |-> None]
  <2>1. controller' = c
    BY <1>2 DEF Restarted
  <2> HIDE DEF no
  <2>2. c = [id |-> c.id, at |-> c.at, posed |-> c.posed, tracker |-> c.tracker, beat |-> c.beat]
        /\ c.id = 0 /\ c.at = <<0, 0>> /\ c.posed = no /\ c.tracker = Held /\ c.beat = None
    OBVIOUS
  <2> HIDE DEF c
  <2>3. c.at \in Places /\ IsBeat(c.beat) /\ TracksOne(c.tracker)
    <3>1. <<0, 0>> \in Places /\ IsBeat(None)
      BY DEF Places, IsBeat
    <3> QED BY <2>2, <3>1, HeldStill
  <2>4. c.id \in 0..planner.id
    BY <2>2 DEF LocalInv, LocalTyped
  <2>5. ~c.posed /\ c.posed \in BOOLEAN /\ c.id = 0
    BY <2>2 DEF no
  <2> QED BY <2>1, <2>2, <2>3, <2>4, <2>5, ControllerStep
<1> QED
  BY <1>1, <1>2

LEMMA LocalInvStep == LocalInv /\ [LocalNext]_localVars => LocalInv'
<1> SUFFICES ASSUME LocalInv, [LocalNext]_localVars  PROVE LocalInv'
  OBVIOUS
<1>1. CASE \E points \in Trajectories : Commit(points)
  BY <1>1, CommitStep
<1>2. CASE PlannerPose
  BY <1>2, PlannerPoseStep
<1>3. CASE PublishHeartbeat
  <2>1. planner.id # 0
    BY <1>3 DEF PublishHeartbeat, LocalInv, LocalTyped
  <2> QED BY <1>3, <2>1, TrackersKept DEF PublishHeartbeat
<1>4. CASE TakeBspline
  BY <1>4, TakeBsplineStep
<1>5. CASE TakeHeartbeat
  BY <1>5, TakeHeartbeatStep
<1>6. CASE TakePose
  BY <1>6, TakePoseStep
<1>7. CASE FollowPath
  BY <1>7, FollowPathStep
<1>8. CASE Restart
  BY <1>8, TrackersKept DEF Restart
<1>9. CASE LoseHeartbeat
  BY <1>9, TrackersKept DEF LoseHeartbeat
<1>10. CASE \E at \in Ground : MoveTo(at)
  BY <1>10, MoveStep
<1>11. CASE UNCHANGED localVars
  BY <1>11, TrackersKept DEF localVars
<1> QED
  BY <1>1, <1>2, <1>3, <1>4, <1>5, <1>6, <1>7, <1>8, <1>9, <1>10, <1>11 DEF LocalNext

LEMMA LocalInvHolds == LocalSpec => []LocalInv
  BY LocalInvStart, LocalInvStep, PTL DEF LocalSpec

LEMMA LocalInvSuffices ==
  ASSUME DistanceIsRecorded, LocalInv
  PROVE  LocalProgressIsEarned
<1>1. /\ place \in Places /\ distance \in 0..MaxDistance /\ MaxDistance \in Nat /\ CreditScale \in Nat
      /\ MaxAdvance \in Nat /\ EndRemaining \in Nat /\ InitialCredit \in Nat
      /\ TracksOne(planner.tracker) /\ TracksOne(controller.tracker)
  BY LocalNumbers DEF LocalInv, LocalTyped
<1>2. Earned \in Nat
  <2>1. CreditScale * distance \in Nat
    BY <1>1
  <2> QED BY <1>1, <2>1 DEF Earned
<1>3. ASSUME NEW t, TracksOne(t), IsActive(t), distance = MaxDistance
      PROVE  t.route.total <= Earned + EndRemaining /\ t.route.total <= Earned + 2 * MaxAdvance
  <2>1. IsTracker(t) /\ t # Held
    BY <1>3, ActiveTyped, HeldStill
  <2>2. PICK points \in Trajectories : RouteAccepted(points, FALSE) /\ t.route = RouteOf(points, FALSE)
    BY <1>3, <2>1 DEF TracksOne
  <2>3. t.route.total <= Earned + Lesser(EndRemaining, 2 * MaxAdvance)
    BY <1>3, <2>2 DEF DistanceIsRecorded, Earned
  <2>4. t.route.total \in Nat
    BY <2>1, RouteLength DEF IsTracker, HasCredit
  <2> QED BY <1>1, <1>2, <2>3, <2>4 DEF Lesser
<1>4. ControllerNotAhead
  <2> DEFINE t == controller.tracker
  <2>1. SUFFICES ASSUME controller.id # 0, controller.id = planner.id
                 PROVE  t.progress <= Earned + 2 * MaxAdvance
    BY DEF ControllerNotAhead
  <2>2. CASE ~IsActive(t)
    BY <1>1, <1>2, <2>2, ActiveTyped, HeldStill
  <2>3. CASE IsActive(t)
    <3>1. IsTracker(t) /\ TracksOne(t)
      BY <1>1, <2>3, ActiveTyped
    <3>2. /\ t.progress \in Nat /\ t.credit \in 0..MaxAdvance /\ t.progress <= t.route.total
          /\ CreditScale * Leg(t.last, place) \in Nat /\ t.route.total \in Nat
      BY <1>1, <3>1, PaidTyped, RouteLength DEF IsTracker, HasCredit
    <3>3. \/ t.progress + t.credit <= Earned + MaxAdvance
          \/ t.progress + t.credit + CreditScale * Leg(t.last, place) <= Earned + 2 * MaxAdvance
          \/ distance = MaxDistance
      BY <2>1, <2>3 DEF LocalInv, ControllerPays
    <3> HIDE DEF t
    <3>4. CASE distance = MaxDistance
      BY <1>1, <1>2, <1>3, <2>3, <3>1, <3>2, <3>4
    <3>5. CASE t.progress + t.credit <= Earned + MaxAdvance
      BY <1>1, <1>2, <3>2, <3>5
    <3>6. CASE t.progress + t.credit + CreditScale * Leg(t.last, place) <= Earned + 2 * MaxAdvance
      BY <1>1, <1>2, <3>2, <3>6
    <3> QED BY <3>3, <3>4, <3>5, <3>6
  <2> QED BY <2>2, <2>3
<1>5. CompletionIsEarned
  <2> DEFINE t == planner.tracker
  <2>1. SUFFICES ASSUME planner.id > 0, IsActive(t), t.route.total - t.progress <= EndRemaining
                 PROVE  Earned >= t.route.total - EndRemaining
    BY DEF CompletionIsEarned, TrajectoryComplete
  <2>2. planner.id # 0
    BY <2>1 DEF LocalInv, LocalTyped
  <2>3. t.progress \in Nat /\ (t.progress <= Earned \/ distance = MaxDistance)
    BY <2>2, ProgressPaid
  <2>4. IsTracker(t) /\ TracksOne(t)
    BY <1>1, <2>1, ActiveTyped
  <2>5. t.route.total \in Nat
    BY <2>4, RouteLength DEF IsTracker, HasCredit
  <2> HIDE DEF t
  <2>6. CASE distance = MaxDistance
    BY <1>1, <1>2, <1>3, <2>1, <2>4, <2>5, <2>6
  <2>7. CASE t.progress <= Earned
    BY <1>1, <1>2, <2>1, <2>3, <2>5, <2>7
  <2> QED BY <2>3, <2>6, <2>7
<1> QED
  BY <1>4, <1>5 DEF LocalProgressIsEarned

(* Through stale, lost and early heartbeats, latched trajectories and      *)
(* restarts, the controller's place on the trajectory is at most twice its *)
(* movement credit ahead of the way driven, and a trajectory is taken for  *)
(* driven only when it was (local_trajectory_tracker.h:243-249,            *)
(* closed_loop_controller.cpp:401-431, scan_replan_fsm.cpp:1200-1219).     *)
THEOREM LocalProgressEarned == DistanceIsRecorded /\ LocalSpec => []LocalProgressIsEarned
<1>1. LocalInv /\ DistanceIsRecorded => LocalProgressIsEarned
  BY LocalInvSuffices
<1>2. DistanceIsRecorded => []DistanceIsRecorded
  <2>1. DistanceIsRecorded => DistanceIsRecorded'
    BY DEF DistanceIsRecorded
  <2> QED BY <2>1, PTL
<1> QED
  BY <1>1, <1>2, LocalInvHolds, PTL

-----------------------------------------------------------------------------
(* The route that the state machine pursues.                               *)

(* The fold by which points next to each other are dropped.                *)
KeepApart(kept, p) ==
  IF kept # <<>> /\ Square(p, Last(kept)) < PointSpacing * PointSpacing
  THEN kept ELSE Append(kept, p)

LEMMA SpacedOutTyped ==
  ASSUME NEW points \in Seq(Places), points # <<>>
  PROVE  SpacedOut(points) \in Seq(Places) /\ SpacedOut(points) # <<>>
<1> DEFINE D == DOMAIN points
           Y == Seq(Places)
           Solves(f) == f = [s \in SUBSET D |->
                               IF s = {} THEN <<>> ELSE KeepApart(f[s \ {Max(s)}], points[Max(s)])]
           iter == CHOOSE f : Solves(f)
           ch   == [s \in (SUBSET D) \ {{}} |-> Max(s)]
           step == [z \in D \X Y |-> KeepApart(z[2], points[z[1]])]
           base == <<>>
<1>1. SpacedOut(points) = iter[D]
  BY DEF SpacedOut, FoldLeft, MapThenFoldSet, KeepApart
<1>2. D = 1..Len(points) /\ IsFiniteSet(D) /\ Len(points) \in Nat /\ D # {}
  <2>1. D = 1..Len(points) /\ IsFiniteSet(D) /\ Len(points) \in Nat
    BY FS_Interval
  <2>2. Len(points) # 0
    OBVIOUS
  <2>3. 1 \in 1..Len(points)
    BY <2>1, <2>2
  <2> QED BY <2>1, <2>3
<1>3. ASSUME NEW s \in SUBSET D, s # {}  PROVE Max(s) \in s
  <2>1. s \subseteq 0..Len(points)
    BY <1>2
  <2> QED BY <1>2, <1>3, <2>1, GreatestOf
<1>4. <<>> \in Y
  OBVIOUS
<1>5. ASSUME NEW q \in Y, NEW i \in D
      PROVE  KeepApart(q, points[i]) \in Y /\ KeepApart(q, points[i]) # <<>>
  <2>1. points[i] \in Places
    BY <1>2
  <2>2. Append(q, points[i]) \in Y /\ Append(q, points[i]) # <<>>
    BY <2>1
  <2> QED BY <2>2 DEF KeepApart
<1>6. \E f : Solves(f)
  <2>0. ch \in [(SUBSET D) \ {{}} -> D]
    BY <1>3
  <2>1. \A s \in SUBSET D : s # {} => ch[s] \in s
    BY <1>3
  <2>2. step \in [D \X Y -> Y]
    BY <1>5
  <2>3. IsFiniteSet(D) /\ base \in Y
    BY <1>2, <1>4
  <2> HIDE DEF D, Y, ch, step, base
  <2>4. PICK f \in [SUBSET D -> Y] : Recurses(f, D, base, ch, step)
    BY <2>0, <2>1, <2>2, <2>3, SubsetRecursion
  <2>5. \A s \in SUBSET D : f[s] = IF s = {} THEN base ELSE step[<<ch[s], f[s \ {ch[s]}]>>]
    BY <2>4 DEF Recurses
  <2>6. ASSUME NEW s \in SUBSET D, s # {}
        PROVE  f[s] = KeepApart(f[s \ {Max(s)}], points[Max(s)])
    <3>1. ch[s] = Max(s) /\ Max(s) \in D
      BY <1>3, <2>6 DEF ch
    <3>2. f[s \ {Max(s)}] \in Y
      OBVIOUS
    <3>3. step[<<Max(s), f[s \ {Max(s)}]>>] = KeepApart(f[s \ {Max(s)}], points[Max(s)])
      BY <3>1, <3>2 DEF step
    <3> QED BY <2>5, <2>6, <3>1, <3>3
  <2>7. \A s \in SUBSET D :
          f[s] = IF s = {} THEN <<>> ELSE KeepApart(f[s \ {Max(s)}], points[Max(s)])
    BY <2>5, <2>6 DEF base
  <2>8. Solves(f)
    BY <2>7
  <2> QED BY <2>8
<1>7. Solves(iter)
  <2> HIDE DEF Solves
  <2> QED BY <1>6
<1> HIDE DEF iter
<1> DEFINE G == {s \in SUBSET D : iter[s] \in Y}
<1>8. {} \in G
  BY <1>4, <1>7
<1>9. ASSUME NEW s \in SUBSET D, s # {}  PROVE \E x \in s : s \ {x} \in G => s \in G
  <2>1. Max(s) \in s
    BY <1>3, <1>9
  <2>2. iter[s] = KeepApart(iter[s \ {Max(s)}], points[Max(s)])
    BY <1>7, <1>9
  <2>3. s \ {Max(s)} \in G => s \in G
    BY <1>5, <2>1, <2>2
  <2> QED BY <2>1, <2>3
<1>10. \A s \in SUBSET D : s \in G
  <2>1. IsFiniteSet(D)
    BY <1>2
  <2>2. \A s \in SUBSET D : s # {} => \E x \in s : s \ {x} \in G => s \in G
    BY <1>9
  <2> HIDE DEF G, D
  <2> QED BY <1>8, <2>1, <2>2, SetInduction
<1>11. iter[D] = KeepApart(iter[D \ {Max(D)}], points[Max(D)])
  BY <1>2, <1>7
<1>12. iter[D \ {Max(D)}] \in Y /\ Max(D) \in D
  <2>1. D \ {Max(D)} \in G
    BY <1>10
  <2> QED BY <1>2, <1>3, <2>1
<1> QED
  BY <1>1, <1>5, <1>11, <1>12

LEMMA WaypointsTyped ==
  ASSUME NEW points \in Seq(Places), points # <<>>, NEW at \in Places
  PROVE  Waypoints(points, at) \in Seq(Places)
<1> DEFINE s == SpacedOut(points)
           far(k) == Square(s[k], at) >= PointSpacing * PointSpacing
           T == {k \in 1..Len(s) : k = Len(s) \/ far(k)}
<1>1. s \in Seq(Places) /\ Len(s) \in Nat /\ Len(s) >= 1
  <2>1. s \in Seq(Places) /\ s # <<>>
    BY SpacedOutTyped
  <2> HIDE DEF s
  <2> QED BY <2>1
<1> HIDE DEF s
<1>2. \A k \in 1..Len(s) : Square(s[k], at) \in Nat /\ PointSpacing \in Nat
  <2>1. \A k \in 1..Len(s) : s[k] \in Places
    BY <1>1
  <2> QED BY <2>1, LegTyped, PursuitAssumption
<1>3. T \subseteq Nat /\ T # {}
  <2>1. Len(s) \in T
    BY <1>1
  <2> QED BY <1>1, <2>1
<1>4. PICK k \in T : \A j \in T : k <= j
  <2> HIDE DEF T
  <2> QED BY <1>3, LeastOf
<1>5. \A j \in 1..k - 1 : Square(s[j], at) < PointSpacing * PointSpacing
  <2>1. SUFFICES ASSUME NEW j \in 1..k - 1  PROVE Square(s[j], at) < PointSpacing * PointSpacing
    OBVIOUS
  <2>2. j \in 1..Len(s) /\ ~(k <= j)
    BY <1>1, <1>4
  <2>3. j \notin T
    <3>1. \A i \in T : k <= i
      BY <1>4
    <3> HIDE DEF T
    <3> QED BY <2>2, <3>1
  <2>4. ~(Square(s[j], at) >= PointSpacing * PointSpacing)
    BY <2>2, <2>3
  <2>5. Square(s[j], at) \in Nat /\ PointSpacing \in Nat
    BY <1>2, <2>2
  <2>6. PointSpacing * PointSpacing \in Nat
    BY <2>5
  <2> HIDE DEF T
  <2> QED BY <2>4, <2>5, <2>6
<1> DEFINE m == CHOOSE i \in 1..Len(s) : /\ i = Len(s) \/ Square(s[i], at) >= PointSpacing * PointSpacing
                                         /\ \A j \in 1..i - 1 : Square(s[j], at) < PointSpacing * PointSpacing
<1>6. m \in 1..Len(s)
  <2>1. k \in 1..Len(s) /\ (k = Len(s) \/ Square(s[k], at) >= PointSpacing * PointSpacing)
    BY <1>4
  <2> HIDE DEF T
  <2> QED BY <1>5, <2>1
<1>7. Waypoints(points, at) = SubSeq(s, m, Len(s))
  BY DEF Waypoints, s
<1> HIDE DEF m
<1> QED
  BY <1>1, <1>6, <1>7

(* A route that is accepted is one from where the robot is.                *)
LEMMA PreparedTyped ==
  ASSUME NEW points \in RouteMessages, NEW at \in Field, Accepts(points, at)
  PROVE  IsRoute(Prepared[<<points, at>>]) /\ ~Prepared[<<points, at>>].closed
<1> DEFINE wps  == Waypoints(points, at)
           line == <<at>> \o wps
           r    == Prepare(points, at)
<1>1. points \in Seq(Places) /\ points # <<>> /\ at \in Places /\ MinLength > 0
  BY PursuitAssumption DEF Places
<1>2. Prepared[<<points, at>>] = r
  BY DEF Prepared
<1>3. wps \in Seq(Places)
  BY <1>1, WaypointsTyped
<1> HIDE DEF wps
<1>4. line \in Seq(Places)
  <2>1. <<at>> \in Seq(Places)
    BY <1>1
  <2> QED BY <1>3, <2>1
<1> HIDE DEF line
<1>5. (r = RouteOf(line, FALSE) /\ RouteAccepted(line, FALSE)) \/ r = NoRoute
  BY DEF Prepare, line, wps
<1>6. r # NoRoute
  <2>1. r.total >= MinLength
    BY <1>2 DEF Accepts
  <2>2. NoRoute.total = 0 /\ MinLength \in Nat \ {0}
    BY PursuitAssumption DEF NoRoute
  <2> HIDE DEF r
  <2> QED BY <2>1, <2>2
<1> HIDE DEF r
<1> QED
  BY <1>2, <1>4, <1>5, <1>6, RouteTyped

(* The recorded way is of use up to its bound only, which every route that *)
(* is accepted takes the robot to.                                         *)
WayIsRecorded ==
  \A points \in RouteMessages, at \in Field :
    Accepts(points, at) =>
      Prepared[<<points, at>>].total <= InitialCredit + CreditScale * MaxWay + FinishRemaining

Paced == InitialCredit + CreditScale * way

PursuitTyped ==
  /\ body \in Field /\ way \in 0..MaxWay
  /\ \/ pursuit = NotPursuing
     \/ /\ IsTracker(pursuit) /\ {"phase", "departed"} \subseteq DOMAIN pursuit
        /\ pursuit.phase \in {"active", "finished"}
        /\ \E points \in RouteMessages, at \in Field :
             Accepts(points, at) /\ pursuit.route = Prepared[<<points, at>>]

(* The progress and the credit are paid for by the way since the route was *)
(* taken over, the one to the last credited pose off; a finished route is. *)
PursuitPays ==
  /\ pursuit.phase = "active" =>
       \/ pursuit.progress + pursuit.credit + CreditScale * Leg(pursuit.last, body) <= Paced
       \/ way = MaxWay
  /\ pursuit.phase = "finished" =>
       \/ pursuit.route.total - FinishRemaining <= Paced
       \/ way = MaxWay

PursuitInv == PursuitTyped /\ PursuitPays

(* Progress and credit with the way to the last credited pose: a pose adds *)
(* at most what the way to it pays for.                                    *)
LEMMA CreditKept ==
  ASSUME NEW t, NEW from \in Places, NEW at \in Places, NEW e \in Int,
         HasCredit(t), t.progress \in Int,
         t.progress + t.credit + CreditScale * Leg(t.last, from) <= e
  PROVE  LET c == Credited(t, at)
         IN  t.progress + c.credit + CreditScale * Leg(c.last, at) <= e + CreditScale * Leg(from, at)
<1> DEFINE c == Credited(t, at)
<1>1. t.last \in Places /\ t.credit \in Nat /\ CreditScale \in Nat
  BY RouteAssumption DEF HasCredit
<1>2. /\ Leg(t.last, at) \in Nat /\ Leg(t.last, from) \in Nat /\ Leg(from, at) \in Nat
      /\ Leg(t.last, at) <= Leg(t.last, from) + Leg(from, at) /\ Leg(at, at) = 0
  BY <1>1, LegTyped, LegTriangle
<1>3. CreditScale * Leg(t.last, at) <= CreditScale * Leg(t.last, from) + CreditScale * Leg(from, at)
  <2>1. CreditScale * Leg(t.last, at) <= CreditScale * (Leg(t.last, from) + Leg(from, at))
    BY <1>1, <1>2
  <2>2. CreditScale * (Leg(t.last, from) + Leg(from, at))
          = CreditScale * Leg(t.last, from) + CreditScale * Leg(from, at)
    BY <1>1, <1>2
  <2> QED BY <2>1, <2>2
<1>4. /\ CreditScale * Leg(t.last, at) \in Nat /\ CreditScale * Leg(t.last, from) \in Nat
      /\ CreditScale * Leg(from, at) \in Nat
  BY <1>1, <1>2
<1>5. /\ HasCredit(c)
      /\ IF Moved(t, at)
         THEN c.last = at /\ c.credit <= t.credit + CreditScale * Leg(t.last, at)
         ELSE c = t
  BY CreditedPays
<1>6. c.credit \in Nat
  BY <1>5, RouteAssumption DEF HasCredit
<1> HIDE DEF c
<1>7. CASE Moved(t, at)
  <2>1. CreditScale * Leg(c.last, at) = 0
    BY <1>1, <1>2, <1>5, <1>7
  <2>2. c.credit <= t.credit + CreditScale * Leg(t.last, at)
    BY <1>5, <1>7
  <2>3. t.progress + c.credit <= e + CreditScale * Leg(from, at)
    BY <1>1, <1>3, <1>4, <1>6, <2>2
  <2> QED BY <1>4, <1>6, <2>1, <2>3 DEF c
<1>8. CASE ~Moved(t, at)
  <2>1. c = t
    BY <1>5, <1>8
  <2>2. t.progress + t.credit + CreditScale * Leg(t.last, at) <= e + CreditScale * Leg(from, at)
    BY <1>1, <1>3, <1>4
  <2> QED BY <2>1, <2>2 DEF c
<1> QED
  BY <1>7, <1>8

LEMMA TrackedPays ==
  ASSUME NEW t, NEW from \in Places, NEW at \in Places, NEW e \in Int,
         IsTracker(t), {"phase", "departed"} \subseteq DOMAIN t
  PROVE  LET u == Tracked(t, at)
         IN  /\ IsTracker(u) /\ u.route = t.route /\ u.phase = t.phase /\ DOMAIN u = DOMAIN t
             /\ t.progress + t.credit + CreditScale * Leg(t.last, from) <= e =>
                  u.progress + u.credit + CreditScale * Leg(u.last, at) <= e + CreditScale * Leg(from, at)
<1> DEFINE a == Projected(t, at)
           d == a.departed \/ Departs(a, at)
           u == [a EXCEPT !.departed = d]
<1>1. Tracked(t, at) = u
  BY DEF Tracked
<1>2. /\ IsTracker(a) /\ a.route = t.route
      /\ DOMAIN a = DOMAIN t /\ \A x \in DOMAIN t \ TrackerFields : a[x] = t[x]
      /\ a.progress + a.credit = t.progress + Credited(t, at).credit
      /\ a.last = Credited(t, at).last
  BY ProjectedPays
<1> HIDE DEF a, d
<1>3. a.phase = t.phase
  BY <1>2 DEF TrackerFields
<1>4. /\ u.route = a.route /\ u.last = a.last /\ u.progress = a.progress /\ u.credit = a.credit
      /\ u.phase = a.phase /\ DOMAIN u = DOMAIN a
  <2>1. TrackerFields \cup {"phase", "departed"} \subseteq DOMAIN a
    BY <1>2 DEF IsTracker, HasCredit
  <2> QED BY <2>1 DEF TrackerFields
<1> HIDE DEF u
<1>5. IsTracker(u)
  BY <1>2, <1>4 DEF IsTracker, HasCredit
<1>6. ASSUME t.progress + t.credit + CreditScale * Leg(t.last, from) <= e
      PROVE  u.progress + u.credit + CreditScale * Leg(u.last, at) <= e + CreditScale * Leg(from, at)
  <2>1. HasCredit(t) /\ t.progress \in Int
    BY RouteLength DEF IsTracker
  <2>2. t.progress + Credited(t, at).credit + CreditScale * Leg(Credited(t, at).last, at)
          <= e + CreditScale * Leg(from, at)
    BY <1>6, <2>1, CreditKept
  <2> QED BY <1>2, <1>4, <2>2
<1> QED
  BY <1>1, <1>2, <1>3, <1>4, <1>5, <1>6 DEF u

LEMMA PursuitNumbers ==
  /\ MaxAdvance \in Nat \ {0} /\ CreditScale \in Nat \ {0} /\ InitialCredit \in 0..MaxAdvance
  /\ FinishRemaining \in Nat /\ MaxWay \in Nat /\ Field \subseteq Places
  BY RouteAssumption, PursuitAssumption DEF Places

LEMMA PursuitInvStart == PursuitInit => PursuitInv
<1> SUFFICES ASSUME PursuitInit  PROVE PursuitInv
  OBVIOUS
<1>1. pursuit = NotPursuing /\ pursuit.phase = "none" /\ way = 0 /\ body \in Field
  BY DEF PursuitInit, NotPursuing
<1> QED
  BY <1>1, PursuitNumbers DEF PursuitInv, PursuitTyped, PursuitPays

LEMMA TakeRouteStep ==
  ASSUME PursuitInv, NEW points \in RouteMessages, TakeRoute(points)
  PROVE  PursuitInv'
<1>1. /\ body' = body /\ way' = 0 /\ body \in Field
      /\ pursuit' = NotPursuing \/ (Accepts(points, body) /\ pursuit' = Pursued(points, body))
  BY DEF TakeRoute, PursuitInv, PursuitTyped
<1>2. 0 \in 0..MaxWay
  BY PursuitNumbers
<1>3. CASE pursuit' = NotPursuing
  <2>1. pursuit'.phase = "none"
    BY <1>3 DEF NotPursuing
  <2> QED BY <1>1, <1>2, <1>3, <2>1 DEF PursuitInv, PursuitTyped, PursuitPays
<1>4. CASE Accepts(points, body) /\ pursuit' = Pursued(points, body)
  <2> DEFINE c == IsClosed(points)
             n == ~IsClosed(points)
             r == Prepared[<<points, body>>]
             t == [phase |-> "active", closed |-> c, departed |-> n,
                   route |-> r, last |-> body, progress |-> 0, credit |-> InitialCredit]
  <2>1. pursuit' = t
    BY <1>4 DEF Pursued
  <2>2. IsRoute(r) /\ ~r.closed
    BY <1>1, <1>4, PreparedTyped
  <2> HIDE DEF c, n, r
  <2>3. /\ TrackerFields \subseteq DOMAIN t /\ {"phase", "departed"} \subseteq DOMAIN t
        /\ t.route = r /\ t.last = body /\ t.progress = 0 /\ t.credit = InitialCredit
        /\ t.phase = "active"
    BY DEF TrackerFields
  <2> HIDE DEF t
  <2>4. body \in Places /\ Leg(body, body) = 0
    BY <1>1, PursuitNumbers, LegTyped
  <2>5. 0 \in 0..r.total
    BY <2>2, RouteLength
  <2>6. IsTracker(t)
    BY <2>2, <2>3, <2>4, <2>5, PursuitNumbers DEF IsTracker, HasCredit
  <2>7. t.progress + t.credit + CreditScale * Leg(t.last, body) <= InitialCredit + CreditScale * 0
    BY <2>3, <2>4, PursuitNumbers
  <2>8. PursuitTyped'
    BY <1>1, <1>2, <1>4, <2>1, <2>3, <2>6 DEF PursuitTyped, r
  <2>9. PursuitPays'
    BY <1>1, <2>1, <2>3, <2>7 DEF PursuitPays, Paced
  <2> QED BY <2>8, <2>9 DEF PursuitInv
<1> QED
  BY <1>1, <1>3, <1>4

LEMMA ArriveStep ==
  ASSUME PursuitInv, NEW at \in Field, Arrive(at)
  PROVE  PursuitInv'
<1>1. /\ body' = at /\ way' = Lesser(MaxWay, way + Leg(body, at))
      /\ pursuit' = IF pursuit.phase = "active" THEN Tracked(pursuit, at) ELSE pursuit
  BY DEF Arrive
<1>2. /\ body \in Places /\ at \in Places /\ way \in 0..MaxWay /\ MaxWay \in Nat
      /\ Leg(body, at) \in Nat /\ CreditScale \in Nat /\ InitialCredit \in Nat /\ FinishRemaining \in Nat
  BY PursuitNumbers, LegTyped DEF PursuitInv, PursuitTyped
<1>3. /\ way' \in 0..MaxWay /\ (way' = MaxWay \/ way' = way + Leg(body, at))
      /\ (way = MaxWay => way' = MaxWay)
  BY <1>1, <1>2 DEF Lesser
<1>4. Paced \in Int /\ Paced' \in Int
  BY <1>2, <1>3 DEF Paced
<1>5. way' # MaxWay => Paced' = Paced + CreditScale * Leg(body, at) /\ way # MaxWay
  <2>1. CreditScale * (way + Leg(body, at)) = CreditScale * way + CreditScale * Leg(body, at)
    BY <1>2
  <2>2. CreditScale * way \in Int /\ CreditScale * Leg(body, at) \in Int
    BY <1>2
  <2> QED BY <1>2, <1>3, <2>1, <2>2 DEF Paced
<1>6. CreditScale * Leg(body, at) \in Nat
  BY <1>2
<1>7. CASE pursuit.phase = "active"
  <2> DEFINE u == Tracked(pursuit, at)
  <2>1. pursuit # NotPursuing
    BY <1>7 DEF NotPursuing
  <2>2. /\ IsTracker(pursuit) /\ {"phase", "departed"} \subseteq DOMAIN pursuit
        /\ \E points \in RouteMessages, x \in Field :
             Accepts(points, x) /\ pursuit.route = Prepared[<<points, x>>]
    BY <2>1 DEF PursuitInv, PursuitTyped
  <2>3. /\ IsTracker(u) /\ u.route = pursuit.route /\ u.phase = pursuit.phase
        /\ DOMAIN u = DOMAIN pursuit
        /\ pursuit.progress + pursuit.credit + CreditScale * Leg(pursuit.last, body) <= Paced =>
             u.progress + u.credit + CreditScale * Leg(u.last, at) <= Paced + CreditScale * Leg(body, at)
    BY <1>2, <1>4, <2>2, TrackedPays
  <2>4. pursuit' = u
    BY <1>1, <1>7
  <2> HIDE DEF u
  <2>5. PursuitTyped'
    BY <1>1, <1>3, <1>7, <2>2, <2>3, <2>4 DEF PursuitTyped
  <2>6. PursuitPays'
    <3>1. SUFFICES ASSUME way' # MaxWay
                   PROVE  u.progress + u.credit + CreditScale * Leg(u.last, at) <= Paced'
      BY <1>1, <1>7, <2>3, <2>4 DEF PursuitPays
    <3>2. pursuit.progress + pursuit.credit + CreditScale * Leg(pursuit.last, body) <= Paced
      BY <1>5, <1>7, <3>1 DEF PursuitInv, PursuitPays
    <3> QED BY <1>5, <2>3, <3>1, <3>2
  <2> QED BY <2>5, <2>6 DEF PursuitInv
<1>8. CASE pursuit.phase # "active"
  <2>1. pursuit' = pursuit
    BY <1>1, <1>8
  <2>2. PursuitTyped'
    BY <1>1, <1>3, <2>1 DEF PursuitInv, PursuitTyped
  <2>3. PursuitPays'
    <3>1. SUFFICES ASSUME pursuit.phase = "finished", way' # MaxWay
                   PROVE  pursuit.route.total - FinishRemaining <= Paced'
      BY <1>8, <2>1 DEF PursuitPays
    <3>2. pursuit.route.total - FinishRemaining <= Paced
      BY <1>5, <3>1 DEF PursuitInv, PursuitPays
    <3>3. pursuit.route.total \in Nat
      <4>1. pursuit # NotPursuing
        BY <3>1 DEF NotPursuing
      <4> QED BY <4>1, RouteLength DEF PursuitInv, PursuitTyped, IsTracker
    <3> QED BY <1>2, <1>4, <1>5, <1>6, <3>1, <3>2, <3>3
  <2> QED BY <2>2, <2>3 DEF PursuitInv
<1> QED
  BY <1>7, <1>8

(* Of the steps in which the robot stays where it is.                      *)
LEMMA TrackedHere ==
  ASSUME PursuitInv, pursuit.phase = "active"
  PROVE  LET u == Tracked(pursuit, body)
         IN  /\ IsTracker(u) /\ u.route = pursuit.route /\ u.phase = "active"
             /\ {"phase", "departed"} \subseteq DOMAIN u
             /\ \E points \in RouteMessages, at \in Field :
                  Accepts(points, at) /\ u.route = Prepared[<<points, at>>]
             /\ \/ u.progress + u.credit + CreditScale * Leg(u.last, body) <= Paced
                \/ way = MaxWay
<1> DEFINE u == Tracked(pursuit, body)
<1>1. pursuit # NotPursuing
  BY DEF NotPursuing
<1>2. /\ IsTracker(pursuit) /\ {"phase", "departed"} \subseteq DOMAIN pursuit
      /\ \E points \in RouteMessages, x \in Field :
           Accepts(points, x) /\ pursuit.route = Prepared[<<points, x>>]
      /\ body \in Places /\ way \in Nat
  BY <1>1, PursuitNumbers DEF PursuitInv, PursuitTyped
<1>3. Paced \in Int /\ CreditScale * Leg(body, body) = 0
  <2>1. Leg(body, body) = 0
    BY <1>2, LegTyped
  <2> QED BY <1>2, <2>1, PursuitNumbers DEF Paced
<1>4. /\ IsTracker(u) /\ u.route = pursuit.route /\ u.phase = pursuit.phase
      /\ DOMAIN u = DOMAIN pursuit
      /\ pursuit.progress + pursuit.credit + CreditScale * Leg(pursuit.last, body) <= Paced =>
           u.progress + u.credit + CreditScale * Leg(u.last, body) <= Paced + CreditScale * Leg(body, body)
  BY <1>2, <1>3, TrackedPays
<1>5. \/ pursuit.progress + pursuit.credit + CreditScale * Leg(pursuit.last, body) <= Paced
      \/ way = MaxWay
  BY DEF PursuitInv, PursuitPays
<1> HIDE DEF u
<1>6. Paced + CreditScale * Leg(body, body) = Paced
  BY <1>3
<1> QED
  BY <1>2, <1>4, <1>5, <1>6 DEF u

LEMMA CheckFinishStep == PursuitInv /\ CheckFinish => PursuitInv'
<1> SUFFICES ASSUME PursuitInv, CheckFinish  PROVE PursuitInv'
  OBVIOUS
<1> DEFINE t == Tracked(pursuit, body)
           p == IF RouteDone(t) THEN "finished" ELSE t.phase
           u == [t EXCEPT !.phase = p]
<1>1. /\ pursuit.phase = "active" /\ pursuit' = u /\ body' = body /\ way' = way
      /\ body \in Field /\ way \in 0..MaxWay
  BY DEF CheckFinish, PursuitInv, PursuitTyped
<1>2. /\ IsTracker(t) /\ t.route = pursuit.route /\ t.phase = "active"
      /\ {"phase", "departed"} \subseteq DOMAIN t
      /\ \E points \in RouteMessages, at \in Field :
           Accepts(points, at) /\ t.route = Prepared[<<points, at>>]
      /\ \/ t.progress + t.credit + CreditScale * Leg(t.last, body) <= Paced
         \/ way = MaxWay
  BY <1>1, TrackedHere
<1>3. p = "active" \/ (p = "finished" /\ Remaining(t) <= FinishRemaining)
  BY <1>2 DEF RouteDone
<1> HIDE DEF p, t
<1>4. /\ u.route = t.route /\ u.last = t.last /\ u.progress = t.progress /\ u.credit = t.credit
      /\ u.phase = p /\ DOMAIN u = DOMAIN t
  <2>1. TrackerFields \cup {"phase", "departed"} \subseteq DOMAIN t
    BY <1>2 DEF IsTracker, HasCredit
  <2> QED BY <2>1 DEF TrackerFields
<1> HIDE DEF u
<1>5. IsTracker(u)
  BY <1>2, <1>4 DEF IsTracker, HasCredit
<1>6. PursuitTyped'
  BY <1>1, <1>2, <1>3, <1>4, <1>5 DEF PursuitTyped
<1>7. Paced' = Paced
  BY <1>1 DEF Paced
<1>8. PursuitPays'
  <2>1. CASE p = "active"
    BY <1>1, <1>2, <1>4, <1>7, <2>1 DEF PursuitPays
  <2>2. CASE p = "finished" /\ t.route.total - t.progress <= FinishRemaining
    <3>1. SUFFICES ASSUME way # MaxWay  PROVE t.route.total - FinishRemaining <= Paced
      BY <1>1, <1>4, <1>7, <2>2 DEF PursuitPays
    <3>2. /\ t.progress \in Nat /\ t.credit \in 0..MaxAdvance /\ CreditScale * Leg(t.last, body) \in Nat
          /\ t.route.total \in Nat /\ Paced \in Int /\ FinishRemaining \in Nat /\ MaxAdvance \in Nat
      <4>1. body \in Places /\ way \in Nat
        BY <1>1, PursuitNumbers
      <4> QED BY <1>2, <4>1, PaidTyped, RouteLength, PursuitNumbers DEF IsTracker, Paced
    <3>3. t.progress + t.credit + CreditScale * Leg(t.last, body) <= Paced
      BY <1>2, <3>1
    <3> QED BY <2>2, <3>2, <3>3
  <2> QED BY <1>3, <2>1, <2>2 DEF Remaining
<1> QED
  BY <1>6, <1>8 DEF PursuitInv

LEMMA PursuitInvStep == PursuitInv /\ [PursuitNext]_pursuitVars => PursuitInv'
<1> SUFFICES ASSUME PursuitInv, [PursuitNext]_pursuitVars  PROVE PursuitInv'
  OBVIOUS
<1>1. CASE \E points \in RouteMessages : TakeRoute(points)
  BY <1>1, TakeRouteStep
<1>2. CASE RoamTo
  BY <1>2, ArriveStep DEF RoamTo
<1>3. CASE Obey
  BY <1>3, ArriveStep DEF Obey
<1>4. CASE SelectTarget
  <2> DEFINE u == Tracked(pursuit, body)
  <2>1. pursuit.phase = "active" /\ pursuit' = u /\ body' = body /\ way' = way
    BY <1>4 DEF SelectTarget
  <2>2. /\ IsTracker(u) /\ u.route = pursuit.route /\ u.phase = "active"
        /\ {"phase", "departed"} \subseteq DOMAIN u
        /\ \E points \in RouteMessages, at \in Field :
             Accepts(points, at) /\ u.route = Prepared[<<points, at>>]
        /\ \/ u.progress + u.credit + CreditScale * Leg(u.last, body) <= Paced
           \/ way = MaxWay
    BY <2>1, TrackedHere
  <2> HIDE DEF u
  <2>3. PursuitTyped'
    BY <2>1, <2>2 DEF PursuitInv, PursuitTyped
  <2>4. PursuitPays'
    BY <2>1, <2>2 DEF PursuitPays, Paced
  <2> QED BY <2>3, <2>4 DEF PursuitInv
<1>5. CASE CheckFinish
  BY <1>5, CheckFinishStep
<1>6. CASE UNCHANGED pursuitVars
  BY <1>6 DEF pursuitVars, PursuitInv, PursuitTyped, PursuitPays, Paced
<1> QED
  BY <1>1, <1>2, <1>3, <1>4, <1>5, <1>6 DEF PursuitNext

LEMMA PursuitInvSuffices ==
  ASSUME WayIsRecorded, PursuitInv
  PROVE  FinishIsEarned
<1>1. SUFFICES ASSUME pursuit.phase = "finished"
               PROVE  InitialCredit + CreditScale * way >= pursuit.route.total - FinishRemaining
  BY DEF FinishIsEarned
<1>2. pursuit # NotPursuing
  BY <1>1 DEF NotPursuing
<1>3. /\ IsTracker(pursuit) /\ way \in Nat
      /\ \E points \in RouteMessages, at \in Field :
           Accepts(points, at) /\ pursuit.route = Prepared[<<points, at>>]
  BY <1>2, PursuitNumbers DEF PursuitInv, PursuitTyped
<1>4. pursuit.route.total \in Nat /\ Paced \in Int /\ FinishRemaining \in Nat
  BY <1>3, RouteLength, PursuitNumbers DEF IsTracker, Paced
<1>5. CASE pursuit.route.total - FinishRemaining <= Paced
  BY <1>4, <1>5 DEF Paced
<1>6. CASE way = MaxWay
  <2>1. pursuit.route.total <= InitialCredit + CreditScale * MaxWay + FinishRemaining
    BY <1>3 DEF WayIsRecorded
  <2>2. pursuit.route.total <= Paced + FinishRemaining
    BY <1>6, <2>1 DEF Paced
  <2> QED BY <1>4, <2>2 DEF Paced
<1> QED
  BY <1>1, <1>5, <1>6 DEF PursuitInv, PursuitPays

(* A route is only finished after it was driven, however the robot stands, *)
(* jitters or strays, and whatever routes it is given in between           *)
(* (scan_replan_fsm.cpp:623-656).                                          *)
THEOREM FinishEarned == WayIsRecorded /\ PursuitSpec => []FinishIsEarned
<1>1. PursuitInv /\ WayIsRecorded => FinishIsEarned
  BY PursuitInvSuffices
<1>2. WayIsRecorded => []WayIsRecorded
  <2>1. WayIsRecorded => WayIsRecorded'
    BY DEF WayIsRecorded
  <2> QED BY <2>1, PTL
<1> QED
  BY <1>1, <1>2, PursuitInvStart, PursuitInvStep, PTL DEF PursuitSpec

-----------------------------------------------------------------------------
(* The mission of a robot that follows its route or wanders about.         *)

(* The recorded way is of use up to its bound only, which every mission    *)
(* that is accepted takes the robot to.                                    *)
MissionIsRecorded ==
  \A r \in TrackableRoutes : MissionLength(r) <= InitialCredit + CreditScale * MaxDriven

Driven == InitialCredit + CreditScale * driven

MissionTyped ==
  /\ robot \in Places /\ followed \in Int /\ driven \in 0..MaxDriven
  /\ HasCredit(mission) /\ {"completed", "verdict"} \subseteq DOMAIN mission
  /\ mission.route \in TrackableRoutes
  /\ mission.progress \in 0..MissionLength(mission.route)

(* Progress and credit are paid for by the way driven, the one to the last *)
(* credited pose off.                                                      *)
MissionPays ==
  \/ mission.progress + mission.credit + CreditScale * Leg(mission.last, robot) <= Driven
  \/ driven = MaxDriven

(* A mission is completed at its end and nowhere else.                     *)
Ends(m) == m.completed = (m.progress = MissionLength(m.route))

MissionInv == MissionTyped /\ MissionPays /\ Ends(mission)

LEMMA MissionNumbers ==
  /\ MaxAdvance \in Nat \ {0} /\ CreditScale \in Nat \ {0} /\ InitialCredit \in 0..MaxAdvance
  /\ SearchAhead \in Nat /\ SearchBehind \in Nat /\ MaxDriven \in Nat
  /\ MaxLateral \in Nat /\ Laps \in Nat \ {0} /\ Yard \subseteq Places
  BY RouteAssumption, RouteProgressAssumption DEF Places

LEMMA TrackableTyped ==
  ASSUME NEW r \in TrackableRoutes
  PROVE  IsRoute(r) /\ r.total \in Nat \ {0} /\ MissionLength(r) \in Nat \ {0}
<1>1. PICK m \in MissionRoutes : RouteAccepted(m.points, m.closed) /\ r = RouteOf(m.points, m.closed)
  BY DEF TrackableRoutes
<1>2. m.points \in Seq(Places) /\ m.closed \in BOOLEAN
  BY RouteProgressAssumption DEF Places
<1>3. IsRoute(r)
  BY <1>1, <1>2, RouteTyped
<1>4. r.total \in Nat \ {0}
  BY <1>3, RouteLength
<1> QED
  BY <1>3, <1>4, MissionNumbers DEF MissionLength

LEMMA SearchTyped ==
  ASSUME NEW m, m.route \in TrackableRoutes, m.progress \in Int
  PROVE  SearchStart(m) \in Int /\ SearchEnd(m) \in Int
<1>1. m.route.total \in Nat /\ MissionLength(m.route) \in Nat
  BY TrackableTyped
<1> QED
  BY <1>1, MissionNumbers DEF SearchStart, SearchEnd, Lesser, Greater

LEMMA CandidateTyped ==
  ASSUME NEW m, m.route \in TrackableRoutes, m.progress \in Int, robot' \in Places,
         NEW x \in Stretches(m), NEW toward, NEW level
  PROVE  /\ Candidate(m, x, toward, level).s \in Int
         /\ Candidate(m, x, toward, level).s >= SearchStart(m)
         /\ Candidate(m, x, toward, level).lateral \in Nat
<1> DEFINE s == Nearest(m.route, x.from, x.to, robot')
<1>1. /\ IsRoute(m.route) /\ m.route.total \in Nat \ {0}
      /\ SearchStart(m) \in Int /\ SearchEnd(m) \in Int
  BY TrackableTyped, SearchTyped
<1>2. PICK lap \in LapsSeen(m), i \in Segments(m.route) : x = Stretch(m, lap, i)
  BY DEF Stretches
<1>3. lap \in Int
  BY <1>1 DEF LapsSeen
<1>4. m.route.cum[i] \in Int /\ SegmentEnd(m.route, i) \in Int
  BY <1>1, RouteLength
<1>5. /\ x.from = Greater(SearchStart(m), lap * m.route.total + m.route.cum[i])
      /\ x.to = Lesser(SearchEnd(m), lap * m.route.total + SegmentEnd(m.route, i))
  BY <1>2 DEF Stretch
<1>6. x.from \in Int /\ x.to \in Int /\ x.from >= SearchStart(m) /\ x.from <= x.to
  <2>1. lap * m.route.total \in Int
    BY <1>1, <1>3
  <2>2. x.from <= x.to
    BY DEF Stretches
  <2> QED BY <1>1, <1>4, <1>5, <2>1, <2>2 DEF Greater, Lesser
<1>7. s \in x.from..x.to
  BY <1>1, <1>6, NearestWithin
<1> HIDE DEF s
<1>8. s \in Int /\ s >= SearchStart(m)
  BY <1>1, <1>6, <1>7
<1>9. PointAt(m.route, s) \in Places
  BY <1>1, <1>8, PointTyped
<1>10. Square(PointAt(m.route, s), robot') \in Nat
  BY <1>9, LegTyped
<1> QED
  BY <1>8, <1>10 DEF Candidate, s

LEMMA BestFound ==
  ASSUME NEW m, m.progress \in Int, NEW low \in Int, NEW C, C # {},
         \A c \in C : c.s \in Int /\ c.s >= low /\ c.lateral \in Nat
  PROVE  Best(m, C) \in C
<1> DEFINE w == Greater(SearchAhead, SearchBehind)
           F == {Score(m, c) : c \in C}
<1>1. w \in Nat /\ MaxLateral \in Nat
  BY MissionNumbers DEF Greater
<1>2. ASSUME NEW c \in C  PROVE Score(m, c) \in Nat
  <2>1. Score(m, c) = 100 * c.lateral * w * w + (c.s - m.progress) * (c.s - m.progress) * MaxLateral * MaxLateral
    BY DEF Score
  <2>2. c.lateral \in Nat /\ c.s - m.progress \in Int
    OBVIOUS
  <2> HIDE DEF w
  <2>3. 100 * c.lateral \in Nat /\ 100 * c.lateral * w \in Nat /\ 100 * c.lateral * w * w \in Nat
    <3>1. \A a, b \in Nat : a * b \in Nat
      OBVIOUS
    <3> QED BY <1>1, <2>2, <3>1
  <2>4. (c.s - m.progress) * (c.s - m.progress) \in Nat
    BY <2>2
  <2>5. (c.s - m.progress) * (c.s - m.progress) * MaxLateral * MaxLateral \in Nat
    <3>1. \A a, b \in Nat : a * b \in Nat
      OBVIOUS
    <3> QED BY <1>1, <2>4, <3>1
  <2> QED BY <2>1, <2>3, <2>5
<1>3. PICK n \in F : \A k \in F : n <= k
  <2>1. F \subseteq Nat /\ F # {}
    BY <1>2
  <2> HIDE DEF F
  <2> QED BY <2>1, LeastOf
<1> DEFINE S == {c.s - low : c \in {d \in C : Score(m, d) = n}}
<1>4. S \subseteq Nat /\ S # {}
  BY <1>3
<1>5. PICK l \in S : \A k \in S : l <= k
  <2> HIDE DEF S
  <2> QED BY <1>4, LeastOf
<1>6. PICK c \in C : Score(m, c) = n /\ c.s - low = l
  BY <1>5
<1>7. ASSUME NEW d \in C
      PROVE  Score(m, c) < Score(m, d) \/ (Score(m, c) = Score(m, d) /\ c.s <= d.s)
  <2>1. n <= Score(m, d) /\ Score(m, d) \in Nat /\ Score(m, c) \in Nat
    BY <1>2, <1>3
  <2>2. Score(m, d) = n => d.s - low \in S
    OBVIOUS
  <2>3. Score(m, d) = n => l <= d.s - low
    BY <1>5, <2>2
  <2>4. d.s \in Int /\ c.s \in Int
    OBVIOUS
  <2> HIDE DEF S, F
  <2> QED BY <1>6, <2>1, <2>3, <2>4
<1> QED
  BY <1>6, <1>7 DEF Best

(* A pose, or one that is turned down.                                     *)
LEMMA JudgedPays ==
  ASSUME NEW old, NEW m, NEW cands, HasCredit(m), {"completed", "verdict"} \subseteq DOMAIN m,
         m.route \in TrackableRoutes, m.progress \in 0..MissionLength(m.route), NEW low \in Int,
         \A c \in cands : c.s \in Int /\ c.s >= low /\ c.lateral \in Nat
  PROVE  LET u == Judged(old, m, cands)
         IN  /\ HasCredit(u) /\ DOMAIN u = DOMAIN m /\ u.route = m.route /\ u.last = m.last
             /\ u.progress \in 0..MissionLength(m.route)
             /\ u.progress + u.credit <= m.progress + m.credit
             /\ u.progress >= m.progress /\ (Ends(m) => Ends(u))
<1> DEFINE u == Judged(old, m, cands)
           c == Best(m, {x \in cands : Valid(x)})
<1>1. TrackerFields \cup {"completed", "verdict"} \subseteq DOMAIN m /\ m.credit \in 0..MaxAdvance
      /\ m.last \in Places /\ MaxAdvance \in Nat /\ MissionLength(m.route) \in Nat
      /\ m.progress \in Nat
  BY TrackableTyped, MissionNumbers DEF HasCredit
<1>2. CASE \E v : u = [m EXCEPT !.verdict = v]
  <2>1. PICK v : u = [m EXCEPT !.verdict = v]
    BY <1>2
  <2> HIDE DEF u
  <2>2. /\ u.route = m.route /\ u.last = m.last /\ u.progress = m.progress /\ u.credit = m.credit
        /\ DOMAIN u = DOMAIN m /\ u.completed = m.completed
    BY <1>1, <2>1 DEF TrackerFields
  <2> QED BY <1>1, <2>2 DEF HasCredit, Ends, u
<1>3. CASE u = Confirm(m, c) /\ WithinBudget(m, c) /\ {x \in cands : Valid(x)} # {}
  <2> DEFINE V == {x \in cands : Valid(x)}
             s == Lesser(MissionLength(m.route), m.progress + Step(m, c))
             g == Greater(0, m.credit - Step(m, c))
             f == s >= MissionLength(m.route)
             v == IF f THEN "completed" ELSE "accepted"
  <2>1. c \in V
    <3>1. V # {} /\ \A x \in V : x.s \in Int /\ x.s >= low /\ x.lateral \in Nat
      BY <1>3
    <3> HIDE DEF V
    <3> QED BY <1>1, <3>1, BestFound DEF V
  <2>2. c.s \in Int
    BY <2>1
  <2> HIDE DEF c
  <2>3. Step(m, c) \in Nat /\ Step(m, c) <= m.credit
    <3>1. Step(m, c) \in Nat
      BY <1>1, <2>2 DEF Step, Greater
    <3>2. Step(m, c) <= Lesser(MaxAdvance, m.credit)
      BY <1>3 DEF WithinBudget
    <3> QED BY <1>1, <3>1, <3>2 DEF Lesser
  <2>4. /\ s \in 0..MissionLength(m.route) /\ s <= m.progress + Step(m, c) /\ s >= m.progress
        /\ f = (s = MissionLength(m.route))
    BY <1>1, <2>3 DEF Lesser
  <2>5. g = m.credit - Step(m, c) /\ g \in 0..MaxAdvance
    BY <1>1, <2>3 DEF Greater
  <2>6. u = [m EXCEPT !.progress = s, !.credit = g, !.completed = f, !.verdict = v]
    BY <1>3 DEF Confirm
  <2> HIDE DEF s, g, f, v, u
  <2>7. /\ u.route = m.route /\ u.last = m.last /\ u.progress = s /\ u.credit = g
        /\ DOMAIN u = DOMAIN m /\ u.completed = f
    BY <1>1, <2>6 DEF TrackerFields
  <2>8. HasCredit(u)
    BY <1>1, <2>5, <2>7 DEF HasCredit
  <2>9. u.progress + u.credit <= m.progress + m.credit
    BY <1>1, <2>3, <2>4, <2>5, <2>7
  <2>10. Ends(u)
    BY <2>4, <2>7 DEF Ends
  <2> QED BY <2>4, <2>7, <2>8, <2>9, <2>10 DEF u
<1>4. \/ \E v : u = [m EXCEPT !.verdict = v]
      \/ u = Confirm(m, c) /\ WithinBudget(m, c) /\ {x \in cands : Valid(x)} # {}
  BY DEF Judged
<1> QED
  BY <1>2, <1>3, <1>4

LEMMA WayKept ==
  ASSUME NEW t, NEW from \in Places, NEW at \in Places, NEW e \in Int,
         HasCredit(t), t.progress \in Int,
         t.progress + t.credit + CreditScale * Leg(t.last, from) <= e
  PROVE  t.progress + t.credit + CreditScale * Leg(t.last, at) <= e + CreditScale * Leg(from, at)
<1>1. t.last \in Places /\ t.credit \in Nat /\ CreditScale \in Nat
  BY RouteAssumption DEF HasCredit
<1>2. /\ Leg(t.last, at) \in Nat /\ Leg(t.last, from) \in Nat /\ Leg(from, at) \in Nat
      /\ Leg(t.last, at) <= Leg(t.last, from) + Leg(from, at)
  BY <1>1, LegTyped, LegTriangle
<1>3. CreditScale * Leg(t.last, at) <= CreditScale * (Leg(t.last, from) + Leg(from, at))
  BY <1>1, <1>2
<1>4. CreditScale * (Leg(t.last, from) + Leg(from, at))
        = CreditScale * Leg(t.last, from) + CreditScale * Leg(from, at)
  BY <1>1, <1>2
<1>5. /\ CreditScale * Leg(t.last, at) \in Nat /\ CreditScale * Leg(t.last, from) \in Nat
      /\ CreditScale * Leg(from, at) \in Nat
  BY <1>1, <1>2
<1> QED
  BY <1>1, <1>3, <1>4, <1>5

LEMMA UpdatePays ==
  ASSUME MissionInv, robot' \in Places, NEW toward, NEW level, Update(toward, level)
  PROVE  LET u == mission'
         IN  /\ HasCredit(u) /\ {"completed", "verdict"} \subseteq DOMAIN u
             /\ u.route = mission.route /\ u.progress \in 0..MissionLength(mission.route)
             /\ mission.progress + mission.credit + CreditScale * Leg(mission.last, robot) <= Driven =>
                  u.progress + u.credit + CreditScale * Leg(u.last, robot')
                    <= Driven + CreditScale * Leg(robot, robot')
             /\ u.progress >= mission.progress /\ Ends(u)
<1> DEFINE u == mission'
           m == Credited(mission, robot')
<1>1. /\ HasCredit(mission) /\ {"completed", "verdict"} \subseteq DOMAIN mission
      /\ mission.route \in TrackableRoutes /\ mission.progress \in 0..MissionLength(mission.route)
      /\ MissionLength(mission.route) \in Nat /\ robot \in Places /\ driven \in Nat
      /\ Ends(mission)
  BY TrackableTyped, MissionNumbers DEF MissionInv, MissionTyped
<1>2. Driven \in Int /\ mission.progress \in Int
  BY <1>1, MissionNumbers DEF Driven
<1>3. /\ HasCredit(m) /\ m.route = mission.route /\ m.progress = mission.progress
      /\ DOMAIN m = DOMAIN mission
  BY <1>1, CreditedPays
<1>10. m.completed = mission.completed /\ Ends(m)
  <2>1. m.completed = mission.completed
    BY <1>1 DEF Credited
  <2> HIDE DEF m
  <2> QED BY <1>1, <1>3, <2>1 DEF Ends
<1>4. mission.progress + mission.credit + CreditScale * Leg(mission.last, robot) <= Driven =>
        m.progress + m.credit + CreditScale * Leg(m.last, robot') <= Driven + CreditScale * Leg(robot, robot')
  BY <1>1, <1>2, <1>3, CreditKept
<1>5. mission.progress + mission.credit + CreditScale * Leg(mission.last, robot) <= Driven =>
        mission.progress + mission.credit + CreditScale * Leg(mission.last, robot')
          <= Driven + CreditScale * Leg(robot, robot')
  BY <1>1, <1>2, WayKept
<1>6. \A t \in {mission, m} : CreditScale * Leg(t.last, robot') \in Nat /\ t.credit \in Nat
  <2>1. \A t \in {mission, m} : t.last \in Places /\ t.credit \in Nat
    BY <1>1, <1>3, MissionNumbers DEF HasCredit
  <2>2. \A t \in {mission, m} : Leg(t.last, robot') \in Nat
    BY <2>1, LegTyped
  <2> QED BY <2>1, <2>2, MissionNumbers
<1> HIDE DEF m
<1>7. CASE \E t \in {mission, m} : \E v : u = [t EXCEPT !.verdict = v]
  <2>1. PICK t \in {mission, m} : \E v : u = [t EXCEPT !.verdict = v]
    BY <1>7
  <2>2. PICK v : u = [t EXCEPT !.verdict = v]
    BY <2>1
  <2>3. /\ TrackerFields \cup {"completed", "verdict"} \subseteq DOMAIN t /\ HasCredit(t)
        /\ t.route = mission.route /\ t.progress = mission.progress
    BY <1>1, <1>3 DEF HasCredit
  <2> HIDE DEF u
  <2>4. /\ u.route = t.route /\ u.last = t.last /\ u.progress = t.progress /\ u.credit = t.credit
        /\ DOMAIN u = DOMAIN t /\ u.completed = t.completed
    BY <2>2, <2>3 DEF TrackerFields
  <2>5. HasCredit(u)
    BY <2>3, <2>4 DEF HasCredit
  <2>6. Ends(u)
    BY <1>1, <1>10, <2>4 DEF Ends
  <2> QED BY <1>1, <1>4, <1>5, <2>3, <2>4, <2>5, <2>6 DEF u
<1>8. CASE \E cands : /\ u = Judged(mission, m, cands)
                      /\ cands = {Candidate(m, x, toward, level) : x \in Stretches(m)}
  <2>1. PICK cands : /\ u = Judged(mission, m, cands)
                     /\ cands = {Candidate(m, x, toward, level) : x \in Stretches(m)}
    BY <1>8
  <2>2. \A c \in cands : c.s \in Int /\ c.s >= SearchStart(m) /\ c.lateral \in Nat
    BY <1>1, <1>2, <1>3, <2>1, CandidateTyped
  <2>3. SearchStart(m) \in Int
    BY <1>1, <1>2, <1>3, SearchTyped
  <2>4. /\ HasCredit(u) /\ DOMAIN u = DOMAIN m /\ u.route = m.route /\ u.last = m.last
        /\ u.progress \in 0..MissionLength(m.route)
        /\ u.progress + u.credit <= m.progress + m.credit
        /\ u.progress >= m.progress /\ Ends(u)
    <3> HIDE DEF u
    <3>1. /\ HasCredit(m) /\ {"completed", "verdict"} \subseteq DOMAIN m
          /\ m.route \in TrackableRoutes /\ m.progress \in 0..MissionLength(m.route)
      BY <1>1, <1>3
    <3>2. u = Judged(mission, m, cands)
      BY <2>1
    <3> QED BY <1>10, <2>2, <2>3, <3>1, <3>2, JudgedPays
  <2> HIDE DEF u
  <2>5. u.progress \in Int /\ u.credit \in Int /\ m.progress \in Int /\ m.credit \in Int
    BY <1>1, <1>2, <1>3, <1>6, <2>4, MissionNumbers DEF HasCredit
  <2>6. CreditScale * Leg(m.last, robot') \in Int /\ CreditScale * Leg(robot, robot') \in Int
    <3>1. Leg(robot, robot') \in Nat
      BY <1>1, LegTyped
    <3> QED BY <1>6, <3>1, MissionNumbers
  <2>7. mission.progress + mission.credit + CreditScale * Leg(mission.last, robot) <= Driven =>
          u.progress + u.credit + CreditScale * Leg(u.last, robot')
            <= Driven + CreditScale * Leg(robot, robot')
    BY <1>2, <1>4, <2>4, <2>5, <2>6
  <2> QED BY <1>1, <1>3, <2>4, <2>7 DEF u
<1>9. \/ \E t \in {mission, m} : \E v : u = [t EXCEPT !.verdict = v]
      \/ \E cands : /\ u = Judged(mission, m, cands)
                    /\ cands = {Candidate(m, x, toward, level) : x \in Stretches(m)}
  BY DEF Update, m
<1> QED
  BY <1>7, <1>8, <1>9

LEMMA MissionInvStart == ProgressInit => MissionInv
<1> SUFFICES ASSUME ProgressInit  PROVE MissionInv
  OBVIOUS
<1>1. PICK r \in TrackableRoutes :
        /\ robot = PointAt(r, 0) /\ mission = ResetMission(r, PointAt(r, 0))
        /\ followed = 0 /\ driven = 0
  BY DEF ProgressInit
<1> DEFINE no == FALSE
<1>2. mission = [route |-> r, last |-> robot, progress |-> 0, credit |-> InitialCredit,
                 completed |-> no, verdict |-> "none"]
  BY <1>1 DEF ResetMission
<1> HIDE DEF no
<1>3. /\ TrackerFields \cup {"completed", "verdict"} \subseteq DOMAIN mission
      /\ mission.route = r /\ mission.last = robot /\ mission.progress = 0
      /\ mission.credit = InitialCredit /\ mission.completed = no
  BY <1>2 DEF TrackerFields
<1>4. robot \in Places /\ Leg(robot, robot) = 0 /\ MissionLength(r) \in Nat \ {0}
  BY <1>1, TrackableTyped, PointTyped, LegTyped
<1>5. MissionTyped
  BY <1>1, <1>3, <1>4, MissionNumbers DEF MissionTyped, HasCredit
<1>6. MissionPays
  BY <1>1, <1>3, <1>4, MissionNumbers DEF MissionPays, Driven
<1>7. Ends(mission)
  BY <1>3, <1>4 DEF Ends, no
<1> QED
  BY <1>5, <1>6, <1>7 DEF MissionInv

LEMMA PoseStep ==
  ASSUME MissionInv, NEW toward, NEW level, robot' \in Places, followed' \in Int,
         Update(toward, level), Drive
  PROVE  MissionInv' /\ mission'.progress >= mission.progress
<1>1. /\ robot \in Places /\ driven \in 0..MaxDriven /\ MaxDriven \in Nat
      /\ driven' = Lesser(MaxDriven, driven + Leg(robot, robot'))
      /\ CreditScale \in Nat /\ InitialCredit \in Nat /\ mission.route \in TrackableRoutes
  BY MissionNumbers DEF MissionInv, MissionTyped, Drive
<1>2. Leg(robot, robot') \in Nat
  BY <1>1, LegTyped
<1>3. /\ driven' \in 0..MaxDriven /\ (driven = MaxDriven => driven' = MaxDriven)
      /\ (driven' = MaxDriven \/ driven' = driven + Leg(robot, robot'))
  BY <1>1, <1>2 DEF Lesser
<1>4. driven' # MaxDriven => Driven' = Driven + CreditScale * Leg(robot, robot')
  <2>1. CreditScale * (driven + Leg(robot, robot'))
          = CreditScale * driven + CreditScale * Leg(robot, robot')
    BY <1>1, <1>2
  <2>2. CreditScale * driven \in Int /\ CreditScale * Leg(robot, robot') \in Int
    BY <1>1, <1>2
  <2> QED BY <1>1, <1>3, <2>1, <2>2 DEF Driven
<1>5. /\ HasCredit(mission') /\ {"completed", "verdict"} \subseteq DOMAIN mission'
      /\ mission'.route = mission.route /\ mission'.progress \in 0..MissionLength(mission.route)
      /\ mission.progress + mission.credit + CreditScale * Leg(mission.last, robot) <= Driven =>
           mission'.progress + mission'.credit + CreditScale * Leg(mission'.last, robot')
             <= Driven + CreditScale * Leg(robot, robot')
      /\ mission'.progress >= mission.progress /\ Ends(mission')
  BY UpdatePays
<1>6. MissionTyped'
  BY <1>1, <1>3, <1>5 DEF MissionTyped
<1>7. MissionPays'
  <2>1. SUFFICES ASSUME driven' # MaxDriven
                 PROVE  mission'.progress + mission'.credit + CreditScale * Leg(mission'.last, robot')
                          <= Driven'
    BY DEF MissionPays
  <2>2. mission.progress + mission.credit + CreditScale * Leg(mission.last, robot) <= Driven
    BY <1>3, <2>1 DEF MissionInv, MissionPays
  <2> QED BY <1>4, <1>5, <2>1, <2>2
<1> QED
  BY <1>5, <1>6, <1>7 DEF MissionInv

LEMMA MissionInvStep ==
  MissionInv /\ [ProgressNext]_progressVars =>
    MissionInv' /\ [mission'.progress >= mission.progress]_progressVars
<1> SUFFICES ASSUME MissionInv, [ProgressNext]_progressVars
             PROVE  MissionInv' /\ [mission'.progress >= mission.progress]_progressVars
  OBVIOUS
<1>1. mission.route \in TrackableRoutes /\ followed \in Int
  BY DEF MissionInv, MissionTyped
<1>2. CASE Follow /\ Drive
  <2>1. PICK s \in followed..Lesser(followed + Stride, MissionLength(mission.route)) :
          /\ followed' = s /\ robot' = PointAt(mission.route, s)
          /\ Update(TangentAt(mission.route, s), TRUE)
    BY <1>2 DEF Follow
  <2>2. s \in Int
    BY <1>1, <2>1
  <2>3. robot' \in Places
    BY <1>1, <2>1, <2>2, TrackableTyped, PointTyped
  <2> QED BY <1>2, <2>1, <2>2, <2>3, PoseStep
<1>3. CASE Wander /\ Drive
  <2>1. followed' \in Int
    BY <1>3 DEF Wander, Wandered
  <2>2. PICK at \in Yard, toward \in Headings, level \in BOOLEAN :
          robot' = at /\ Update(toward, level)
    BY <1>3 DEF Wander
  <2>3. robot' \in Places
    BY <2>2, MissionNumbers
  <2> QED BY <1>3, <2>1, <2>2, <2>3, PoseStep
<1>4. CASE UNCHANGED progressVars
  BY <1>4 DEF progressVars, MissionInv, MissionTyped, MissionPays, Driven, Ends
<1> QED
  BY <1>2, <1>3, <1>4 DEF ProgressNext

LEMMA MissionInvSuffices ==
  ASSUME MissionIsRecorded, MissionInv
  PROVE  ProgressIsEarned
<1>1. /\ robot \in Places /\ driven \in 0..MaxDriven /\ MaxDriven \in Nat
      /\ HasCredit(mission) /\ mission.route \in TrackableRoutes
      /\ mission.progress \in 0..MissionLength(mission.route)
      /\ CreditScale \in Nat /\ InitialCredit \in Nat /\ MaxAdvance \in Nat
  BY MissionNumbers DEF MissionInv, MissionTyped
<1>2. MissionLength(mission.route) \in Nat
  BY <1>1, TrackableTyped
<1>3. CASE mission.progress + mission.credit + CreditScale * Leg(mission.last, robot) <= Driven
  <2>1. mission.last \in Places /\ mission.credit \in Nat
    BY <1>1 DEF HasCredit
  <2>2. Leg(mission.last, robot) \in Nat
    BY <1>1, <2>1, LegTyped
  <2>3. CreditScale * Leg(mission.last, robot) \in Nat /\ CreditScale * driven \in Nat
    BY <1>1, <2>2
  <2>4. mission.progress <= Driven
    BY <1>1, <1>2, <1>3, <2>1, <2>3 DEF Driven
  <2> QED BY <2>4 DEF ProgressIsEarned, Driven
<1>4. CASE driven = MaxDriven
  <2>1. MissionLength(mission.route) <= InitialCredit + CreditScale * driven
    BY <1>1, <1>4 DEF MissionIsRecorded
  <2>2. CreditScale * driven \in Nat
    BY <1>1
  <2> QED BY <1>1, <1>2, <2>1, <2>2 DEF ProgressIsEarned
<1> QED
  BY <1>3, <1>4 DEF MissionInv, MissionPays

(* The confirmed progress of a mission has been driven, whatever poses the *)
(* robot takes: the windows, the gates of the lane, of the heading and of  *)
(* the seam, and the choice of the best candidate never confirm more than  *)
(* the credit of the way pays for (route_progress_tracker.cpp:236-247).    *)
THEOREM ProgressEarned == MissionIsRecorded /\ ProgressSpec => []ProgressIsEarned
<1>1. MissionInv /\ MissionIsRecorded => ProgressIsEarned
  BY MissionInvSuffices
<1>2. MissionIsRecorded => []MissionIsRecorded
  <2>1. MissionIsRecorded => MissionIsRecorded'
    BY DEF MissionIsRecorded
  <2> QED BY <2>1, PTL
<1>3. MissionInv /\ [ProgressNext]_progressVars => MissionInv'
  BY MissionInvStep
<1> QED
  BY <1>1, <1>2, <1>3, MissionInvStart, PTL DEF ProgressSpec

(* A mission is completed when its confirmed progress is the length of all *)
(* its laps and at no other time, the second part of FollowerIsConfirmed,  *)
(* and this not only for a robot that follows its route                    *)
(* (route_progress_tracker.cpp:461-466).                                   *)
THEOREM CompletionIsTold ==
  ProgressSpec => [](mission.completed <=> mission.progress = MissionLength(mission.route))
<1>1. MissionInv => (mission.completed <=> mission.progress = MissionLength(mission.route))
  BY DEF MissionInv, Ends
<1>2. MissionInv /\ [ProgressNext]_progressVars => MissionInv'
  BY MissionInvStep
<1> QED
  BY <1>1, <1>2, MissionInvStart, PTL DEF ProgressSpec

(* What is confirmed stays confirmed: no pose, back on the route, on an    *)
(* earlier lap or off the route, takes progress away.                      *)
THEOREM ProgressIsForGood ==
  ProgressSpec => [][mission'.progress >= mission.progress]_progressVars
<1>1. MissionInv /\ [ProgressNext]_progressVars
        => MissionInv' /\ [mission'.progress >= mission.progress]_progressVars
  BY MissionInvStep
<1> QED
  BY <1>1, MissionInvStart, PTL DEF ProgressSpec

-----------------------------------------------------------------------------
(* A robot that follows its route, and where the tracker sees it.          *)

(* The segments of a route follow each other.                              *)
LEMMA SegmentsInOrder ==
  ASSUME NEW r, IsRoute(r)
  PROVE  /\ \A i \in Segments(r) : \A j \in Segments(r) : i < j =>
              SegmentEnd(r, i) <= r.cum[j] /\ i + 1 \in Segments(r)
         /\ \A i \in Segments(r) :
              IF i + 1 \in Segments(r)
              THEN /\ SegmentEnd(r, i) = r.cum[i + 1] /\ NextVertex(r, i) = r.pts[i + 1]
                   /\ SegmentEnd(r, i) < r.total
              ELSE /\ SegmentEnd(r, i) = r.total
                   /\ r.closed => NextVertex(r, i) = r.pts[1]
<1> DEFINE n == Len(r.pts)
           N == n - IF r.closed THEN 0 ELSE 1
<1>1. /\ n \in Nat /\ n >= 2 /\ r.cum \in [1..n -> Nat]
      /\ \A i \in 1..n - 1 : r.cum[i] < r.cum[i + 1]
      /\ r.closed \in BOOLEAN
      /\ ~r.closed => r.total = r.cum[n]
  BY DEF IsRoute
<1>2. /\ N \in Nat /\ Segments(r) = 1..N /\ N <= n
      /\ (r.closed => N = n) /\ (~r.closed => N = n - 1)
  <2>1. Segments(r) = 1..N
    BY DEF Segments
  <2>2. CASE r.closed
    BY <1>1, <2>1, <2>2
  <2>3. CASE ~r.closed
    BY <1>1, <2>1, <2>3
  <2> QED BY <2>2, <2>3
<1> HIDE DEF n, N
<1>3. ASSUME NEW i \in 1..N
      PROVE  IF i < N
             THEN /\ SegmentEnd(r, i) = r.cum[i + 1] /\ NextVertex(r, i) = r.pts[i + 1]
                  /\ SegmentEnd(r, i) < r.total
             ELSE /\ SegmentEnd(r, i) = r.total
                  /\ r.closed => NextVertex(r, i) = r.pts[1]
  <2>1. CASE i < N
    <3>1. SegmentEnd(r, i) = r.cum[i + 1] /\ NextVertex(r, i) = r.pts[i + 1]
      BY <1>1, <1>2, <2>1 DEF SegmentEnd, NextVertex, n
    <3>2. i + 1 \in Segments(r)
      BY <1>2, <2>1
    <3>3. /\ r.cum[i + 1] \in Nat /\ SegmentEnd(r, i + 1) \in Nat /\ r.total \in Nat
          /\ r.cum[i + 1] < SegmentEnd(r, i + 1) /\ SegmentEnd(r, i + 1) <= r.total
      BY <3>2, RouteLength
    <3> QED BY <2>1, <3>1, <3>3
  <2>2. CASE ~(i < N) /\ r.closed
    <3>1. i = n
      BY <1>1, <1>2, <2>2
    <3> QED BY <1>1, <2>2, <3>1 DEF SegmentEnd, NextVertex, n
  <2>3. CASE ~(i < N) /\ ~r.closed
    <3>1. i = n - 1 /\ i < n /\ i + 1 = n
      BY <1>1, <1>2, <2>3
    <3>2. SegmentEnd(r, i) = r.cum[i + 1]
      BY <1>1, <3>1 DEF SegmentEnd, n
    <3> QED BY <1>1, <2>3, <3>1, <3>2
  <2> QED BY <2>1, <2>2, <2>3
<1> DEFINE G == {k \in Nat : \A i \in 1..N : i + k + 1 <= N => SegmentEnd(r, i) <= r.cum[i + k + 1]}
<1>4. 0 \in G
  <2>1. ASSUME NEW i \in 1..N, i + 0 + 1 <= N  PROVE SegmentEnd(r, i) <= r.cum[i + 0 + 1]
    <3>1. i < N /\ i + 0 + 1 = i + 1 /\ i \in Segments(r) /\ SegmentEnd(r, i) \in Nat
      BY <1>2, <2>1, RouteLength
    <3>2. SegmentEnd(r, i) = r.cum[i + 1]
      BY <1>3, <3>1
    <3> QED BY <3>1, <3>2
  <2> QED BY <2>1
<1>5. ASSUME NEW k \in Nat, k \in G  PROVE k + 1 \in G
  <2>1. SUFFICES ASSUME NEW i \in 1..N, i + (k + 1) + 1 <= N
                 PROVE  SegmentEnd(r, i) <= r.cum[i + (k + 1) + 1]
    OBVIOUS
  <2>2. i + k + 1 <= N /\ i + k + 1 \in 1..n - 1 /\ i + k + 1 + 1 = i + (k + 1) + 1 /\ i \in Segments(r)
    BY <1>1, <1>2, <2>1
  <2>3. SegmentEnd(r, i) <= r.cum[i + k + 1]
    BY <1>5, <2>2
  <2>4. r.cum[i + k + 1] < r.cum[i + (k + 1) + 1]
    <3>1. r.cum[i + k + 1] < r.cum[i + k + 1 + 1]
      BY <1>1, <2>2
    <3> QED BY <2>2, <3>1
  <2>5. r.cum[i + k + 1] \in Nat /\ r.cum[i + (k + 1) + 1] \in Nat /\ SegmentEnd(r, i) \in Nat
    <3>1. i + k + 1 \in 1..n /\ i + (k + 1) + 1 \in 1..n
      BY <1>1, <1>2, <2>1
    <3>2. SegmentEnd(r, i) \in Nat
      BY <2>2, RouteLength
    <3> QED BY <1>1, <3>1, <3>2
  <2> QED BY <2>3, <2>4, <2>5
<1>6. \A k \in Nat : k \in G
  <2> HIDE DEF G
  <2> QED BY <1>4, <1>5, NumberInduction
<1>7. ASSUME NEW i \in 1..N, NEW j \in 1..N, i < j
      PROVE  SegmentEnd(r, i) <= r.cum[j] /\ i + 1 \in 1..N
  <2>1. j - i - 1 \in Nat /\ i + (j - i - 1) + 1 = j /\ j <= N /\ i + 1 \in 1..N
    BY <1>2, <1>7
  <2>2. SegmentEnd(r, i) <= r.cum[i + (j - i - 1) + 1]
    BY <1>6, <2>1
  <2> QED BY <2>1, <2>2
<1>8. ASSUME NEW i \in 1..N  PROVE (i < N) = (i + 1 \in 1..N)
  BY <1>2
<1> QED
  BY <1>2, <1>3, <1>7, <1>8

(* A place on a segment, by its distance from the beginning.               *)
Along(r, i, a) ==
  LET d == Direction(r.pts[i], NextVertex(r, i))
  IN  <<r.pts[i][1] + a * d[1], r.pts[i][2] + a * d[2]>>

OnAxes(r) ==
  \A i \in Segments(r) : \/ r.pts[i][1] = NextVertex(r, i)[1]
                         \/ r.pts[i][2] = NextVertex(r, i)[2]

LEMMA AxisTyped ==
  ASSUME NEW r, IsRoute(r), Measured(r), OnAxes(r), NEW i \in Segments(r),
         NEW d, d = Direction(r.pts[i], NextVertex(r, i))
  PROVE  /\ d[1] \in Int /\ d[2] \in Int /\ Dot(d, d) = 1 /\ Gap(d[1]) + Gap(d[2]) = 1
         /\ d = <<d[1], d[2]>>
         /\ (d[1] = 0 /\ d[2] \in {1, -1}) \/ (d[2] = 0 /\ d[1] \in {1, -1})
         /\ Along(r, i, SegmentEnd(r, i) - r.cum[i]) = NextVertex(r, i)
         /\ Along(r, i, 0) = r.pts[i]
<1>1. /\ r.pts[i] \in Places /\ NextVertex(r, i) \in Places
      /\ r.cum[i] \in Nat /\ SegmentEnd(r, i) \in Nat /\ r.cum[i] < SegmentEnd(r, i)
  BY RouteLength
<1>2. PICK a, b, c, e \in Int : r.pts[i] = <<a, b>> /\ NextVertex(r, i) = <<c, e>>
  BY <1>1 DEF Places
<1>3. d = <<Unit(c - a), Unit(e - b)>>
  BY <1>2 DEF Direction
<1>4. SegmentEnd(r, i) - r.cum[i] = Gap(a - c) + Gap(b - e)
  <2>1. Leg(r.pts[i], NextVertex(r, i)) = Gap(a - c) + Gap(b - e)
    BY <1>2 DEF Leg
  <2>2. Gap(a - c) \in Int /\ Gap(b - e) \in Int
    BY DEF Gap
  <2>3. SegmentEnd(r, i) = r.cum[i] + Leg(r.pts[i], NextVertex(r, i))
    BY DEF Measured
  <2> QED BY <1>1, <2>1, <2>2, <2>3
<1>5. a = c \/ b = e
  BY <1>2 DEF OnAxes
<1>6. ASSUME NEW l \in Int  PROVE Along(r, i, l) = <<a + l * d[1], b + l * d[2]>>
  BY <1>2 DEF Along
<1>7. SUFFICES /\ d[1] \in Int /\ d[2] \in Int
               /\ (d[1] = 0 /\ d[2] \in {1, -1}) \/ (d[2] = 0 /\ d[1] \in {1, -1})
               /\ (SegmentEnd(r, i) - r.cum[i]) * d[1] = c - a
               /\ (SegmentEnd(r, i) - r.cum[i]) * d[2] = e - b
  <2>1. Dot(d, d) = 1
    <3>1. d[1] * d[1] + d[2] * d[2] = 1
      <4>1. CASE d[1] = 0 /\ d[2] \in {1, -1}
        BY <4>1
      <4>2. CASE d[2] = 0 /\ d[1] \in {1, -1}
        BY <4>2
      <4> QED BY <1>7, <4>1, <4>2
    <3> QED BY <3>1 DEF Dot
  <2>2. Gap(d[1]) + Gap(d[2]) = 1
    BY <1>7 DEF Gap
  <2>3. d = <<d[1], d[2]>>
    BY <1>3
  <2>4. Along(r, i, SegmentEnd(r, i) - r.cum[i]) = <<c, e>>
    <3>1. SegmentEnd(r, i) - r.cum[i] \in Int
      BY <1>1
    <3>2. /\ Along(r, i, SegmentEnd(r, i) - r.cum[i])
               = <<a + (SegmentEnd(r, i) - r.cum[i]) * d[1], b + (SegmentEnd(r, i) - r.cum[i]) * d[2]>>
      BY <1>6, <3>1
    <3>3. a + (c - a) = c /\ b + (e - b) = e
      OBVIOUS
    <3> QED BY <1>7, <3>2, <3>3
  <2>5. Along(r, i, 0) = <<a, b>>
    <3>1. a + 0 * d[1] = a /\ b + 0 * d[2] = b
      BY <1>7
    <3> QED BY <1>6, <3>1
  <2> QED BY <1>2, <1>7, <2>1, <2>2, <2>3, <2>4, <2>5
<1> DEFINE l == SegmentEnd(r, i) - r.cum[i]
<1>8. l \in Int /\ l > 0 /\ l = Gap(a - c) + Gap(b - e) /\ d[1] = Unit(c - a) /\ d[2] = Unit(e - b)
  BY <1>1, <1>3, <1>4
<1> HIDE DEF l
<1>9. CASE a = c
  <2>1. CASE e > b
    <3>1. l = e - b /\ d[1] = 0 /\ d[2] = 1 /\ c - a = 0
      BY <1>8, <1>9, <2>1 DEF Gap, Unit
    <3> QED BY <1>8, <3>1 DEF l
  <2>2. CASE e < b
    <3>1. l = b - e /\ d[1] = 0 /\ d[2] = -1 /\ c - a = 0
      BY <1>8, <1>9, <2>2 DEF Gap, Unit
    <3> QED BY <1>8, <3>1 DEF l
  <2>3. CASE e = b
    BY <1>8, <1>9, <2>3 DEF Gap, Unit
  <2> QED BY <2>1, <2>2, <2>3 DEF l
<1>10. CASE b = e
  <2>1. CASE c > a
    <3>1. l = c - a /\ d[2] = 0 /\ d[1] = 1 /\ e - b = 0
      BY <1>8, <1>10, <2>1 DEF Gap, Unit
    <3> QED BY <1>8, <3>1 DEF l
  <2>2. CASE c < a
    <3>1. l = a - c /\ d[2] = 0 /\ d[1] = -1 /\ e - b = 0
      BY <1>8, <1>10, <2>2 DEF Gap, Unit
    <3> QED BY <1>8, <3>1 DEF l
  <2>3. CASE c = a
    BY <1>8, <1>10, <2>3 DEF Gap, Unit
  <2> QED BY <2>1, <2>2, <2>3 DEF l
<1> QED
  BY <1>5, <1>9, <1>10

LEMMA AlongEnds ==
  ASSUME NEW r, IsRoute(r), Measured(r), OnAxes(r), NEW i \in Segments(r)
  PROVE  /\ Along(r, i, SegmentEnd(r, i) - r.cum[i]) = NextVertex(r, i)
         /\ Along(r, i, 0) = r.pts[i]
  BY AxisTyped

IsPath(r) == IsRoute(r) /\ Measured(r) /\ OnAxes(r)

LEMMA SegmentUnique ==
  ASSUME NEW r, IsRoute(r), NEW s \in Int, NEW i \in Segments(r),
         r.cum[i] <= NormalizeRouteS(r, s),
         NormalizeRouteS(r, s) < SegmentEnd(r, i) \/ i + 1 \notin Segments(r)
  PROVE  SegmentIndex(r, s) = i
<1> DEFINE j == SegmentIndex(r, s)
           x == NormalizeRouteS(r, s)
<1>1. /\ j \in Segments(r) /\ r.cum[j] <= x
      /\ j + 1 \in Segments(r) => x < r.cum[j + 1]
  BY SegmentFound
<1>2. x \in Int /\ i \in Int /\ j \in Int
  <2>1. x \in 0..r.total /\ r.total \in Nat
    BY NormalTyped, RouteLength
  <2>2. Len(r.pts) \in Nat /\ \A k \in Segments(r) : k \in 1..Len(r.pts)
    BY RouteLength DEF IsRoute
  <2> QED BY <1>1, <2>1, <2>2
<1>3. /\ r.cum[i] \in Nat /\ SegmentEnd(r, i) \in Nat /\ r.cum[j] \in Nat /\ SegmentEnd(r, j) \in Nat
  BY <1>1, RouteLength
<1>4. /\ i < j => SegmentEnd(r, i) <= r.cum[j] /\ i + 1 \in Segments(r)
      /\ j < i => SegmentEnd(r, j) <= r.cum[i] /\ j + 1 \in Segments(r)
      /\ j + 1 \in Segments(r) => SegmentEnd(r, j) = r.cum[j + 1]
  BY <1>1, SegmentsInOrder
<1>5. r.cum[i] <= x /\ (x < SegmentEnd(r, i) \/ i + 1 \notin Segments(r))
  OBVIOUS
<1> HIDE DEF j, x
<1>6. ~(i < j)
  <2> SUFFICES ASSUME i < j  PROVE FALSE
    OBVIOUS
  <2> QED BY <1>1, <1>2, <1>3, <1>4, <1>5
<1>7. ~(j < i)
  <2> SUFFICES ASSUME j < i  PROVE FALSE
    OBVIOUS
  <2>1. x < r.cum[j + 1] /\ SegmentEnd(r, j) = r.cum[j + 1] /\ SegmentEnd(r, j) <= r.cum[i]
    BY <1>1, <1>4
  <2> QED BY <1>2, <1>3, <1>5, <2>1
<1> QED
  BY <1>2, <1>6, <1>7 DEF j

(* The place of an arc length that lies on a segment, in some lap.         *)
LEMMA PointOnStretch ==
  ASSUME NEW r, IsPath(r), NEW i \in Segments(r), NEW lap \in Int, r.closed \/ lap = 0,
         NEW a \in r.cum[i]..SegmentEnd(r, i), NEW s, s = lap * r.total + a
  PROVE  PointAt(r, s) = Along(r, i, a - r.cum[i])
<1>1. /\ IsRoute(r) /\ r.total \in Nat \ {0} /\ r.cum[i] \in Nat /\ SegmentEnd(r, i) \in Nat
      /\ r.cum[i] < SegmentEnd(r, i) /\ SegmentEnd(r, i) <= r.total /\ i \in Int
      /\ r.closed \in BOOLEAN /\ r.cum[1] = 0
  <2>1. IsRoute(r)
    BY DEF IsPath
  <2>2. i \in 1..Len(r.pts)
    BY <2>1, RouteLength
  <2>3. i \in Int /\ r.closed \in BOOLEAN /\ r.cum[1] = 0
    BY <2>1, <2>2 DEF IsRoute
  <2> QED BY <2>1, <2>2, <2>3, RouteLength
<1>2. a \in Nat /\ a <= r.total /\ a >= r.cum[i] /\ a <= SegmentEnd(r, i)
  BY <1>1
<1>3. s \in Int
  BY <1>1, <1>2
<1>4. CASE a < r.total \/ ~r.closed
  <2>1. NormalizeRouteS(r, s) = a
    <3>1. CASE r.closed
      <4>1. s % r.total = a
        <5>1. s = r.total * lap + a /\ a \in 0..r.total - 1
          BY <1>1, <1>2, <1>4, <3>1
        <5> QED BY <1>1, <5>1, ModUnique
      <4> QED BY <3>1, <4>1 DEF NormalizeRouteS
    <3>2. CASE ~r.closed
      <4>1. s = a
        <5>1. lap = 0 /\ lap * r.total = 0 /\ 0 + a = a
          BY <1>1, <1>2, <3>2
        <5> QED BY <5>1
      <4>2. NormalizeRouteS(r, s) = Bounded(a, 0, r.total)
        BY <3>2, <4>1 DEF NormalizeRouteS
      <4> QED BY <1>1, <1>2, <4>2 DEF Bounded, Lesser, Greater
    <3> QED BY <3>1, <3>2
  <2>2. CASE a < SegmentEnd(r, i) \/ i + 1 \notin Segments(r)
    <3>1. SegmentIndex(r, s) = i
      BY <1>1, <1>2, <1>3, <2>1, <2>2, SegmentUnique
    <3> QED BY <2>1, <3>1 DEF PointAt, Along
  <2>3. CASE ~(a < SegmentEnd(r, i)) /\ i + 1 \in Segments(r)
    <3>1. a = SegmentEnd(r, i) /\ a = r.cum[i + 1] /\ NextVertex(r, i) = r.pts[i + 1]
      BY <1>1, <1>2, <2>3, SegmentsInOrder
    <3>2. a < SegmentEnd(r, i + 1)
      BY <1>1, <2>3, <3>1, RouteLength
    <3>3. SegmentIndex(r, s) = i + 1
      BY <1>1, <1>2, <1>3, <2>1, <2>3, <3>1, <3>2, SegmentUnique
    <3>4. PointAt(r, s) = Along(r, i + 1, 0)
      <4>1. NormalizeRouteS(r, s) - r.cum[i + 1] = 0
        BY <1>2, <2>1, <3>1
      <4> QED BY <3>3, <4>1 DEF PointAt, Along
    <3>5. Along(r, i + 1, 0) = r.pts[i + 1]
      BY <1>1, <2>3, AlongEnds DEF IsPath
    <3>6. Along(r, i, a - r.cum[i]) = NextVertex(r, i)
      BY <1>1, <3>1, AlongEnds DEF IsPath
    <3> QED BY <3>1, <3>4, <3>5, <3>6
  <2> QED BY <2>2, <2>3
<1>5. CASE ~(a < r.total) /\ r.closed
  <2>1. a = r.total /\ a = SegmentEnd(r, i)
    BY <1>1, <1>2, <1>5
  <2>2. i + 1 \notin Segments(r) /\ NextVertex(r, i) = r.pts[1]
    BY <1>1, <1>5, <2>1, SegmentsInOrder
  <2>3. NormalizeRouteS(r, s) = 0
    <3>1. s = r.total * (lap + 1) + 0 /\ 0 \in 0..r.total - 1 /\ lap + 1 \in Int
      BY <1>1, <2>1
    <3>2. s % r.total = 0
      BY <1>1, <3>1, ModUnique
    <3> QED BY <1>5, <3>2 DEF NormalizeRouteS
  <2>4. 1 \in Segments(r) /\ 0 < SegmentEnd(r, 1)
    <3>1. Len(r.pts) \in Nat /\ Len(r.pts) >= 2
      BY <1>1 DEF IsRoute
    <3>2. 1 \in Segments(r)
      BY <1>5, <3>1 DEF Segments
    <3> QED BY <1>1, <3>2, RouteLength
  <2>5. SegmentIndex(r, s) = 1
    BY <1>1, <1>3, <2>3, <2>4, SegmentUnique
  <2>6. PointAt(r, s) = Along(r, 1, 0)
    <3>1. NormalizeRouteS(r, s) - r.cum[1] = 0
      BY <1>1, <2>3
    <3> QED BY <2>5, <3>1 DEF PointAt, Along
  <2>7. Along(r, 1, 0) = r.pts[1]
    BY <1>1, <2>4, AlongEnds DEF IsPath
  <2>8. Along(r, i, a - r.cum[i]) = NextVertex(r, i)
    BY <1>1, <2>1, AlongEnds DEF IsPath
  <2> QED BY <2>2, <2>6, <2>7, <2>8
<1> QED
  BY <1>1, <1>2, <1>4, <1>5

(* Where an arc length lies: its lap and its segment.                      *)
LapAt(r, s) == IF r.closed THEN s \div r.total ELSE 0

LEMMA OnTheWay ==
  ASSUME NEW r, IsPath(r), NEW s \in Int, r.closed \/ s \in 0..r.total
  PROVE  LET i   == SegmentIndex(r, s)
             a   == s - LapAt(r, s) * r.total
         IN  /\ i \in Segments(r) /\ LapAt(r, s) \in Int /\ (r.closed \/ LapAt(r, s) = 0)
             /\ a \in r.cum[i]..SegmentEnd(r, i) /\ s = LapAt(r, s) * r.total + a
             /\ r.closed \/ s < r.total => a < SegmentEnd(r, i)
<1> DEFINE i == SegmentIndex(r, s)
           lap == LapAt(r, s)
           a == s - lap * r.total
<1>1. IsRoute(r) /\ r.total \in Nat \ {0} /\ r.closed \in BOOLEAN
  BY RouteLength DEF IsPath, IsRoute
<1>2. /\ lap \in Int /\ (r.closed \/ lap = 0) /\ a = NormalizeRouteS(r, s) /\ a \in 0..r.total
      /\ r.closed \/ s < r.total => a < r.total
  <2>1. CASE r.closed
    <3> DEFINE n == r.total
               q == s \div n
               m == s % n
    <3>1. m \in 0..n - 1 /\ q \in Int /\ s = n * q + m
      <4>1. s \in Int /\ n \in Nat \ {0} /\ q = s \div n /\ m = s % n
        BY <1>1
      <4> HIDE DEF lap, a, i, q, m, n
      <4> QED BY ONLY <4>1, ModBounds
    <3>2. lap = q /\ NormalizeRouteS(r, s) = m
      BY <2>1 DEF LapAt, NormalizeRouteS
    <3>3. n = r.total /\ n \in Nat \ {0} /\ lap \in Int
      BY <1>1, <3>1, <3>2
    <3> HIDE DEF q, m, lap, n
    <3>4. a = m
      BY <3>1, <3>2, <3>3
    <3> QED BY <2>1, <3>1, <3>2, <3>3, <3>4
  <2>2. CASE ~r.closed
    <3>1. lap = 0 /\ s \in 0..r.total
      BY <2>2 DEF LapAt
    <3>2. NormalizeRouteS(r, s) = s
      BY <1>1, <2>2, <3>1 DEF NormalizeRouteS, Bounded, Lesser, Greater
    <3> HIDE DEF lap
    <3> QED BY <1>1, <2>2, <3>1, <3>2
  <2> QED BY <2>1, <2>2
<1>3. /\ i \in Segments(r) /\ r.cum[i] <= NormalizeRouteS(r, s)
      /\ i + 1 \in Segments(r) => NormalizeRouteS(r, s) < r.cum[i + 1]
  BY <1>1, SegmentFound
<1>4. /\ r.cum[i] \in Nat /\ SegmentEnd(r, i) \in Nat
      /\ IF i + 1 \in Segments(r) THEN SegmentEnd(r, i) = r.cum[i + 1] ELSE SegmentEnd(r, i) = r.total
  BY <1>1, <1>3, RouteLength, SegmentsInOrder
<1>5. s = lap * r.total + a
  <2>1. lap * r.total \in Int
    BY <1>1, <1>2
  <2> HIDE DEF lap
  <2> QED BY <1>1, <2>1
<1> HIDE DEF i, lap, a
<1>6. a \in r.cum[i]..SegmentEnd(r, i) /\ (r.closed \/ s < r.total => a < SegmentEnd(r, i))
  BY <1>1, <1>2, <1>3, <1>4
<1> QED
  BY <1>2, <1>3, <1>5, <1>6 DEF i, lap, a

(* One unit further on leads one unit ahead.                               *)
LEMMA AlongMoves ==
  ASSUME NEW r, IsPath(r), NEW i \in Segments(r), NEW d, d = Direction(r.pts[i], NextVertex(r, i)),
         NEW a \in Int, NEW b \in Int
  PROVE  /\ Minus(Along(r, i, b), Along(r, i, a)) = <<(b - a) * d[1], (b - a) * d[2]>>
         /\ r.pts[i] \in Places
<1>1. r.pts[i] \in Places /\ d[1] \in Int /\ d[2] \in Int
  <2>1. IsRoute(r) /\ Measured(r) /\ OnAxes(r)
    BY DEF IsPath
  <2> QED BY <2>1, RouteLength, AxisTyped
<1>2. PICK x, y \in Int : r.pts[i] = <<x, y>>
  BY <1>1 DEF Places
<1>3. /\ Along(r, i, a) = <<x + a * d[1], y + a * d[2]>>
      /\ Along(r, i, b) = <<x + b * d[1], y + b * d[2]>>
  BY <1>2 DEF Along
<1>4. ASSUME NEW u \in Int, NEW v \in Int
      PROVE  (u + b * v) - (u + a * v) = (b - a) * v
  OBVIOUS
<1>5. /\ (x + b * d[1]) - (x + a * d[1]) = (b - a) * d[1]
      /\ (y + b * d[2]) - (y + a * d[2]) = (b - a) * d[2]
  BY <1>1, <1>4
<1> DEFINE u == x + a * d[1]
           v == y + a * d[2]
           w == x + b * d[1]
           z == y + b * d[2]
<1>6. Minus(<<w, z>>, <<u, v>>) = <<w - u, z - v>>
  <2> HIDE DEF u, v, w, z
  <2> QED BY DEF Minus
<1>7. Along(r, i, a) = <<u, v>> /\ Along(r, i, b) = <<w, z>>
  BY <1>3
<1>8. w - u = (b - a) * d[1] /\ z - v = (b - a) * d[2]
  BY <1>5
<1> HIDE DEF u, v, w, z
<1> QED
  BY <1>1, <1>6, <1>7, <1>8

LEMMA TangentTyped ==
  ASSUME NEW r, IsPath(r), NEW s \in Int, NEW d, d = TangentAt(r, s)
  PROVE  /\ d[1] \in Int /\ d[2] \in Int /\ Dot(d, d) = 1
         /\ SegmentIndex(r, s) \in Segments(r)
         /\ d = Direction(r.pts[SegmentIndex(r, s)], NextVertex(r, SegmentIndex(r, s)))
<1>1. IsRoute(r) /\ Measured(r) /\ OnAxes(r)
  BY DEF IsPath
<1>2. SegmentIndex(r, s) \in Segments(r)
  BY <1>1, SegmentFound
<1>3. d = Direction(r.pts[SegmentIndex(r, s)], NextVertex(r, SegmentIndex(r, s)))
  BY DEF TangentAt
<1> QED
  BY <1>1, <1>2, <1>3, AxisTyped

LEMMA UnitStep ==
  ASSUME NEW r, IsPath(r), NEW s \in Int, r.closed \/ s \in 0..r.total - 1
  PROVE  /\ Minus(PointAt(r, s + 1), PointAt(r, s)) = TangentAt(r, s)
         /\ Square(PointAt(r, s + 1), PointAt(r, s)) = 1
         /\ PointAt(r, s + 1) # PointAt(r, s)
<1> DEFINE i == SegmentIndex(r, s)
           lap == LapAt(r, s)
           a == s - lap * r.total
           d == TangentAt(r, s)
<1>1. IsRoute(r) /\ r.total \in Nat \ {0}
  BY RouteLength DEF IsPath
<1>2. /\ i \in Segments(r) /\ lap \in Int /\ (r.closed \/ lap = 0)
      /\ a \in r.cum[i]..SegmentEnd(r, i) /\ s = lap * r.total + a /\ a < SegmentEnd(r, i)
  <2>1. (r.closed \/ s \in 0..r.total) /\ (r.closed \/ s < r.total)
    BY <1>1
  <2> QED BY <2>1, OnTheWay
<1>3. r.cum[i] \in Nat /\ SegmentEnd(r, i) \in Nat
  BY <1>1, <1>2, RouteLength
<1>4. /\ d[1] \in Int /\ d[2] \in Int /\ Dot(d, d) = 1
      /\ d = Direction(r.pts[i], NextVertex(r, i)) /\ d = <<d[1], d[2]>>
  <2>1. /\ d[1] \in Int /\ d[2] \in Int /\ Dot(d, d) = 1
        /\ d = Direction(r.pts[i], NextVertex(r, i))
    BY TangentTyped
  <2> QED BY <2>1 DEF Direction
<1> HIDE DEF i, lap, a, d
<1>5. /\ a \in Int /\ a + 1 \in r.cum[i]..SegmentEnd(r, i) /\ s + 1 = lap * r.total + (a + 1)
      /\ lap * r.total \in Int
  <2>1. lap * r.total \in Int
    BY <1>1, <1>2
  <2> QED BY <1>2, <1>3, <2>1
<1>6. PointAt(r, s) = Along(r, i, a - r.cum[i]) /\ PointAt(r, s + 1) = Along(r, i, (a + 1) - r.cum[i])
  <2>1. PointAt(r, s) = Along(r, i, a - r.cum[i])
    BY ONLY IsPath(r), <1>2, PointOnStretch
  <2>2. PointAt(r, s + 1) = Along(r, i, (a + 1) - r.cum[i])
    <3> DEFINE b == a + 1
               t == s + 1
    <3>1. b \in r.cum[i]..SegmentEnd(r, i) /\ t = lap * r.total + b
      BY <1>5
    <3> HIDE DEF b, t
    <3>2. PointAt(r, t) = Along(r, i, b - r.cum[i])
      BY ONLY IsPath(r), <1>2, <3>1, PointOnStretch
    <3> QED BY <3>2 DEF b, t
  <2> QED BY <2>1, <2>2
<1>7. Minus(PointAt(r, s + 1), PointAt(r, s)) = d
  <2>1. a - r.cum[i] \in Int /\ (a + 1) - r.cum[i] \in Int /\ (a + 1) - r.cum[i] - (a - r.cum[i]) = 1
    BY <1>3, <1>5
  <2>2. Minus(PointAt(r, s + 1), PointAt(r, s))
          = <<((a + 1) - r.cum[i] - (a - r.cum[i])) * d[1], ((a + 1) - r.cum[i] - (a - r.cum[i])) * d[2]>>
    <3> DEFINE x == a - r.cum[i]
               y == (a + 1) - r.cum[i]
    <3>1. x \in Int /\ y \in Int
      BY <2>1
    <3>2. PointAt(r, s) = Along(r, i, x) /\ PointAt(r, s + 1) = Along(r, i, y)
      BY <1>6
    <3> HIDE DEF x, y
    <3>3. d = Direction(r.pts[i], NextVertex(r, i)) /\ i \in Segments(r)
      BY <1>2, <1>4
    <3>4. Minus(Along(r, i, y), Along(r, i, x)) = <<(y - x) * d[1], (y - x) * d[2]>>
      BY ONLY IsPath(r), <3>1, <3>3, AlongMoves
    <3> QED BY <3>2, <3>4 DEF x, y
  <2>3. 1 * d[1] = d[1] /\ 1 * d[2] = d[2]
    BY <1>4
  <2> QED BY <1>4, <2>1, <2>2, <2>3
<1>8. Square(PointAt(r, s + 1), PointAt(r, s)) = 1
  BY <1>4, <1>7 DEF Square
<1>9. PointAt(r, s + 1) # PointAt(r, s)
  <2> SUFFICES ASSUME PointAt(r, s + 1) = PointAt(r, s)  PROVE FALSE
    OBVIOUS
  <2>1. PointAt(r, s) \in Places
    BY <1>1, PointTyped
  <2>2. Square(PointAt(r, s), PointAt(r, s)) = 0
    BY <2>1 DEF Square, Minus, Dot, Places
  <2> QED BY <1>8, <2>2
<1> QED
  BY <1>7, <1>8, <1>9 DEF d

(* On its own stretch a place is its nearest one.                          *)
LEMMA NearestOnStretch ==
  ASSUME NEW r, IsPath(r), NEW i \in Segments(r), NEW lap \in Int, r.closed \/ lap = 0,
         NEW a \in r.cum[i]..SegmentEnd(r, i), NEW b \in r.cum[i]..SegmentEnd(r, i),
         NEW s \in a..b
  PROVE  Nearest(r, lap * r.total + a, lap * r.total + b, PointAt(r, lap * r.total + s))
           = lap * r.total + s
<1> DEFINE l == lap * r.total
           d == Direction(r.pts[i], NextVertex(r, i))
           c == r.cum[i]
<1>1. IsRoute(r) /\ Measured(r) /\ OnAxes(r)
  BY DEF IsPath
<1>2. c \in Nat /\ SegmentEnd(r, i) \in Nat /\ r.total \in Nat
  BY <1>1, RouteLength
<1>3. /\ a \in Int /\ b \in Int /\ s \in Int /\ a <= s /\ s <= b /\ l \in Int
      /\ s \in c..SegmentEnd(r, i)
  BY <1>2
<1>4. /\ d[1] \in Int /\ d[2] \in Int
      /\ (d[1] = 0 /\ d[2] \in {1, -1}) \/ (d[2] = 0 /\ d[1] \in {1, -1})
  BY <1>1, AxisTyped
<1>5. /\ PointAt(r, l + a) = Along(r, i, a - c) /\ PointAt(r, l + b) = Along(r, i, b - c)
      /\ PointAt(r, l + s) = Along(r, i, s - c)
  <2>1. ASSUME NEW x \in c..SegmentEnd(r, i)  PROVE PointAt(r, l + x) = Along(r, i, x - c)
    BY PointOnStretch
  <2> QED BY <1>3, <2>1
<1>6. ASSUME NEW x \in Int, NEW y \in Int
      PROVE  Minus(Along(r, i, y - c), Along(r, i, x - c)) = <<(y - x) * d[1], (y - x) * d[2]>>
  <2>1. x - c \in Int /\ y - c \in Int /\ (y - c) - (x - c) = y - x
    BY <1>2
  <2>2. Minus(Along(r, i, y - c), Along(r, i, x - c))
          = <<((y - c) - (x - c)) * d[1], ((y - c) - (x - c)) * d[2]>>
    BY <2>1, AlongMoves
  <2> QED BY <2>1, <2>2
<1> DEFINE A == PointAt(r, l + a)
           B == PointAt(r, l + b)
           S == PointAt(r, l + s)
<1>7. Minus(S, A) = <<(s - a) * d[1], (s - a) * d[2]>> /\ Minus(B, A) = <<(b - a) * d[1], (b - a) * d[2]>>
  <2>1. S = Along(r, i, s - c) /\ A = Along(r, i, a - c) /\ B = Along(r, i, b - c)
    BY <1>5
  <2>2. /\ Minus(Along(r, i, s - c), Along(r, i, a - c)) = <<(s - a) * d[1], (s - a) * d[2]>>
        /\ Minus(Along(r, i, b - c), Along(r, i, a - c)) = <<(b - a) * d[1], (b - a) * d[2]>>
    BY <1>3, <1>6
  <2> HIDE DEF A, B, S, l, d, c
  <2> QED BY <2>1, <2>2
<1>8. Nearest(r, l + a, l + b, S) = l + a + Bounded(Dot(Minus(S, A), Direction(A, B)), 0, (l + b) - (l + a))
  BY DEF Nearest
<1>9. Direction(A, B) = <<Unit((b - a) * d[1]), Unit((b - a) * d[2])>>
  <2>1. B[1] - A[1] = (b - a) * d[1] /\ B[2] - A[2] = (b - a) * d[2]
    BY <1>7 DEF Minus
  <2> QED BY <2>1 DEF Direction
<1> HIDE DEF A, B, S, l, d, c
<1>10. CASE a = b
  <2>1. Dot(Minus(S, A), Direction(A, B)) \in Int /\ (l + b) - (l + a) = 0
    <3>1. s - a = 0
      BY <1>3, <1>10
    <3>2. (s - a) * d[1] = 0 /\ (s - a) * d[2] = 0
      <4>1. 0 * d[1] = 0 /\ 0 * d[2] = 0
        BY <1>4
      <4> QED BY <3>1, <4>1
    <3>3. Minus(S, A) = <<0, 0>>
      BY <1>7, <3>2
    <3>4. Unit((b - a) * d[1]) \in Int /\ Unit((b - a) * d[2]) \in Int
      BY DEF Unit
    <3> QED BY <1>3, <1>9, <1>10, <3>3, <3>4 DEF Dot
  <2>2. Bounded(Dot(Minus(S, A), Direction(A, B)), 0, (l + b) - (l + a)) = 0
    BY <2>1 DEF Bounded, Lesser, Greater
  <2> QED BY <1>3, <1>8, <1>10, <2>2 DEF S, l
<1>11. CASE a < b
  <2>1. Unit((b - a) * d[1]) = d[1] /\ Unit((b - a) * d[2]) = d[2]
    <3>1. b - a > 0 /\ b - a \in Int
      BY <1>3, <1>11
    <3>2. ASSUME NEW x \in {0, 1, -1}  PROVE Unit((b - a) * x) = x
      <4>1. (b - a) * 0 = 0 /\ (b - a) * 1 = b - a /\ (b - a) * (-1) = -(b - a)
        BY <3>1
      <4> QED BY <3>1, <4>1 DEF Unit
    <3> QED BY <1>4, <3>2
  <2>2. Dot(Minus(S, A), Direction(A, B)) = s - a
    <3>1. (s - a) * d[1] * d[1] + (s - a) * d[2] * d[2] = s - a
      <4>1. CASE d[1] = 0 /\ d[2] \in {1, -1}
        BY <1>3, <4>1
      <4>2. CASE d[2] = 0 /\ d[1] \in {1, -1}
        BY <1>3, <4>2
      <4> QED BY <1>4, <4>1, <4>2
    <3> QED BY <1>7, <1>9, <2>1, <3>1 DEF Dot
  <2>3. Bounded(s - a, 0, (l + b) - (l + a)) = s - a
    BY <1>3 DEF Bounded, Lesser, Greater
  <2> QED BY <1>3, <1>8, <2>2, <2>3 DEF S, l
<1> QED
  BY <1>3, <1>10, <1>11

(* The tracker sees a robot on the route where it is: one of the stretches *)
(* of its window is the robot's own, and gives its arc length.             *)
Views(m, s) == {Candidate(m, x, TangentAt(m.route, s), TRUE) : x \in Stretches(m)}
Sees(m, s) ==
  \E x \in Stretches(m) : Candidate(m, x, TangentAt(m.route, s), TRUE)
                            = [s |-> s, lateral |-> 0, level |-> TRUE, turn |-> 0]

LEMMA WindowHolds ==
  ASSUME NEW m, m.route \in TrackableRoutes, m.progress \in 0..MissionLength(m.route) - 1,
         NEW s \in {m.progress, m.progress + 1}
  PROVE  /\ SearchStart(m) \in Int /\ SearchEnd(m) \in Int
         /\ SearchStart(m) <= m.progress /\ m.progress < SearchEnd(m) /\ s <= SearchEnd(m)
         /\ LapAt(m.route, s) \in LapsSeen(m)
         /\ s \in Int /\ (m.route.closed \/ s \in 0..m.route.total)
         /\ ~m.route.closed /\ s = m.progress => s < m.route.total
<1> DEFINE r == m.route
           p == m.progress
           M == MissionLength(r)
           t == r.total
           q == SearchStart(m) \div t
           k == SearchEnd(m) \div t
<1>1. /\ IsRoute(r) /\ t \in Nat \ {0} /\ M \in Nat \ {0} /\ r.closed \in BOOLEAN
      /\ ~r.closed => M = t
  <2>1. IsRoute(r) /\ t \in Nat \ {0} /\ M \in Nat \ {0}
    BY TrackableTyped
  <2>2. ~r.closed => M = t
    BY <2>1 DEF MissionLength
  <2> HIDE DEF M
  <2> QED BY <2>1, <2>2 DEF IsRoute
<1>2. p \in Nat /\ p < M /\ s \in Nat /\ s <= M /\ (s = p \/ s = p + 1)
  BY <1>1
<1>3. SearchAhead \in Nat /\ SearchAhead >= 1 /\ SearchBehind \in Nat
  BY RouteAssumption, RouteProgressAssumption
<1>4. /\ SearchStart(m) = IF r.closed THEN p - SearchBehind ELSE Greater(0, p - SearchBehind)
      /\ SearchEnd(m) = Lesser(M, p + IF r.closed THEN Lesser(SearchAhead, t) ELSE SearchAhead)
  BY DEF SearchStart, SearchEnd
<1> HIDE DEF M, p, r, t
<1>5. /\ SearchStart(m) \in Int /\ SearchEnd(m) \in Int
      /\ SearchStart(m) <= p /\ p < SearchEnd(m) /\ s <= SearchEnd(m)
      /\ ~r.closed => SearchStart(m) \in 0..t - 1 /\ SearchEnd(m) >= 0
  <2>1. CASE r.closed
    BY <1>1, <1>2, <1>3, <1>4, <2>1 DEF Greater, Lesser
  <2>2. CASE ~r.closed
    BY <1>1, <1>2, <1>3, <1>4, <2>2 DEF Greater, Lesser
  <2> QED BY <1>1, <2>1, <2>2
<1>6. q \in Int /\ k \in Int
  BY <1>1, <1>5
<1>7. IF r.closed THEN LapAt(r, s) \in q..k ELSE LapAt(r, s) = 0
  <2>1. CASE r.closed
    <3> DEFINE l == s \div t
    <3>1. l \in Int
      BY <1>1, <1>2
    <3>2. q <= l /\ l <= k
      <4>1. SearchStart(m) <= s /\ s <= SearchEnd(m) /\ s \in Int
        BY <1>2, <1>5
      <4> QED BY <1>1, <1>5, <4>1, DivMonotone
    <3>3. LapAt(r, s) = l
      BY <2>1 DEF LapAt, t
    <3> HIDE DEF l, q, k
    <3> QED BY <1>6, <2>1, <3>1, <3>2, <3>3
  <2>2. CASE ~r.closed
    BY <2>2 DEF LapAt
  <2> QED BY <1>1, <2>1, <2>2
<1>8. LapAt(r, s) \in LapsSeen(m)
  BY <1>7 DEF LapsSeen, q, k, t, r
<1>9. r.closed \/ s \in 0..t
  BY <1>1, <1>2
<1>10. ~r.closed /\ s = p => s < t
  BY <1>1, <1>2
<1> QED
  BY <1>2, <1>5, <1>8, <1>9, <1>10 DEF r, p, t

LEMMA OwnStretch ==
  ASSUME NEW m, m.route \in TrackableRoutes, IsPath(m.route),
         m.progress \in 0..MissionLength(m.route) - 1,
         NEW s \in {m.progress, m.progress + 1}, robot' = PointAt(m.route, s)
  PROVE  Sees(m, s)
<1> DEFINE r == m.route
           t == r.total
           i == SegmentIndex(r, s)
           lap == LapAt(r, s)
           o == s - lap * t
           c == r.cum[i]
           e == SegmentEnd(r, i)
           x == Stretch(m, lap, i)
           a == Greater(SearchStart(m), lap * t + c) - lap * t
           b == Lesser(SearchEnd(m), lap * t + e) - lap * t
<1>1. /\ SearchStart(m) \in Int /\ SearchEnd(m) \in Int
      /\ SearchStart(m) <= m.progress /\ m.progress < SearchEnd(m) /\ s <= SearchEnd(m)
      /\ lap \in LapsSeen(m) /\ s \in Int /\ (r.closed \/ s \in 0..t)
      /\ ~r.closed /\ s = m.progress => s < t
  BY WindowHolds
<1>2. /\ i \in Segments(r) /\ lap \in Int /\ (r.closed \/ lap = 0)
      /\ o \in c..e /\ s = lap * t + o
      /\ r.closed \/ s < t => o < e
  <2>1. IsPath(r) /\ s \in Int /\ (r.closed \/ s \in 0..t)
    BY <1>1
  <2> HIDE DEF r
  <2> QED BY <2>1, OnTheWay DEF o
<1>3. IsRoute(r) /\ r.closed \in BOOLEAN /\ t \in Nat
  <2>1. IsRoute(r)
    BY DEF IsPath
  <2> QED BY <2>1 DEF IsRoute
<1>4. c \in Nat /\ e \in Nat /\ c < e
  BY <1>2, <1>3, RouteLength
<1>5. lap * t \in Int
  BY <1>2, <1>3
<1>6. m.progress \in Int
  <2>1. MissionLength(m.route) \in Nat
    BY TrackableTyped
  <2> QED BY <2>1
<1>7. x.i = i /\ x.from = Greater(SearchStart(m), lap * t + c) /\ x.to = Lesser(SearchEnd(m), lap * t + e)
  BY DEF Stretch
<1>8. s = m.progress => o < e
  BY <1>1, <1>2, <1>3
<1>9. s = m.progress \/ s = m.progress + 1
  OBVIOUS
<1> DEFINE l == lap * t
           u == SearchStart(m)
           v == SearchEnd(m)
<1>10. /\ a \in c..e /\ b \in c..e /\ o \in a..b
       /\ x.from = l + a /\ x.to = l + b /\ l + a <= l + b /\ l + b > u
  <2>1. /\ u \in Int /\ v \in Int /\ u <= m.progress /\ m.progress < v /\ s <= v /\ l \in Int
        /\ s = l + o /\ o \in c..e
    BY <1>1, <1>2, <1>5
  <2>2. a = Greater(u, l + c) - l /\ b = Lesser(v, l + e) - l
    OBVIOUS
  <2>3. x.from = Greater(u, l + c) /\ x.to = Lesser(v, l + e)
    BY <1>7
  <2> HIDE DEF a, b, c, e, o, l, u, v, x
  <2>4. o \in Int /\ c <= o /\ o <= e
    BY <1>4, <2>1
  <2>5. u <= l + o /\ l + o <= v
    BY <1>6, <1>9, <2>1, <2>4
  <2>6. Greater(u, l + c) \in Int /\ Greater(u, l + c) >= u /\ Greater(u, l + c) >= l + c
        /\ Greater(u, l + c) <= l + o
    BY <1>4, <2>1, <2>4, <2>5 DEF Greater
  <2>7. Lesser(v, l + e) \in Int /\ Lesser(v, l + e) <= v /\ Lesser(v, l + e) <= l + e
        /\ Lesser(v, l + e) >= l + o
    BY <1>4, <2>1, <2>4, <2>5 DEF Lesser
  <2>8. Lesser(v, l + e) > u
    <3>1. CASE s = m.progress
      <4>1. l + e > u /\ v > u
        BY <1>4, <1>6, <1>8, <2>1, <2>4, <3>1
      <4> QED BY <4>1 DEF Lesser
    <3>2. CASE s = m.progress + 1
      BY <1>6, <2>1, <2>4, <2>7, <3>2
    <3> QED BY <1>9, <3>1, <3>2
  <2> QED BY <1>4, <2>1, <2>2, <2>3, <2>4, <2>6, <2>7, <2>8
<1>11. x \in Stretches(m)
  BY <1>1, <1>2, <1>10 DEF Stretches
<1>12. Nearest(r, l + a, l + b, PointAt(r, l + o)) = l + o
  <2>1. IsPath(r) /\ i \in Segments(r) /\ lap \in Int /\ (r.closed \/ lap = 0)
        /\ a \in r.cum[i]..SegmentEnd(r, i) /\ b \in r.cum[i]..SegmentEnd(r, i) /\ o \in a..b
    BY <1>2, <1>10
  <2> HIDE DEF r, i, lap, a, b, o
  <2> QED BY <2>1, NearestOnStretch DEF l, t
<1>13. Nearest(r, x.from, x.to, robot') = s
  <2>1. l + o = s /\ robot' = PointAt(r, s)
    BY <1>2
  <2> HIDE DEF a, b, c, e, o, l, u, v, x, r
  <2> QED BY <1>10, <1>12, <2>1
<1>14. Square(PointAt(r, s), robot') = 0
  <2>1. PointAt(r, s) \in Places
    BY <1>1, <1>3, PointTyped
  <2>2. Square(PointAt(r, s), PointAt(r, s)) = 0
    BY <2>1 DEF Square, Minus, Dot, Places
  <2> QED BY <2>2
<1>15. 1 - Dot(TangentAt(r, s), Direction(r.pts[x.i], NextVertex(r, x.i))) = 0
  <2>1. /\ Dot(TangentAt(r, s), TangentAt(r, s)) = 1
        /\ TangentAt(r, s) = Direction(r.pts[i], NextVertex(r, i))
    BY <1>1, TangentTyped
  <2> QED BY <1>7, <2>1
<1>16. Candidate(m, x, TangentAt(r, s), TRUE) = [s |-> s, lateral |-> 0, level |-> TRUE, turn |-> 0]
  <2> HIDE DEF x
  <2> QED BY <1>13, <1>14, <1>15 DEF Candidate
<1> QED
  BY <1>11, <1>16 DEF Sees

LEMMA SquareApart ==
  ASSUME NEW p \in Places, NEW q \in Places, Square(p, q) = 0
  PROVE  p = q
<1>1. PICK a, b, c, d \in Int : p = <<a, b>> /\ q = <<c, d>>
  BY DEF Places
<1>2. (a - c) * (a - c) + (b - d) * (b - d) = 0
  BY <1>1 DEF Square, Dot, Minus
<1>3. ASSUME NEW x \in Int  PROVE x * x \in Nat /\ (x # 0 => x * x > 0)
  OBVIOUS
<1>4. a - c = 0 /\ b - d = 0
  BY <1>2, <1>3
<1> QED
  BY <1>1, <1>4

(* A lane is narrower than ten windows are long: then the lateral distance *)
(* decides between two candidates of a lane, and the detour between two of *)
(* no lateral distance.                                                    *)
LaneIsNarrow == MaxLateral < 10 * Greater(SearchAhead, SearchBehind)

LEMMA LanesNumbers ==
  ASSUME LaneIsNarrow, NEW m, m.progress \in Int, NEW c, c.s \in Int, c.lateral \in Nat,
         NEW q, q = MaxLateral * MaxLateral, NEW d, d = c.s - m.progress
  PROVE  /\ q \in Nat /\ q > 0
         /\ Score(m, c) \in Nat
         /\ c.lateral = 0 => Score(m, c) = d * d * q
         /\ c.lateral # 0 => Score(m, c) > q
<1> DEFINE w == Greater(SearchAhead, SearchBehind)
           k == w * w
           h == c.lateral
<1>1. MaxLateral \in Nat /\ MaxLateral > 0 /\ w \in Nat /\ MaxLateral < 10 * w /\ w > 0
  <2>1. MaxLateral \in Nat \ {0} /\ w \in Nat
    BY RouteProgressAssumption DEF Greater
  <2> QED BY <2>1 DEF LaneIsNarrow
<1>2. d \in Int /\ h \in Nat
  OBVIOUS
<1>3. Score(m, c) = 100 * h * w * w + d * d * MaxLateral * MaxLateral
  BY DEF Score
<1> HIDE DEF w, h
<1>4. k \in Nat /\ q \in Nat /\ q > 0 /\ q < 100 * k
  <2>1. \A a, b \in Nat : a * b \in Nat
    OBVIOUS
  <2>2. k \in Nat /\ q \in Nat
    BY <1>1, <2>1
  <2>3. q > 0
    BY <1>1
  <2>4. MaxLateral * MaxLateral < (10 * w) * (10 * w)
    BY <1>1
  <2>5. (10 * w) * (10 * w) = 100 * (w * w)
    BY <1>1
  <2> QED BY <2>2, <2>3, <2>4, <2>5
<1>5. 100 * h * w * w = 100 * (h * k) /\ d * d * MaxLateral * MaxLateral = d * d * q
  <2>1. \A a, b, f \in Int : a * b * f = a * (b * f)
    OBVIOUS
  <2>2. 100 * h \in Int /\ d * d \in Int /\ w \in Int /\ MaxLateral \in Int
    BY <1>1, <1>2
  <2>3. 100 * h * w * w = (100 * h) * (w * w)
    BY <2>1, <2>2
  <2>4. d * d * MaxLateral * MaxLateral = (d * d) * (MaxLateral * MaxLateral)
    BY <2>1, <2>2
  <2>5. (100 * h) * k = 100 * (h * k)
    BY <1>2, <1>4, <2>1
  <2> QED BY <2>3, <2>4, <2>5
<1> HIDE DEF k
<1>6. h * k \in Nat /\ d * d * q \in Nat /\ (h # 0 => h * k >= k) /\ (h = 0 => h * k = 0)
  <2>1. \A a, b \in Nat : a * b \in Nat
    OBVIOUS
  <2>2. d * d \in Nat
    BY <1>2
  <2>3. h # 0 => h * k >= k
    BY <1>2, <1>4
  <2>4. h = 0 => h * k = 0
    BY <1>4
  <2> QED BY <1>2, <1>4, <2>1, <2>2, <2>3, <2>4
<1>7. Score(m, c) = 100 * (h * k) + d * d * q
  BY <1>3, <1>5
<1> DEFINE y == h * k
           z == d * d * q
<1>8. y \in Nat /\ z \in Nat /\ Score(m, c) = 100 * y + z /\ (h # 0 => y >= k) /\ (h = 0 => y = 0)
  BY <1>6, <1>7
<1> HIDE DEF y, z
<1>9. /\ Score(m, c) \in Nat /\ (h = 0 => Score(m, c) = z) /\ (h # 0 => Score(m, c) > q)
  BY <1>2, <1>4, <1>8
<1> QED
  BY <1>4, <1>9 DEF z, h

LEMMA BestIsHere ==
  ASSUME LaneIsNarrow, NEW m, m.route \in TrackableRoutes, IsPath(m.route),
         m.progress \in 0..MissionLength(m.route) - 1,
         PointAt(m.route, m.progress + 1) # PointAt(m.route, m.progress - 1),
         NEW s \in {m.progress, m.progress + 1}, robot' = PointAt(m.route, s),
         NEW cands, cands = Views(m, s),
         NEW V, V = {c \in cands : Valid(c)}
  PROVE  V # {} /\ Best(m, V).s = s
<1> DEFINE r == m.route
           p == m.progress
           q == MaxLateral * MaxLateral
           own == [s |-> s, lateral |-> 0, level |-> TRUE, turn |-> 0]
<1>1. /\ IsRoute(r) /\ p \in Nat /\ s \in Int /\ (s = p \/ s = p + 1)
      /\ r.closed \/ p \in 0..r.total - 1
  <2>1. IsRoute(r) /\ MissionLength(r) \in Nat /\ (~r.closed => MissionLength(r) = r.total)
    <3>1. IsRoute(r) /\ r.total \in Nat /\ MissionLength(r) \in Nat
      BY TrackableTyped
    <3> QED BY <3>1 DEF MissionLength
  <2> QED BY <2>1
<1>2. PointAt(r, s) \in Places /\ robot' \in Places
  BY <1>1, PointTyped
<1>3. Sees(m, s)
  BY OwnStretch
<1>4. own \in cands
  BY <1>3 DEF Sees, Views
<1>5. q \in Nat /\ q > 0
  <2>1. MaxLateral \in Nat \ {0}
    BY RouteProgressAssumption
  <2> QED BY <2>1
<1>6. own \in V
  <2>1. own.lateral = 0 /\ own.turn = 0 /\ own.level
    OBVIOUS
  <2>2. own.lateral <= MaxLateral * MaxLateral
    BY <1>5, <2>1
  <2> HIDE DEF own
  <2>3. Valid(own)
    BY <2>1, <2>2 DEF Valid, Aligned, InLane
  <2> QED BY <1>4, <2>3
<1>7. ASSUME NEW c \in V
      PROVE  /\ c.s \in Int /\ c.lateral \in Nat
             /\ c.lateral = Square(PointAt(r, c.s), PointAt(r, s))
  <2> DEFINE yes == TRUE
  <2>1. PICK x \in Stretches(m) : c = Candidate(m, x, TangentAt(r, s), yes)
    BY DEF Views
  <2> HIDE DEF yes
  <2>2. c.s \in Int /\ c.lateral \in Nat
    BY <1>1, <1>2, <2>1, CandidateTyped
  <2>3. c.lateral = Square(PointAt(r, c.s), robot')
    BY <2>1 DEF Candidate
  <2> QED BY <2>2, <2>3
<1>8. ASSUME NEW c \in V
      PROVE  /\ Score(m, c) \in Nat
             /\ c.s # s => Score(m, own) < Score(m, c)
             /\ c.s = s => Score(m, own) = Score(m, c)
  <2> DEFINE d == c.s - p
             g == s - p
  <2>a. c.s \in Int /\ c.lateral \in Nat
    BY <1>7
  <2>b. m.progress \in Int
    BY <1>1
  <2>0. c.s \in Int /\ p \in Int /\ d \in Int
    BY <2>a, <2>b
  <2>1. /\ Score(m, c) \in Nat /\ q \in Nat /\ q > 0
        /\ c.lateral = 0 => Score(m, c) = d * d * q
        /\ c.lateral # 0 => Score(m, c) > q
    <3>1. /\ m.progress \in Int /\ c.s \in Int /\ c.lateral \in Nat
          /\ q = MaxLateral * MaxLateral /\ d = c.s - m.progress
      BY <2>a, <2>b
    <3> HIDE DEF q, d
    <3> QED BY ONLY LaneIsNarrow, <3>1, LanesNumbers
  <2>2. Score(m, own) = g * g * q
    <3>1. /\ m.progress \in Int /\ own.s \in Int /\ own.lateral \in Nat /\ own.lateral = 0
          /\ q = MaxLateral * MaxLateral /\ g = own.s - m.progress
      BY <1>1
    <3> HIDE DEF own, q, g
    <3> QED BY ONLY LaneIsNarrow, <3>1, LanesNumbers
  <2>3. (g = 0 \/ g = 1) /\ g * g * q \in Nat /\ g * g * q <= q
    <3>1. g = 0 \/ g = 1
      BY <1>1
    <3> QED BY <2>1, <3>1
  <2>4. ASSUME c.s = s  PROVE Score(m, own) = Score(m, c)
    <3>1. c.lateral = 0
      <4>1. Square(PointAt(r, s), PointAt(r, s)) = 0
        BY <1>2 DEF Square, Minus, Dot, Places
      <4> QED BY <1>7, <2>4, <4>1
    <3> QED BY <2>1, <2>2, <2>4, <3>1
  <2>5. ASSUME c.s # s, c.lateral # 0  PROVE Score(m, own) < Score(m, c)
    BY <2>1, <2>2, <2>3, <2>5
  <2>6. ASSUME c.s # s, c.lateral = 0  PROVE Score(m, own) < Score(m, c)
    <3>1. PointAt(r, c.s) = PointAt(r, s)
      <4>1. PointAt(r, c.s) \in Places
        BY <1>1, <1>7, PointTyped
      <4>2. Square(PointAt(r, c.s), PointAt(r, s)) = 0
        BY <1>7, <2>6
      <4> HIDE DEF r
      <4> QED BY <1>2, <4>1, <4>2, SquareApart
    <3>2. PointAt(r, p + 1) # PointAt(r, p)
      <4>1. IsPath(r) /\ p \in Int /\ (r.closed \/ p \in 0..r.total - 1)
        BY <1>1
      <4> HIDE DEF r, p
      <4> QED BY <4>1, UnitStep
    <3>3. CASE g = 0
      <4>1. s = p /\ d \in Int /\ d # 0
        <5>1. s = p
          BY <1>1, <3>3
        <5> QED BY <2>0, <2>6, <5>1
      <4>2. d * d >= 1
        BY <4>1
      <4>3. d * d * q >= 1 * q
        BY <1>5, <4>1, <4>2
      <4> QED BY <2>1, <2>2, <2>6, <3>3, <4>3
    <3>4. CASE g = 1
      <4>1. s = p + 1
        BY <1>1, <3>4
      <4>2. c.s # p /\ c.s # p - 1 /\ c.s # p + 1
        BY <2>6, <3>1, <3>2, <4>1
      <4>3. d \in Int /\ (d >= 2 \/ d <= -2)
        BY <2>0, <4>2
      <4>4. d * d >= 4
        BY <4>3
      <4>5. d * d * q >= 4 * q
        BY <1>5, <4>3, <4>4
      <4> QED BY <1>5, <2>1, <2>2, <2>6, <3>4, <4>5
    <3> QED BY <2>3, <3>3, <3>4
  <2> QED BY <2>1, <2>4, <2>5, <2>6
<1>9. \A d \in V : Score(m, own) < Score(m, d) \/ (Score(m, own) = Score(m, d) /\ own.s <= d.s)
  <2>1. own.s = s /\ s <= s
    BY <1>1
  <2> HIDE DEF own
  <2> QED BY <1>8, <2>1
<1>10. LET b == Best(m, V)
       IN  b \in V /\ \A d \in V : Score(m, b) < Score(m, d) \/ (Score(m, b) = Score(m, d) /\ b.s <= d.s)
  <2> HIDE DEF own
  <2> QED BY <1>6, <1>9 DEF Best
<1>11. Best(m, V).s = s
  <2> DEFINE b == Best(m, V)
  <2>1. b \in V /\ (Score(m, b) < Score(m, own) \/ Score(m, b) = Score(m, own))
    BY <1>6, <1>10
  <2> HIDE DEF b, own
  <2>2. Score(m, b) \in Nat /\ Score(m, own) \in Nat /\ (b.s # s => Score(m, own) < Score(m, b))
    BY <1>6, <1>8, <2>1
  <2>3. b.s = s
    BY <2>1, <2>2
  <2> QED BY <2>3 DEF b
<1> QED
  BY <1>6, <1>11

(* A unit step into the next lap goes over the seam.                       *)
LEMMA SeamStep ==
  ASSUME NEW t \in Nat \ {0}, NEW p \in Nat, NEW q, q = p + 1, q \div t > p \div t
  PROVE  p % t = t - 1 /\ q % t = 0 /\ q \div t = p \div t + 1
<1> DEFINE a == p \div t
           b == p % t
           c == q \div t
           d == q % t
<1>1. p \in Int /\ q \in Int /\ q = p + 1 /\ c > a
  OBVIOUS
<1>2. b \in 0..t - 1 /\ a \in Int /\ p = t * a + b
  BY <1>1, ModBounds
<1>3. d \in 0..t - 1 /\ c \in Int /\ q = t * c + d
  BY <1>1, ModBounds
<1> HIDE DEF a, b, c, d
<1> DEFINE k == c - a
<1>4. k \in Int /\ k >= 1 /\ t * c = t * a + t * k
  BY <1>1, <1>2, <1>3
<1> HIDE DEF k
<1>5. t * k + d = b + 1 /\ t * k \in Int
  <2>1. t * a \in Int /\ t * k \in Int
    BY <1>2, <1>4
  <2> QED BY <1>1, <1>2, <1>3, <1>4, <2>1
<1>6. CASE k >= 2
  <2>1. t * k >= t * 2
    BY <1>4, <1>6
  <2> QED BY <1>2, <1>3, <1>5, <2>1
<1>7. CASE k = 1
  <2>1. t * k = t
    BY <1>7
  <2>2. b = t - 1 /\ d = 0
    BY <1>2, <1>3, <1>5, <2>1
  <2>3. c = a + 1
    BY <1>2, <1>3, <1>7 DEF k
  <2> QED BY <2>2, <2>3 DEF a, b, c, d
<1> QED
  BY <1>4, <1>6, <1>7

(* The poses come unit by unit, and none is too short for the deadband; a  *)
(* route does not turn back on itself within a unit, and the window on it  *)
(* has no more segments than may be checked.                               *)
FinelyFollowed ==
  /\ Stride = 1 /\ Deadband <= 1 /\ LaneIsNarrow
  /\ \A r \in TrackableRoutes :
       /\ OnAxes(r)
       /\ \A s \in 0..MissionLength(r) - 1 : PointAt(r, s + 1) # PointAt(r, s - 1)
       /\ \A s \in 0..MissionLength(r) :
            Cardinality(Stretches([route |-> r, progress |-> s])) \in 0..MaxChecks

FollowerExact ==
  followed # Wandered =>
    /\ followed \in 0..MissionLength(mission.route) /\ mission.progress = followed
    /\ robot = PointAt(mission.route, followed) /\ mission.last = robot

LEMMA TrackablePath ==
  ASSUME FinelyFollowed, NEW r \in TrackableRoutes
  PROVE  IsPath(r)
<1>1. PICK m \in MissionRoutes : RouteAccepted(m.points, m.closed) /\ r = RouteOf(m.points, m.closed)
  BY DEF TrackableRoutes
<1>2. m.points \in Seq(Places) /\ m.closed \in BOOLEAN
  BY RouteProgressAssumption DEF Places
<1>3. IsRoute(r) /\ Measured(r)
  BY <1>1, <1>2, RouteTyped
<1> QED
  BY <1>3 DEF FinelyFollowed, IsPath

(* The step of a follower is credited, with at least its length.           *)
LEMMA StepCredited ==
  ASSUME FinelyFollowed, MissionInv, FollowerExact, followed # Wandered,
         ~mission.completed,
         NEW s \in {followed, followed + 1}, robot' = PointAt(mission.route, s)
  PROVE  LET m == Credited(mission, robot')
         IN  /\ m.route = mission.route /\ m.progress = followed /\ m.last = robot'
             /\ HasCredit(m) /\ {"completed", "verdict"} \subseteq DOMAIN m
             /\ s - followed <= Lesser(MaxAdvance, m.credit)
             /\ s # followed => MovedForward(mission, m)
             /\ followed \in Nat /\ followed < MissionLength(mission.route)
<1> DEFINE r == mission.route
           p == followed
           at == robot'
           m == Credited(mission, at)
<1>1. /\ HasCredit(mission) /\ {"completed", "verdict"} \subseteq DOMAIN mission
      /\ r \in TrackableRoutes /\ Ends(mission)
  BY DEF MissionInv, MissionTyped
<1>2. /\ p \in 0..MissionLength(r) /\ mission.progress = p
      /\ robot = PointAt(r, p) /\ mission.last = robot
  BY DEF FollowerExact
<1>3. IsPath(r) /\ IsRoute(r) /\ r.total \in Nat \ {0} /\ MissionLength(r) \in Nat \ {0}
  BY <1>1, TrackablePath, TrackableTyped
<1>4. p \in Nat /\ p < MissionLength(r)
  <2>1. mission.progress # MissionLength(r)
    <3>1. mission.completed = (mission.progress = MissionLength(r))
      BY <1>1 DEF Ends
    <3> HIDE DEF r
    <3> QED BY <3>1
  <2>2. p # MissionLength(r) /\ p \in 0..MissionLength(r) /\ MissionLength(r) \in Nat
    BY <1>2, <1>3, <2>1
  <2> HIDE DEF r, p
  <2> QED BY <2>2
<1>5. /\ HasCredit(m) /\ m.route = r /\ m.progress = p
      /\ DOMAIN m = DOMAIN mission
  <2>1. at \in Places
    <3>1. s \in Int
      BY <1>4
    <3> QED BY <1>3, <3>1, PointTyped
  <2> QED BY <1>1, <1>2, <2>1, CreditedPays
<1>6. MaxAdvance \in Nat /\ MaxAdvance >= 1 /\ CreditScale \in Nat /\ CreditScale >= 1
      /\ m.credit \in Nat /\ mission.credit \in Nat
  BY <1>1, <1>5, MissionNumbers DEF HasCredit
<1>7. CASE s = p
  <2>1. ~Moved(mission, at)
    BY <1>2, <1>7 DEF Moved
  <2>2. m = mission
    BY <2>1 DEF Credited
  <2>3. s - p = 0
    BY <1>4, <1>7
  <2>4. 0 <= Lesser(MaxAdvance, m.credit)
    BY <1>6 DEF Lesser
  <2> QED BY <1>1, <1>2, <1>4, <1>5, <1>7, <2>2, <2>3, <2>4
<1>8. CASE s = p + 1
  <2>1. r.closed \/ p \in 0..r.total - 1
    <3>1. ~r.closed => MissionLength(r) = r.total
      BY <1>3 DEF MissionLength
    <3> QED BY <1>3, <1>4, <3>1
  <2>2. /\ Minus(PointAt(r, p + 1), PointAt(r, p)) = TangentAt(r, p)
        /\ Square(PointAt(r, p + 1), PointAt(r, p)) = 1
        /\ PointAt(r, p + 1) # PointAt(r, p)
    <3>1. IsPath(r) /\ p \in Int
      BY <1>3, <1>4
    <3> HIDE DEF r, p
    <3> QED BY <2>1, <3>1, UnitStep
  <2>3. Minus(at, mission.last) = TangentAt(r, p) /\ Square(at, mission.last) = 1 /\ at # mission.last
    BY <1>2, <1>8, <2>2
  <2>4. Moved(mission, at)
    <3>1. Deadband \in Nat /\ Deadband <= 1
      BY RouteAssumption DEF FinelyFollowed
    <3>2. 1 >= Deadband * Deadband
      <4>1. Deadband = 0 \/ Deadband = 1
        BY <3>1
      <4> QED BY <4>1
    <3> QED BY <2>3, <3>2 DEF Moved
  <2>5. Root(1) = 1
    <3>1. \A k \in 0..1 : k * k <= 1 /\ 1 < (k + 1) * (k + 1) <=> k = 1
      <4>1. \A k \in 0..1 : k = 0 \/ k = 1
        OBVIOUS
      <4> QED BY <4>1
    <3> QED BY <3>1 DEF Root
  <2> DEFINE g == Lesser(MaxAdvance, mission.credit + CreditScale * Root(Square(at, mission.last)))
  <2>6. m = [mission EXCEPT !.credit = g, !.last = at]
    BY <2>4 DEF Credited
  <2>7. g = Lesser(MaxAdvance, mission.credit + CreditScale)
    <3>1. CreditScale * 1 = CreditScale
      BY <1>6
    <3> QED BY <2>3, <2>5, <3>1
  <2>8. m.last = at /\ m.credit = g
    <3>1. TrackerFields \subseteq DOMAIN mission
      BY <1>1 DEF HasCredit
    <3> HIDE DEF g, m
    <3> QED BY <2>6, <3>1 DEF TrackerFields
  <2>9. 1 <= Lesser(MaxAdvance, m.credit)
    <3> HIDE DEF g, m
    <3> QED BY <1>6, <2>7, <2>8 DEF Lesser
  <2>10. MovedForward(mission, m)
    <3>1. Dot(TangentAt(r, p), TangentAt(r, p)) = 1
      BY <1>3, <1>4, TangentTyped
    <3>2. Dot(Minus(at, mission.last), TangentAt(m.route, m.progress)) = 1
      BY <1>5, <2>3, <3>1
    <3> QED BY <2>4, <3>2 DEF MovedForward
  <2>11. s - p = 1
    BY <1>4, <1>8
  <2> QED BY <1>1, <1>4, <1>5, <2>8, <2>9, <2>10, <2>11
<1> QED
  BY <1>7, <1>8

LEMMA StepConfirmed ==
  ASSUME FinelyFollowed, NEW old, NEW m, m.route \in TrackableRoutes,
         HasCredit(m), {"completed", "verdict"} \subseteq DOMAIN m,
         m.progress \in 0..MissionLength(m.route) - 1,
         NEW s \in {m.progress, m.progress + 1}, robot' = PointAt(m.route, s),
         s - m.progress <= Lesser(MaxAdvance, m.credit),
         s # m.progress => MovedForward(old, m),
         NEW cands, cands = Views(m, s)
  PROVE  LET u == Judged(old, m, cands)
         IN  u.progress = s /\ u.last = m.last /\ u.route = m.route
<1> DEFINE r == m.route
           p == m.progress
           V == {c \in cands : Valid(c)}
           b == Best(m, V)
           u == Judged(old, m, cands)
<1>1. /\ r.total \in Nat \ {0} /\ MissionLength(r) \in Nat \ {0} /\ IsPath(r)
      /\ p \in Nat /\ p < MissionLength(r) /\ s \in Nat /\ s <= MissionLength(r)
      /\ (s = p \/ s = p + 1)
  <2>1. r.total \in Nat \ {0} /\ MissionLength(r) \in Nat \ {0}
    BY TrackableTyped
  <2>2. IsPath(r)
    BY TrackablePath
  <2> QED BY <2>1, <2>2
<1>2. V # {} /\ b.s = s
  <2>1. LaneIsNarrow /\ PointAt(r, p + 1) # PointAt(r, p - 1)
    BY DEF FinelyFollowed
  <2> QED BY <1>1, <2>1, BestIsHere
<1>3. PICK own \in cands : Valid(own)
  BY <1>2
<1>4. /\ cands # {} /\ ~(\A x \in cands : ~InLane(x)) /\ ~(\A x \in cands : ~Aligned(x))
      /\ ~(\A x \in cands : ~Valid(x))
  BY <1>3 DEF Valid, Aligned
<1>5. Step(m, b) = s - p /\ s - p \in {0, 1}
  <2>1. Greater(0, s - p) = s - p /\ s - p \in {0, 1}
    BY <1>1 DEF Greater
  <2> HIDE DEF b
  <2> QED BY <1>2, <2>1 DEF Step
<1>6. WithinBudget(m, b)
  BY <1>5 DEF WithinBudget
<1>7. ThroughSeam(old, m, b)
  <2>1. SUFFICES ASSUME r.closed, s \div r.total > p \div r.total
                 PROVE  /\ NormalizeRouteS(r, p) >= r.total - SeamGate
                        /\ NormalizeRouteS(r, s) <= SeamGate
                        /\ MovedForward(old, m)
                        /\ s \div r.total = p \div r.total + 1
    <3> HIDE DEF b
    <3> QED BY <1>2, <2>1 DEF ThroughSeam, LapOf
  <2>2. SeamGate \in Nat \ {0}
    BY RouteProgressAssumption
  <2>3. s = p + 1 /\ s # p
    <3>1. CASE s = p
      <4>1. s \div r.total = p \div r.total /\ p \div r.total \in Int
        BY <1>1, <3>1
      <4> QED BY <2>1, <4>1
    <3>2. CASE s = p + 1
      BY <1>1, <3>2
    <3> QED BY <1>1, <3>1, <3>2
  <2>4. p % r.total = r.total - 1 /\ s % r.total = 0 /\ s \div r.total = p \div r.total + 1
    <3> DEFINE t == r.total
    <3>1. t \in Nat \ {0} /\ p \in Nat /\ s = p + 1 /\ s \div t > p \div t
      BY <1>1, <2>1, <2>3
    <3> HIDE DEF t, p
    <3>2. p % t = t - 1 /\ s % t = 0 /\ s \div t = p \div t + 1
      BY ONLY <3>1, SeamStep
    <3> QED BY <3>2 DEF t
  <2>5. NormalizeRouteS(r, p) = r.total - 1 /\ NormalizeRouteS(r, s) = 0
    BY <2>1, <2>4 DEF NormalizeRouteS
  <2>6. r.total - 1 >= r.total - SeamGate /\ 0 <= SeamGate
    BY <1>1, <2>2
  <2> QED BY <2>3, <2>4, <2>5, <2>6
<1>8. u = Confirm(m, b)
  <2> HIDE DEF b
  <2> QED BY <1>4, <1>6, <1>7 DEF Judged, b
<1>9. u.progress = s /\ u.last = m.last /\ u.route = r
  <2> DEFINE S == Lesser(MissionLength(r), p + Step(m, b))
             g == Greater(0, m.credit - Step(m, b))
             f == S >= MissionLength(r)
             v == IF f THEN "completed" ELSE "accepted"
  <2>1. S = s
    <3>1. p + (s - p) = s
      BY <1>1
    <3>2. p + Step(m, b) = s
      BY <1>5, <3>1
    <3> HIDE DEF r, p, b
    <3> QED BY <1>1, <3>2 DEF Lesser
  <2>2. u = [m EXCEPT !.progress = S, !.credit = g, !.completed = f, !.verdict = v]
    BY <1>8 DEF Confirm
  <2>3. TrackerFields \subseteq DOMAIN m
    BY DEF HasCredit
  <2> HIDE DEF S, g, f, v, u
  <2> QED BY <2>1, <2>2, <2>3 DEF TrackerFields
<1> QED
  BY <1>9

LEMMA FollowerStep ==
  ASSUME FinelyFollowed, MissionInv, FollowerExact, Follow
  PROVE  FollowerExact'
<1> DEFINE r == mission.route
           p == followed
           m == Credited(mission, robot')
<1>1. PICK s \in p..Lesser(p + Stride, MissionLength(r)) :
        p # Wandered /\ followed' = s /\ robot' = PointAt(r, s) /\ Update(TangentAt(r, s), TRUE)
  BY DEF Follow
<1>2. /\ HasCredit(mission) /\ {"completed", "verdict"} \subseteq DOMAIN mission
      /\ r \in TrackableRoutes /\ Ends(mission) /\ MissionLength(r) \in Nat \ {0} /\ IsRoute(r)
  BY TrackableTyped DEF MissionInv, MissionTyped
<1>3. /\ p \in 0..MissionLength(r) /\ mission.progress = p
      /\ robot = PointAt(r, p) /\ mission.last = robot
  BY <1>1 DEF FollowerExact
<1>4. (s = p \/ s = p + 1) /\ s \in 0..MissionLength(r)
  <2>1. Stride = 1
    BY DEF FinelyFollowed
  <2> HIDE DEF r, p
  <2> QED BY <1>1, <1>2, <1>3, <2>1 DEF Lesser
<1>5. SUFFICES mission'.progress = s /\ mission'.last = robot' /\ mission'.route = r
  BY <1>1, <1>4, <1>5 DEF FollowerExact
<1>6. CASE mission.completed
  <2>1. p = MissionLength(r)
    <3>1. mission.completed = (mission.progress = MissionLength(r))
      BY <1>2 DEF Ends
    <3>2. mission.progress = MissionLength(r)
      <4> HIDE DEF r
      <4> QED BY <1>6, <3>1
    <3> QED BY <1>3, <3>2
  <2>2. s = p
    BY <1>2, <1>3, <1>4, <2>1
  <2>3. mission' = [mission EXCEPT !.verdict = "completed"]
    BY <1>1, <1>6 DEF Update
  <2>4. TrackerFields \subseteq DOMAIN mission
    BY <1>2 DEF HasCredit
  <2>5. mission'.progress = mission.progress /\ mission'.last = mission.last /\ mission'.route = r
    BY <2>3, <2>4 DEF TrackerFields
  <2> QED BY <1>1, <1>3, <2>2, <2>5
<1>7. CASE ~mission.completed
  <2>1. /\ m.route = r /\ m.progress = p /\ m.last = robot'
        /\ HasCredit(m) /\ {"completed", "verdict"} \subseteq DOMAIN m
        /\ s - p <= Lesser(MaxAdvance, m.credit)
        /\ s # p => MovedForward(mission, m)
        /\ p \in Nat /\ p < MissionLength(r)
    BY <1>1, <1>4, <1>7, StepCredited
  <2>2. Cardinality(Stretches(m)) \in 0..MaxChecks
    <3> HIDE DEF m
    <3>1. Cardinality(Stretches([route |-> r, progress |-> p])) \in 0..MaxChecks
      BY <1>2, <1>3 DEF FinelyFollowed
    <3>2. Stretches(m) = Stretches([route |-> r, progress |-> p])
      <4> DEFINE k == [route |-> r, progress |-> p]
      <4>1. k.route = m.route /\ k.progress = m.progress
        BY <2>1
      <4> HIDE DEF k
      <4>2. SearchStart(k) = SearchStart(m) /\ SearchEnd(k) = SearchEnd(m)
        BY <4>1 DEF SearchStart, SearchEnd
      <4>3. LapsSeen(k) = LapsSeen(m)
        BY <4>1, <4>2 DEF LapsSeen
      <4>4. \A lap, i : Stretch(k, lap, i) = Stretch(m, lap, i)
        BY <4>1, <4>2 DEF Stretch
      <4>5. Stretches(k) = Stretches(m)
        BY <4>1, <4>2, <4>3, <4>4 DEF Stretches
      <4> QED BY <4>5 DEF k
    <3> QED BY <3>1, <3>2
  <2>3. ~(Cardinality(Stretches(m)) > MaxChecks)
    <3>1. MaxChecks \in Nat
      BY RouteProgressAssumption
    <3> HIDE DEF m
    <3> QED BY <2>2, <3>1
  <2>4. mission' = Judged(mission, m, Views(m, s))
    <3>1. mission' = Judged(mission, m, {Candidate(m, x, TangentAt(r, s), TRUE) : x \in Stretches(m)})
      BY <1>1, <1>7, <2>3 DEF Update
    <3> HIDE DEF m
    <3> QED BY <2>1, <3>1 DEF Views
  <2>5. mission'.progress = s /\ mission'.last = m.last /\ mission'.route = m.route
    <3>1. m.progress \in 0..MissionLength(m.route) - 1 /\ s \in {m.progress, m.progress + 1}
      <4> HIDE DEF m, r, p
      <4> QED BY <1>2, <1>4, <2>1
    <3> HIDE DEF m, r, p
    <3>2. /\ m.route \in TrackableRoutes /\ robot' = PointAt(m.route, s)
          /\ s - m.progress <= Lesser(MaxAdvance, m.credit)
          /\ s # m.progress => MovedForward(mission, m)
      BY <1>1, <1>2, <2>1, <2>4
    <3> QED BY <2>1, <2>4, <3>1, <3>2, StepConfirmed
  <2> QED BY <2>1, <2>5
<1> QED
  BY <1>6, <1>7

LEMMA FollowerStart == ProgressInit => FollowerExact
<1> SUFFICES ASSUME ProgressInit  PROVE FollowerExact
  OBVIOUS
<1>1. PICK r \in TrackableRoutes :
        robot = PointAt(r, 0) /\ mission = ResetMission(r, PointAt(r, 0)) /\ followed = 0
  BY DEF ProgressInit
<1>2. MissionLength(r) \in Nat
  BY TrackableTyped
<1>3. mission.route = r /\ mission.progress = 0 /\ mission.last = robot
  BY <1>1 DEF ResetMission
<1> QED
  BY <1>1, <1>2, <1>3 DEF FollowerExact

LEMMA FollowerExactStep ==
  FinelyFollowed /\ MissionInv /\ FollowerExact /\ [ProgressNext]_progressVars => FollowerExact'
<1> SUFFICES ASSUME FinelyFollowed, MissionInv, FollowerExact, [ProgressNext]_progressVars
             PROVE  FollowerExact'
  OBVIOUS
<1>1. CASE Follow
  BY <1>1, FollowerStep
<1>2. CASE Wander
  BY <1>2 DEF Wander, FollowerExact
<1>3. CASE UNCHANGED progressVars
  BY <1>3 DEF progressVars, FollowerExact
<1> QED
  BY <1>1, <1>2, <1>3 DEF ProgressNext

(* The gates never lose a robot that follows its route: on every lap, past *)
(* every lane that runs beside its own and over every seam, the search     *)
(* picks the place where the robot is, and the credit of its last unit     *)
(* pays for it (route_progress_tracker.cpp:426-465).                       *)
THEOREM FollowerIsNotLost == FinelyFollowed /\ ProgressSpec => []FollowerIsConfirmed
<1>1. FinelyFollowed => []FinelyFollowed
  <2>1. FinelyFollowed => FinelyFollowed'
    BY DEF FinelyFollowed, LaneIsNarrow
  <2> QED BY <2>1, PTL
<1>2. MissionInv /\ FollowerExact => FollowerIsConfirmed
  <2> SUFFICES ASSUME MissionInv, FollowerExact, followed # Wandered
               PROVE  /\ followed - mission.progress \in 0..Deadband
                      /\ mission.completed <=> mission.progress = MissionLength(mission.route)
    BY DEF FollowerIsConfirmed
  <2>1. followed \in Int /\ mission.progress = followed
    BY DEF MissionInv, MissionTyped, FollowerExact
  <2>2. followed - mission.progress = 0
    BY <2>1
  <2>3. 0 \in 0..Deadband
    BY RouteAssumption
  <2>4. mission.completed <=> mission.progress = MissionLength(mission.route)
    BY DEF MissionInv, Ends
  <2> QED BY <2>2, <2>3, <2>4
<1>3. MissionInv /\ [ProgressNext]_progressVars => MissionInv'
  BY MissionInvStep
<1> QED
  BY <1>1, <1>2, <1>3, MissionInvStart, FollowerStart, FollowerExactStep, PTL DEF ProgressSpec

(* Both sides of the property at once: the confirmed progress of a         *)
(* follower is its own, and that of any robot has been driven.             *)
THEOREM ProgressTrue == FinelyFollowed /\ MissionIsRecorded /\ ProgressSpec => []ProgressIsTrue
<1>1. FollowerIsConfirmed /\ ProgressIsEarned => ProgressIsTrue
  BY DEF ProgressIsTrue
<1> QED
  BY <1>1, FollowerIsNotLost, ProgressEarned, PTL

-----------------------------------------------------------------------------
(* The merge of the path into the reference route.                         *)

(* The number of elements below one, in a finite set of integers.          *)
Below(S, s) == Cardinality({u \in S : u < s})

(* Every element of a finite set of integers has a rank of its own.        *)
LEMMA Ranks ==
  ASSUME NEW S, S \subseteq Int, IsFiniteSet(S)
  PROVE  /\ Cardinality(S) \in Nat
         /\ \A s \in S : Below(S, s) \in 0..Cardinality(S) - 1
         /\ \A s, t \in S : Below(S, s) = Below(S, t) => s = t
<1>1. ASSUME NEW s \in Int
      PROVE  IsFiniteSet({u \in S : u < s}) /\ Below(S, s) \in Nat
  <2>1. {u \in S : u < s} \in SUBSET S
    OBVIOUS
  <2>2. IsFiniteSet({u \in S : u < s})
    BY <2>1, FS_Subset
  <2> QED BY <2>2, FS_CardinalityType DEF Below
<1>2. Cardinality(S) \in Nat
  BY FS_CardinalityType
<1>3. ASSUME NEW s \in S  PROVE Below(S, s) < Cardinality(S)
  <2> DEFINE T == {u \in S : u < s}
  <2>1. T \in SUBSET S /\ T # S
    OBVIOUS
  <2>2. Cardinality(T) <= Cardinality(S) /\ Cardinality(T) # Cardinality(S)
    BY <2>1, FS_Subset
  <2>3. Below(S, s) = Cardinality(T)
    BY DEF Below
  <2>4. Cardinality(T) \in Nat
    <3>1. s \in Int
      OBVIOUS
    <3> QED BY <1>1, <2>3, <3>1
  <2> HIDE DEF T
  <2> QED BY <1>2, <2>2, <2>3, <2>4
<1>4. ASSUME NEW s \in S, NEW t \in S, s < t  PROVE Below(S, s) < Below(S, t)
  <2> DEFINE T == {u \in S : u < s}
             U == {u \in S : u < t}
  <2>0. s \in Int /\ t \in Int /\ \A u \in S : u \in Int
    OBVIOUS
  <2>1. T \in SUBSET U /\ s \in U /\ s \notin T
    <3>1. \A u \in T : u \in U
      BY <1>4, <2>0
    <3>2. s \in U
      BY <1>4
    <3>3. s \notin T
      BY <2>0
    <3> HIDE DEF T, U
    <3> QED BY <3>1, <3>2, <3>3
  <2>2. IsFiniteSet(U) /\ Below(S, s) \in Nat /\ Below(S, t) \in Nat
    BY <1>1, <2>0
  <2>3. Cardinality(T) <= Cardinality(U) /\ Cardinality(T) # Cardinality(U)
    BY <2>1, <2>2, FS_Subset
  <2>4. Below(S, s) = Cardinality(T) /\ Below(S, t) = Cardinality(U)
    BY DEF Below
  <2> HIDE DEF T, U
  <2> QED BY <2>2, <2>3, <2>4
<1>5. ASSUME NEW s \in S, NEW t \in S, Below(S, s) = Below(S, t)  PROVE s = t
  <2>1. s \in Int /\ t \in Int /\ Below(S, s) \in Nat /\ Below(S, t) \in Nat
    BY <1>1
  <2>2. CASE s < t
    BY <1>4, <1>5, <2>1, <2>2
  <2>3. CASE t < s
    BY <1>4, <1>5, <2>1, <2>3
  <2> QED BY <2>1, <2>2, <2>3
<1>6. ASSUME NEW s \in S  PROVE Below(S, s) \in 0..Cardinality(S) - 1
  <2>1. Below(S, s) \in Nat
    <3>1. s \in Int
      OBVIOUS
    <3> QED BY <1>1, <3>1
  <2> QED BY <1>2, <1>3, <2>1
<1> QED
  BY <1>2, <1>5, <1>6

(* The samples of a range come in order, each of them once.                *)
LEMMA SamplesListed ==
  ASSUME NEW r, NEW a \in Int, NEW b, NEW n, NEW S, S = SampledAt(r, a, b, n),
         S \subseteq Int, IsFiniteSet(S), NEW q, q = SampleRange(r, a, b, n)
  PROVE  /\ q \in Seq(S) /\ Len(q) = Cardinality(S) /\ Cardinality(S) \in Nat
         /\ \A s \in S : \E k \in 1..Cardinality(S) : q[k] = s
         /\ a \in S /\ (\A s \in S : a <= s) => q[1] = a /\ Cardinality(S) >= 1
<1> DEFINE c == Cardinality(S)
           At(k) == CHOOSE s \in S : Below(S, s) = k - 1
<1>1. q = [k \in 1..c |-> At(k)]
  BY DEF SampleRange, Below
<1>2. c \in Nat /\ (\A s \in S : Below(S, s) \in 0..c - 1)
      /\ \A s, t \in S : Below(S, s) = Below(S, t) => s = t
  BY Ranks
<1>3. ASSUME NEW s \in S, NEW k, k = Below(S, s) + 1  PROVE k \in 1..c /\ At(k) = s
  <2>1. k \in 1..c /\ k - 1 = Below(S, s)
    BY <1>2, <1>3
  <2>2. At(k) \in S /\ Below(S, At(k)) = Below(S, s)
    BY <2>1
  <2> QED BY <1>2, <2>1, <2>2
<1> HIDE DEF c, At
<1>4. \A k \in 1..c : q[k] = At(k)
  BY <1>1
<1>7. \A k \in 1..c : At(k) \in S
  <2> DEFINE f == [s \in S |-> Below(S, s) + 1]
  <2>1. f \in [S -> 1..c]
    BY <1>2
  <2>2. \A s, t \in S : f[s] = f[t] => s = t
    BY <1>2
  <2>3. f \in Injection(S, 1..c)
    <3> HIDE DEF f
    <3> QED BY <2>1, <2>2 DEF Injection, IsInjective
  <2>4. IsFiniteSet(1..c) /\ Cardinality(1..c) = c
    BY <1>2, FS_Interval
  <2>5. f \in Surjection(S, 1..c)
    <3> HIDE DEF f
    <3> QED BY <2>3, <2>4, FS_Injection DEF c
  <2>6. \A k \in 1..c : \E s \in S : f[s] = k
    <3> HIDE DEF f
    <3> QED BY <2>5 DEF Surjection
  <2>7. \A k \in 1..c : \E s \in S : k = Below(S, s) + 1
    BY <2>6
  <2> HIDE DEF f
  <2> QED BY <1>3, <2>7
<1>8. q \in Seq(S) /\ Len(q) = c
  BY <1>1, <1>2, <1>7
<1>5. \A s \in S : \E k \in 1..c : q[k] = s
  BY <1>2, <1>3, <1>4
<1>6. ASSUME a \in S, \A s \in S : a <= s  PROVE q[1] = a /\ c >= 1
  <2>1. {u \in S : u < a} = {}
    BY <1>6
  <2>2. Below(S, a) = 0
    <3> DEFINE none == {u \in S : u < a}
    <3>1. none = {} /\ Below(S, a) = Cardinality(none)
      BY <2>1 DEF Below
    <3>2. Cardinality(none) = 0
      BY <3>1, FS_EmptySet
    <3> QED BY <3>1, <3>2
  <2>3. 1 \in 1..c /\ At(1) = a
    <3>1. 1 = Below(S, a) + 1
      BY <2>2
    <3> QED BY <1>3, <1>6, <3>1
  <2> QED BY <1>2, <1>4, <2>3
<1> QED
  BY <1>2, <1>5, <1>6, <1>8 DEF c

(* The raster of a range has a sample for every spacing that fits in it.   *)
LEMMA RasterCount ==
  ASSUME NEW a \in Int, NEW b \in Int, a <= b, NEW n \in Nat \ {0},
         NEW R, R = {s \in a..b : (s - a) % n = 0}
  PROVE  IsFiniteSet(R) /\ Cardinality(R) \in Nat /\ Cardinality(R) <= (b - a) \div n + 1
<1> DEFINE m == (b - a) \div n
           f == [s \in R |-> (s - a) \div n]
<1>1. ASSUME NEW s \in R, NEW k, k = (s - a) \div n  PROVE k \in 0..m /\ s = a + n * k
  <2> DEFINE x == s - a
             y == b - a
             i == y % n
             j == x % n
  <2>1. x \in Nat /\ y \in Nat /\ x <= y /\ j = 0 /\ s = a + x /\ m = y \div n
    OBVIOUS
  <2> HIDE DEF x, y, m
  <2>2. j \in 0..n - 1 /\ k \in Int /\ x = n * k + j
    BY <1>1, <2>1, ModBounds DEF x, j
  <2>3. i \in 0..n - 1 /\ m \in Int /\ y = n * m + i
    BY <2>1, ModBounds DEF i
  <2> HIDE DEF i, j
  <2>4. k >= 0
    <3> SUFFICES ASSUME k <= -1  PROVE FALSE
      BY <2>2
    <3>1. n * k <= n * (-1)
      BY <2>2
    <3> QED BY <2>1, <2>2, <3>1
  <2>5. k <= m
    <3> SUFFICES ASSUME k >= m + 1  PROVE FALSE
      BY <2>2, <2>3
    <3>1. n * k >= n * (m + 1) /\ n * (m + 1) = n * m + n
      BY <2>2, <2>3
    <3> QED BY <2>1, <2>2, <2>3, <3>1
  <2> QED BY <2>1, <2>2, <2>3, <2>4, <2>5
<1>2. m \in Int /\ m >= 0
  <2>1. b - a \in Nat
    OBVIOUS
  <2> QED BY <2>1
<1> HIDE DEF m
<1>3. f \in Injection(R, 0..m)
  <2>1. f \in [R -> 0..m]
    BY <1>1
  <2>2. ASSUME NEW s \in R, NEW t \in R, f[s] = f[t]  PROVE s = t
    <3>1. s = a + n * f[s] /\ t = a + n * f[t]
      BY <1>1
    <3> HIDE DEF f
    <3> QED BY <2>2, <3>1
  <2> QED BY <2>1, <2>2 DEF Injection, IsInjective
<1> HIDE DEF f
<1>4. IsFiniteSet(0..m) /\ Cardinality(0..m) = m + 1
  BY <1>2, FS_Interval
<1> QED
  BY <1>3, <1>4, FS_Injection, FS_CardinalityType DEF m

(* Quotients are at most one less than they would be in a sum.             *)
LEMMA DivSum ==
  ASSUME NEW x \in Int, NEW y \in Int, NEW n \in Nat \ {0}
  PROVE  x \div n + y \div n <= (x + y + n - 1) \div n
<1> DEFINE z == x + y + n - 1
           p == x \div n
           q == y \div n
           c == z \div n
           i == x % n
           j == y % n
           k == z % n
<1>1. i \in 0..n - 1 /\ p \in Int /\ x = n * p + i /\ j \in 0..n - 1 /\ q \in Int /\ y = n * q + j
  BY ModBounds
<1>2. z \in Int /\ z = x + y + n - 1 /\ c = z \div n /\ k = z % n
  OBVIOUS
<1> HIDE DEF p, q, c, i, j, k, z
<1>3. k \in 0..n - 1 /\ c \in Int /\ z = n * c + k
  <2>1. z \in Int /\ n \in Nat \ {0} /\ c = z \div n /\ k = z % n
    BY <1>2
  <2> QED BY ONLY <2>1, ModBounds
<1>4. p + q <= c
  <2> SUFFICES ASSUME p + q >= c + 1  PROVE FALSE
    BY <1>1, <1>3
  <2>1. n * (p + q) >= n * (c + 1) /\ n * (c + 1) = n * c + n /\ n * (p + q) = n * p + n * q
    BY <1>1, <1>3
  <2> QED BY <1>1, <1>2, <1>3, <2>1
<1> QED
  BY <1>4 DEF p, q, c, z

(* The size of a union of two sets that share elements.                    *)
LEMMA UnionCount ==
  ASSUME NEW S, NEW T, IsFiniteSet(S), IsFiniteSet(T)
  PROVE  /\ IsFiniteSet(S \cup T) /\ Cardinality(S \cup T) <= Cardinality(S) + Cardinality(T)
         /\ S \cap T = {} => Cardinality(S \cup T) = Cardinality(S) + Cardinality(T)
<1>1. S \cap T \in SUBSET S
  OBVIOUS
<1>2. IsFiniteSet(S \cap T)
  BY <1>1, FS_Subset
<1>3. /\ Cardinality(S) \in Nat /\ Cardinality(T) \in Nat /\ Cardinality(S \cap T) \in Nat
      /\ S \cap T = {} => Cardinality(S \cap T) = 0
  BY <1>2, FS_CardinalityType, FS_EmptySet
<1>4. IsFiniteSet(S \cup T) /\ Cardinality(S \cup T) = Cardinality(S) + Cardinality(T) - Cardinality(S \cap T)
  BY FS_Union
<1> QED
  BY <1>3, <1>4

(* What is sampled in a range, counted.                                    *)
LEMMA SamplesCounted ==
  ASSUME NEW r, NEW a \in Int, NEW b \in Int, a <= b, NEW n \in Nat \ {0},
         NEW S, S = SampledAt(r, a, b, n), NEW V, V = VerticesWithin(r, a, b)
  PROVE  /\ S \subseteq a..b /\ IsFiniteSet(S) /\ {a, b} \cup V \subseteq S
         /\ V \subseteq a..b /\ IsFiniteSet(V)
         /\ \A W : W \subseteq V /\ V \subseteq W \cup {a}
                     => Cardinality(S) <= (b - a) \div n + 2 + Cardinality(W)
<1> DEFINE R == {s \in a..b : (s - a) % n = 0}
<1>1. S = R \cup {b} \cup V
  BY DEF SampledAt
<1>2. V \subseteq a..b
  BY DEF VerticesWithin
<1>3. R \subseteq a..b /\ b \in a..b
  OBVIOUS
<1>4. a \in R
  <2>1. a \in a..b /\ a - a = 0
    OBVIOUS
  <2>2. (n * 0 + 0) % n = 0
    BY ModUnique
  <2>3. 0 % n = 0
    BY <2>2
  <2> QED BY <2>1, <2>3
<1>5. IsFiniteSet(R) /\ Cardinality(R) \in Nat /\ Cardinality(R) <= (b - a) \div n + 1
  BY RasterCount
<1> HIDE DEF R
<1>6. IsFiniteSet(a..b)
  BY FS_Interval
<1>7. S \subseteq a..b /\ {a, b} \cup V \subseteq S
  BY <1>1, <1>2, <1>3, <1>4
<1>8. IsFiniteSet(S) /\ IsFiniteSet(V)
  BY <1>2, <1>6, <1>7, FS_Subset
<1>9. ASSUME NEW W, W \subseteq V, V \subseteq W \cup {a}
      PROVE  Cardinality(S) <= (b - a) \div n + 2 + Cardinality(W)
  <2>1. S = (R \cup {b}) \cup W
    BY <1>1, <1>4, <1>9
  <2>2. IsFiniteSet(W)
    BY <1>8, <1>9, FS_Subset
  <2>3. IsFiniteSet({b}) /\ Cardinality({b}) = 1
    BY FS_Singleton
  <2>4. IsFiniteSet(R \cup {b}) /\ Cardinality(R \cup {b}) <= Cardinality(R) + 1
    BY <1>5, <2>3, UnionCount
  <2>5. Cardinality(S) <= Cardinality(R \cup {b}) + Cardinality(W)
    BY <2>1, <2>2, <2>4, UnionCount
  <2>6. /\ Cardinality(S) \in Nat /\ Cardinality(R \cup {b}) \in Nat /\ Cardinality(W) \in Nat
        /\ (b - a) \div n \in Int
    BY <1>8, <2>2, <2>4, FS_CardinalityType
  <2> QED BY <1>5, <2>4, <2>5, <2>6
<1> QED
  BY <1>2, <1>7, <1>8, <1>9

(* Two ranges that meet take one sample more together than SamplingFits    *)
(* counts for the whole, the one they share.                               *)
LEMMA SamplesShared ==
  ASSUME NEW r, NEW a \in Int, NEW b \in Int, NEW c \in Int, a <= b, b <= c,
         NEW n \in Nat \ {0}
  PROVE  /\ Cardinality(SampledAt(r, a, b, n)) + Cardinality(SampledAt(r, b, c, n))
              <= (c - a + n - 1) \div n + Cardinality(VerticesWithin(r, a, c)) + 4
         /\ VerticesWithin(r, a, c) \subseteq VerticesWithin(r, a, b) \cup VerticesWithin(r, b, c)
<1> DEFINE S == SampledAt(r, a, b, n)
           T == SampledAt(r, b, c, n)
           U == VerticesWithin(r, a, b)
           V == VerticesWithin(r, b, c)
           X == VerticesWithin(r, a, c)
           W == U \ {b}
           Z == V \ {b}
           p == (b - a) \div n
           q == (c - b) \div n
           d == (c - a + n - 1) \div n
<1>1. /\ IsFiniteSet(U) /\ IsFiniteSet(V) /\ U \subseteq a..b /\ V \subseteq b..c
      /\ Cardinality(T) <= q + 2 + Cardinality(Z)
  BY SamplesCounted
<1>2. Cardinality(S) <= p + 2 + Cardinality(W)
  <2> DEFINE R == {s \in a..b : (s - a) % n = 0}
  <2>1. S = (R \cup {b}) \cup W
    BY DEF SampledAt
  <2>2. IsFiniteSet(R) /\ Cardinality(R) \in Nat /\ Cardinality(R) <= p + 1
    BY RasterCount
  <2>3. IsFiniteSet(W) /\ IsFiniteSet({b}) /\ Cardinality({b}) = 1
    BY <1>1, FS_Subset, FS_Singleton
  <2> HIDE DEF R, S, W, p
  <2>4. IsFiniteSet(R \cup {b}) /\ Cardinality(R \cup {b}) <= Cardinality(R) + 1
    BY <2>2, <2>3, UnionCount
  <2>5. /\ IsFiniteSet((R \cup {b}) \cup W)
        /\ Cardinality((R \cup {b}) \cup W) <= Cardinality(R \cup {b}) + Cardinality(W)
    BY <2>3, <2>4, UnionCount
  <2>6. Cardinality(S) \in Nat /\ Cardinality(R \cup {b}) \in Nat /\ Cardinality(W) \in Nat
    BY <2>1, <2>3, <2>4, <2>5, FS_CardinalityType
  <2>7. p \in Int
    BY DEF p
  <2> QED BY <2>1, <2>2, <2>4, <2>5, <2>6, <2>7
<1>3. p + q <= d
  <2>1. b - a \in Int /\ c - b \in Int /\ (b - a) + (c - b) + n - 1 = c - a + n - 1
    OBVIOUS
  <2> QED BY <2>1, DivSum
<1>4. X \subseteq U \cup V /\ W \cup Z \subseteq X
  BY DEF VerticesWithin
<1>5. IsFiniteSet(X) /\ IsFiniteSet(S) /\ IsFiniteSet(T)
  <2>1. a <= c
    OBVIOUS
  <2>2. IsFiniteSet(S) /\ IsFiniteSet(U)
    BY SamplesCounted
  <2>3. IsFiniteSet(T) /\ IsFiniteSet(V)
    BY SamplesCounted
  <2>4. IsFiniteSet(X)
    BY <2>1, SamplesCounted
  <2> QED BY <2>2, <2>3, <2>4
<1>6. W \cap Z = {}
  BY <1>1
<1>7. p \in Int /\ q \in Int /\ d \in Int
  OBVIOUS
<1> HIDE DEF S, T, U, V, X, W, Z, p, q, d
<1>8. IsFiniteSet(W) /\ IsFiniteSet(Z)
  BY <1>1, FS_Subset DEF W, Z
<1>9. Cardinality(W) + Cardinality(Z) <= Cardinality(X)
  <2>1. Cardinality(W \cup Z) = Cardinality(W) + Cardinality(Z)
    BY <1>6, <1>8, UnionCount
  <2>2. Cardinality(W \cup Z) <= Cardinality(X)
    BY <1>4, <1>5, FS_Subset
  <2> QED BY <2>1, <2>2
<1>10. /\ Cardinality(S) \in Nat /\ Cardinality(T) \in Nat /\ Cardinality(X) \in Nat
       /\ Cardinality(W) \in Nat /\ Cardinality(Z) \in Nat
  BY <1>5, <1>8, FS_CardinalityType
<1>11. Cardinality(S) + Cardinality(T) <= d + Cardinality(X) + 4
  BY <1>1, <1>2, <1>3, <1>7, <1>9, <1>10
<1> QED
  BY <1>4, <1>11 DEF S, T, U, V, X, d

(* The corners of a route, and the one nearest to a place on it.           *)
LEMMA CornersTyped ==
  ASSUME NEW r, IsRoute(r), NEW s \in Int
  PROVE  SharpCorners(r, s) \subseteq Int
<1>1. DOMAIN r.pts = 1..Len(r.pts) /\ r.cum \in [1..Len(r.pts) -> Nat] /\ r.total \in Nat \ {0}
  BY RouteLength DEF IsRoute
<1>2. SharpVertices(r) \subseteq Nat
  BY <1>1 DEF SharpVertices
<1>3. s \div r.total \in Int
  <2>1. \A n \in Nat \ {0} : s \div n \in Int
    OBVIOUS
  <2> QED BY <1>1, <2>1
<1>4. \A v \in Nat, lap \in Int : v + lap * r.total \in Int
  BY <1>1
<1>5. CASE r.closed
  <2> DEFINE laps == (s \div r.total) - 1 .. (s \div r.total) + 1
  <2>1. SharpCorners(r, s) = {v + lap * r.total : v \in SharpVertices(r), lap \in laps}
    BY <1>5 DEF SharpCorners
  <2>2. laps \subseteq Int
    BY <1>3
  <2> HIDE DEF laps
  <2> QED BY <1>2, <1>4, <2>1, <2>2
<1>6. CASE ~r.closed
  BY <1>2, <1>6 DEF SharpCorners
<1> QED
  BY <1>5, <1>6

(* What the search for the nearest corner gives.                           *)
LEMMA NearestIsNearest ==
  ASSUME NEW r, IsRoute(r), NEW s \in Int, CornersWithin(r, s, Clearance) # {},
         NEW c, c = NearestCorner(r, s)
  PROVE  /\ c \in Int /\ Gap(c - s) <= Clearance
         /\ \A d \in CornersWithin(r, s, Clearance) : Gap(c - s) <= Gap(d - s)
<1> DEFINE near == CornersWithin(r, s, Clearance)
           gaps == {Gap(d - s) : d \in near}
           Comes(x, d) == \/ Gap(x - s) < Gap(d - s)
                          \/ Gap(x - s) = Gap(d - s) /\ NormalizeRouteS(r, x) <= NormalizeRouteS(r, d)
<1>1. near \subseteq Int /\ \A d \in near : Gap(d - s) <= Clearance
  BY CornersTyped DEF CornersWithin
<1>2. c = CHOOSE x \in near : \A d \in near : Comes(x, d)
  BY DEF NearestCorner
<1>3. near # {}
  OBVIOUS
<1> HIDE DEF near
<1>4. gaps \subseteq Nat /\ gaps # {}
  <2>1. \A x \in Int : Gap(x - s) \in Nat
    BY DEF Gap
  <2> QED BY <1>1, <1>3, <2>1
<1>5. PICK g \in gaps : \A h \in gaps : g <= h
  BY <1>4, LeastOf
<1> DEFINE best == {NormalizeRouteS(r, d) : d \in {x \in near : Gap(x - s) = g}}
<1>6. best \subseteq Nat /\ best # {}
  <2>1. \A d \in near : NormalizeRouteS(r, d) \in Nat
    <3>1. r.total \in Nat /\ \A d \in near : NormalizeRouteS(r, d) \in 0..r.total
      BY <1>1, NormalTyped, RouteLength
    <3> QED BY <3>1
  <2> QED BY <2>1
<1>7. PICK o \in best : \A h \in best : o <= h
  BY <1>6, LeastOf
<1>8. PICK x \in near : Gap(x - s) = g /\ NormalizeRouteS(r, x) = o
  OBVIOUS
<1>9. \A d \in near : Comes(x, d)
  <2> SUFFICES ASSUME NEW d \in near  PROVE Comes(x, d)
    OBVIOUS
  <2>1. Gap(d - s) \in gaps /\ g \in Nat /\ Gap(d - s) \in Nat /\ g <= Gap(d - s)
    BY <1>4, <1>5
  <2>2. Gap(d - s) = g => o <= NormalizeRouteS(r, d)
    BY <1>7
  <2> HIDE DEF gaps, best
  <2> QED BY <1>8, <2>1, <2>2
<1>10. c \in near /\ \A d \in near : Comes(c, d)
  <2> HIDE DEF Comes
  <2> QED BY <1>2, <1>9
<1>11. \A d \in near : Gap(c - s) <= Gap(d - s)
  <2> SUFFICES ASSUME NEW d \in near  PROVE Gap(c - s) <= Gap(d - s)
    OBVIOUS
  <2>1. Gap(c - s) \in Nat /\ Gap(d - s) \in Nat
    BY <1>4, <1>10
  <2> QED BY <1>10, <2>1
<1> QED
  BY <1>1, <1>10, <1>11 DEF near

(* A build under way, and what it has so far.                              *)
MergeFields == {"route", "offset", "start", "target", "end", "tries", "phase", "status", "seed"}

IsMerge(m) ==
  /\ MergeFields \subseteq DOMAIN m /\ IsRoute(m.route)
  /\ m.start \in Int /\ m.target \in Int /\ m.end \in Int /\ m.offset \in SideOffsets

Underway(m) ==
  /\ m.start < m.target /\ (m.route.closed \/ (m.start >= 0 /\ m.target <= m.route.total))
  /\ m.offset # "too far" /\ (m.offset = "none" => m.end = m.start)
  /\ m.offset = "beside" => /\ CornersWithin(m.route, m.start, Clearance) = {}
                            /\ m.end - m.start \in MinForward..MaxForward /\ m.end <= m.target

EndIsClear(m) == m.offset = "beside" => CornersWithin(m.route, m.end, Clearance - 1) = {}
Filled(m) ==
  {m.start, m.end, m.target} \cup VerticesWithin(m.route, m.start, m.target) \subseteq ToSet(m.seed)

MergeGood(m) ==
  /\ IsMerge(m)
  /\ m.phase = "begin" => m.end = m.start
  /\ m.phase = "extend" => Underway(m) /\ m.offset = "beside"
  /\ m.phase \in {"fit", "sample", "fade"} => Underway(m) /\ EndIsClear(m)
  /\ m.phase = "sample" => SamplingFits(m.route, m.start, m.target)
  /\ m.phase = "fade" => Filled(m)
  /\ m.phase # "done" => m.status = "none"
  /\ m.status = "success" => Underway(m) /\ EndIsClear(m) /\ Filled(m)
  /\ m.status # "sampling_failed"

(* The inductive invariant of the build.                                   *)
MergeInv == \E m \in {merge} : MergeGood(m)

(* What the assumption says of the bounds.                                 *)
LEMMA MergeNumbers ==
  /\ MinForward \in Nat \ {0} /\ MaxForward \in Nat /\ MinForward <= MaxForward
  /\ Clearance \in Nat \ {0} /\ Spacing \in Nat \ {0} /\ MaxSamples \in Nat /\ MergeRange \subseteq Int
BY MergeAssumption

(* Each step keeps what is known of the merge.                             *)
LEMMA MergeInvStart == MergeInit => MergeInv
<1> SUFFICES ASSUME MergeInit  PROVE MergeInv
  OBVIOUS
<1>1. PICK x \in {y \in MergeRoutes : RouteAccepted(y.points, y.closed)}, aside \in SideOffsets,
           start \in MergeRange, target \in MergeRange :
        merge = [route |-> RouteOf(x.points, x.closed), offset |-> aside,
                 start |-> start, target |-> target, end |-> start, tries |-> 0,
                 phase |-> "begin", status |-> "none", seed |-> <<>>]
  BY DEF MergeInit
<1>2. IsRoute(RouteOf(x.points, x.closed))
  <2>1. x.points \in Seq(Places) /\ x.closed \in BOOLEAN
    BY MergeAssumption DEF Places
  <2> QED BY <2>1, RouteTyped
<1>3. IsMerge(merge) /\ merge.end = merge.start /\ merge.phase = "begin" /\ merge.status = "none"
  BY <1>1, <1>2, MergeNumbers DEF IsMerge, MergeFields
<1> QED
  BY <1>3 DEF MergeInv, MergeGood

(* A build that is refused.                                                *)
LEMMA MergeRefused ==
  ASSUME MergeInv, NEW status, status \notin {"success", "sampling_failed"},
         \/ merge' = [merge EXCEPT !.phase = "done", !.status = status]
         \/ merge' = [merge EXCEPT !.phase = "done", !.status = status, !.seed = <<>>]
  PROVE  MergeInv'
<1>1. IsMerge(merge)
  BY DEF MergeInv, MergeGood
<1> DEFINE n == merge'
<1>2. n.phase = "done" /\ n.status = status /\ MergeFields \subseteq DOMAIN n
  BY <1>1 DEF IsMerge, MergeFields
<1>3. /\ n.route = merge.route /\ n.offset = merge.offset /\ n.start = merge.start
      /\ n.target = merge.target /\ n.end = merge.end
  BY <1>1 DEF IsMerge, MergeFields
<1>4. IsMerge(n)
  BY <1>1, <1>2, <1>3 DEF IsMerge
<1> HIDE DEF n
<1>5. MergeGood(n)
  BY <1>2, <1>4 DEF MergeGood
<1> QED
  BY <1>5 DEF MergeInv, n

LEMMA BeginMergeStep == MergeInv /\ BeginMerge => MergeInv'
<1> SUFFICES ASSUME MergeInv, BeginMerge  PROVE MergeInv'
  OBVIOUS
<1>1. CASE Done("start_near_unsmoothed_corner") \/ Done("insufficient_lookahead")
  BY <1>1, MergeRefused DEF Done
<1>2. CASE /\ CornersWithin(merge.route, merge.start, Clearance) = {}
           /\ \E forward \in MinForward..MaxForward :
                /\ merge.start + forward <= merge.target
                /\ merge' = [merge EXCEPT !.end = merge.start + forward, !.phase = "extend"]
  <2>1. PICK forward \in MinForward..MaxForward :
               /\ merge.start + forward <= merge.target
               /\ merge' = [merge EXCEPT !.end = merge.start + forward, !.phase = "extend"]
    BY <1>2
  <2>2. IsMerge(merge) /\ merge.status = "none"
    BY DEF BeginMerge, Mergeable, MergeInv, MergeGood
  <2> DEFINE e == merge.start + forward
             n == merge'
  <2>3. e \in Int /\ e <= merge.target /\ e - merge.start \in MinForward..MaxForward
    BY <2>1, <2>2, MergeNumbers DEF IsMerge
  <2>4. n = [merge EXCEPT !.end = e, !.phase = "extend"]
    BY <2>1
  <2> HIDE DEF n, e
  <2>5. /\ IsMerge(n) /\ n.route = merge.route /\ n.offset = merge.offset /\ n.start = merge.start
        /\ n.target = merge.target /\ n.end = e /\ n.phase = "extend" /\ n.status = "none"
    BY <2>2, <2>3, <2>4 DEF IsMerge, MergeFields
  <2>6. /\ merge.offset = "beside" /\ merge.start < merge.target
        /\ merge.route.closed \/ (merge.start >= 0 /\ merge.target <= merge.route.total)
    <3>1. merge.offset = "beside" /\ merge.target > merge.start /\ ~OutOfRange
      BY DEF BeginMerge, Mergeable
    <3>2. IsRoute(merge.route) /\ merge.start \in Int /\ merge.target \in Int
      BY <2>2 DEF IsMerge
    <3>3. merge.route.total \in Int
      BY <3>2 DEF IsRoute
    <3> QED BY <3>1, <3>2, <3>3 DEF OutOfRange
  <2>7. Underway(n)
    BY <1>2, <2>3, <2>5, <2>6 DEF Underway
  <2>8. MergeGood(n)
    BY <2>5, <2>6, <2>7 DEF MergeGood
  <2> QED BY <2>8 DEF MergeInv, n
<1> QED
  <2>1. IsMerge(merge)
    BY DEF MergeInv, MergeGood
  <2>2. \A forward \in MinForward..MaxForward :
          merge.start + forward <= merge.target \/ merge.start + forward > merge.target
    BY <2>1, MergeNumbers DEF IsMerge
  <2> QED BY <1>1, <1>2, <2>2 DEF BeginMerge

LEMMA NoMergeStep == MergeInv /\ NoMerge => MergeInv'
<1> SUFFICES ASSUME MergeInv, NoMerge  PROVE MergeInv'
  OBVIOUS
<1> DEFINE n == merge'
<1>1. IsMerge(merge) /\ merge.status = "none" /\ merge.end = merge.start
  BY DEF NoMerge, Mergeable, MergeInv, MergeGood
<1>2. n = [merge EXCEPT !.phase = "fit"]
  BY DEF NoMerge
<1>3. merge.end \in Int
  BY <1>1 DEF IsMerge
<1> HIDE DEF n
<1>4. /\ IsMerge(n) /\ n.route = merge.route /\ n.offset = merge.offset /\ n.start = merge.start
      /\ n.target = merge.target /\ n.end = merge.end /\ n.phase = "fit" /\ n.status = "none"
  BY <1>1, <1>2, <1>3 DEF IsMerge, MergeFields
<1>5. /\ merge.offset = "none" /\ merge.start < merge.target
      /\ merge.route.closed \/ (merge.start >= 0 /\ merge.target <= merge.route.total)
  <2>1. merge.offset = "none" /\ merge.target > merge.start /\ ~OutOfRange
    BY DEF NoMerge, Mergeable
  <2>2. IsRoute(merge.route) /\ merge.start \in Int /\ merge.target \in Int
    BY <1>1 DEF IsMerge
  <2>3. merge.route.total \in Int
    BY <2>2 DEF IsRoute
  <2> QED BY <2>1, <2>2, <2>3 DEF OutOfRange
<1>6. Underway(n) /\ EndIsClear(n)
  BY <1>1, <1>4, <1>5 DEF Underway, EndIsClear
<1>7. MergeGood(n)
  BY <1>4, <1>6 DEF MergeGood
<1> QED
  BY <1>7 DEF MergeInv, n

LEMMA ExtendMergeStep == MergeInv /\ ExtendMerge => MergeInv'
<1> SUFFICES ASSUME MergeInv, ExtendMerge  PROVE MergeInv'
  OBVIOUS
<1> DEFINE n == merge'
           near == CornersWithin(merge.route, merge.end, Clearance)
           c == NearestCorner(merge.route, merge.end)
           further == c + Clearance
<1>1. /\ IsMerge(merge) /\ Underway(merge) /\ merge.phase = "extend" /\ merge.offset = "beside"
      /\ merge.status = "none"
  BY DEF ExtendMerge, MergeInv, MergeGood
<1>2. /\ IsRoute(merge.route) /\ merge.end \in Int /\ merge.start \in Int /\ merge.target \in Int
      /\ merge.end - merge.start \in MinForward..MaxForward /\ merge.end <= merge.target
  BY <1>1 DEF IsMerge, Underway
<1>3. near # {} => /\ c \in Int /\ Gap(c - merge.end) <= Clearance
                   /\ \A d \in near : Gap(c - merge.end) <= Gap(d - merge.end)
  BY <1>2, NearestIsNearest
<1>4. CornersWithin(merge.route, merge.end, Clearance - 1)
        = {d \in near : Gap(d - merge.end) <= Clearance - 1}
  <2>1. \A d \in SharpCorners(merge.route, merge.end) :
          Gap(d - merge.end) <= Clearance - 1 => Gap(d - merge.end) <= Clearance
    <3>1. \A d \in Int : Gap(d - merge.end) \in Int
      BY <1>2 DEF Gap
    <3>2. SharpCorners(merge.route, merge.end) \subseteq Int
      BY <1>2, CornersTyped
    <3> QED BY <3>1, <3>2, MergeNumbers
  <2> QED BY <2>1 DEF CornersWithin
<1>5. \/ Done("cannot_avoid_corner") \/ Done("insufficient_lookahead")
      \/ /\ near = {} \/ (near # {} /\ further <= merge.end)
         /\ n = [merge EXCEPT !.phase = "fit"]
      \/ /\ near # {} /\ ~(further <= merge.end) /\ ~(further - merge.start > MaxForward)
         /\ ~(further > merge.target)
         /\ n = [merge EXCEPT !.end = further, !.tries = @ + 1]
  BY DEF ExtendMerge
<1> HIDE DEF n, near, c
<1>6. CASE Done("cannot_avoid_corner") \/ Done("insufficient_lookahead")
  BY <1>6, MergeRefused DEF Done
<1>7. CASE /\ near = {} \/ (near # {} /\ further <= merge.end)
           /\ n = [merge EXCEPT !.phase = "fit"]
  <2>1. /\ IsMerge(n) /\ n.route = merge.route /\ n.offset = merge.offset /\ n.start = merge.start
        /\ n.target = merge.target /\ n.end = merge.end /\ n.phase = "fit" /\ n.status = "none"
    BY <1>1, <1>2, <1>7 DEF IsMerge, MergeFields
  <2>2. Underway(n)
    BY <1>1, <2>1 DEF Underway
  <2>3. CornersWithin(merge.route, merge.end, Clearance - 1) = {}
    <3>1. CASE near = {}
      BY <1>4, <3>1
    <3>2. CASE near # {} /\ further <= merge.end
      <4>1. Gap(c - merge.end) >= Clearance
        BY <1>2, <1>3, <3>2, MergeNumbers DEF Gap
      <4>2. near \subseteq Int
        BY <1>2, CornersTyped DEF near, CornersWithin
      <4>3. \A d \in Int : Gap(d - merge.end) \in Int
        BY <1>2 DEF Gap
      <4>4. \A d \in near : ~(Gap(d - merge.end) <= Clearance - 1)
        BY <1>3, <3>2, <4>1, <4>2, <4>3, MergeNumbers
      <4> QED BY <1>4, <4>4
    <3> QED BY <1>7, <3>1, <3>2
  <2>4. MergeGood(n)
    BY <2>1, <2>2, <2>3 DEF MergeGood, EndIsClear
  <2> QED BY <2>4 DEF MergeInv, n
<1>8. CASE /\ near # {} /\ ~(further <= merge.end) /\ ~(further - merge.start > MaxForward)
           /\ ~(further > merge.target)
           /\ n = [merge EXCEPT !.end = further, !.tries = @ + 1]
  <2>1. further \in Int
    BY <1>3, <1>8, MergeNumbers
  <2>2. /\ further > merge.end /\ further - merge.start <= MaxForward /\ further <= merge.target
        /\ further - merge.start \in MinForward..MaxForward
    BY <1>2, <1>8, <2>1, MergeNumbers
  <2> HIDE DEF further
  <2>3. /\ IsMerge(n) /\ n.route = merge.route /\ n.offset = merge.offset /\ n.start = merge.start
        /\ n.target = merge.target /\ n.end = further /\ n.phase = "extend" /\ n.status = "none"
    BY <1>1, <1>8, <2>1 DEF IsMerge, MergeFields
  <2>4. Underway(n)
    BY <1>1, <2>2, <2>3 DEF Underway
  <2>5. MergeGood(n)
    BY <1>1, <2>3, <2>4 DEF MergeGood
  <2> QED BY <2>5 DEF MergeInv, n
<1> QED
  BY <1>5, <1>6, <1>7, <1>8

LEMMA FitSamplesStep == MergeInv /\ FitSamples => MergeInv'
<1> SUFFICES ASSUME MergeInv, FitSamples  PROVE MergeInv'
  OBVIOUS
<1> DEFINE n == merge'
<1>1. /\ IsMerge(merge) /\ Underway(merge) /\ EndIsClear(merge) /\ merge.status = "none"
  BY DEF FitSamples, MergeInv, MergeGood
<1>2. CASE ~SamplingFits(merge.route, merge.start, merge.target)
  <2>1. merge' = [merge EXCEPT !.phase = "done", !.status = "resource_limit"]
    BY <1>2 DEF FitSamples, Done
  <2>2. "resource_limit" \notin {"success", "sampling_failed"}
    OBVIOUS
  <2> QED BY <2>1, <2>2, MergeRefused
<1>3. CASE SamplingFits(merge.route, merge.start, merge.target)
  <2>1. n = [merge EXCEPT !.phase = "sample"]
    BY <1>3 DEF FitSamples
  <2> HIDE DEF n
  <2>2. /\ IsMerge(n) /\ n.route = merge.route /\ n.offset = merge.offset /\ n.start = merge.start
        /\ n.target = merge.target /\ n.end = merge.end /\ n.phase = "sample" /\ n.status = "none"
    BY <1>1, <2>1 DEF IsMerge, MergeFields
  <2>3. MergeGood(n)
    BY <1>1, <1>3, <2>2 DEF MergeGood, Underway, EndIsClear
  <2> QED BY <2>3 DEF MergeInv, n
<1> QED
  BY <1>2, <1>3

LEMMA FadeSeedStep == MergeInv /\ FadeSeed => MergeInv'
<1> SUFFICES ASSUME MergeInv, FadeSeed  PROVE MergeInv'
  OBVIOUS
<1> DEFINE n == merge'
<1>1. /\ IsMerge(merge) /\ Underway(merge) /\ EndIsClear(merge) /\ Filled(merge)
  BY DEF FadeSeed, MergeInv, MergeGood
<1>2. CASE Done("success")
  <2>1. n = [merge EXCEPT !.phase = "done", !.status = "success"]
    BY <1>2 DEF Done
  <2> HIDE DEF n
  <2>2. /\ IsMerge(n) /\ n.route = merge.route /\ n.offset = merge.offset /\ n.start = merge.start
        /\ n.target = merge.target /\ n.end = merge.end /\ n.phase = "done" /\ n.status = "success"
        /\ n.seed = merge.seed
    BY <1>1, <2>1 DEF IsMerge, MergeFields
  <2>3. MergeGood(n)
    BY <1>1, <2>2 DEF MergeGood, Underway, EndIsClear, Filled
  <2> QED BY <2>3 DEF MergeInv, n
<1>3. CASE \E status \in {"curvature_limit", "no_tangent"} :
             merge' = [merge EXCEPT !.phase = "done", !.status = status, !.seed = <<>>]
  <2>1. \A status \in {"curvature_limit", "no_tangent"} : status \notin {"success", "sampling_failed"}
    OBVIOUS
  <2> QED BY <1>3, <2>1, MergeRefused
<1> QED
  BY <1>2, <1>3 DEF FadeSeed

(* A route can hold the samples that the builder may ask for: their limits *)
(* are 100000 and 4096 (reference_route.h, merge_reference_builder.h).     *)
RouteHoldsSamples == MaxSamples <= MaxRoutePoints

(* A part of a range whose samples fit is sampled.                         *)
LEMMA RangeIsSampled ==
  ASSUME RouteHoldsSamples, NEW r, NEW s \in Int, NEW t \in Int, SamplingFits(r, s, t),
         NEW a \in Int, NEW b \in Int, s <= a, a <= b, b <= t,
         r.closed \/ (s >= 0 /\ t <= r.total), r.total \in Int
  PROVE  SampleStatus(r, a, b, Spacing) = "success"
<1> DEFINE V == VerticesWithin(r, a, b)
           X == VerticesWithin(r, s, t)
           S == SampledAt(r, a, b, Spacing)
           p == (b - a) \div Spacing
           q == (b - a + Spacing - 1) \div Spacing
           d == (t - s + Spacing - 1) \div Spacing
<1>1. Spacing \in Nat \ {0} /\ MaxSamples \in Nat /\ MaxRoutePoints \in Nat
  BY MergeNumbers, RouteAssumption
<1>2. p <= q /\ q <= d /\ p \in Int /\ q \in Int /\ d \in Int
  <2>1. /\ b - a \in Int /\ b - a + Spacing - 1 \in Int /\ t - s + Spacing - 1 \in Int
        /\ b - a <= b - a + Spacing - 1 /\ b - a + Spacing - 1 <= t - s + Spacing - 1
    BY <1>1
  <2>2. p <= q
    BY <1>1, <2>1, DivMonotone
  <2>3. q <= d
    BY <1>1, <2>1, DivMonotone
  <2>4. \A x \in Int, n \in Nat \ {0} : x \div n \in Int
    OBVIOUS
  <2> QED BY <1>1, <2>1, <2>2, <2>3, <2>4
<1>10. p >= 0
  <2>1. b - a \in Nat
    OBVIOUS
  <2>2. \A x \in Nat, n \in Nat \ {0} : x \div n >= 0
    OBVIOUS
  <2> QED BY <1>1, <2>1, <2>2
<1>3. V \subseteq X
  BY DEF VerticesWithin
<1>4. IsFiniteSet(V) /\ IsFiniteSet(S) /\ Cardinality(S) <= p + 2 + Cardinality(V)
  BY <1>1, SamplesCounted
<1>5. IsFiniteSet(X)
  <2>1. X \subseteq s..t
    BY DEF VerticesWithin
  <2>2. IsFiniteSet(s..t)
    BY FS_Interval
  <2> QED BY <2>1, <2>2, FS_Subset
<1>6. d + 1 + Cardinality(X) + 2 <= MaxSamples
  BY DEF SamplingFits
<1>7. ~(b < a) /\ ~(~r.closed /\ (a < 0 \/ b > r.total))
  OBVIOUS
<1> HIDE DEF V, X, S, p, q, d
<1>8. /\ Cardinality(V) <= Cardinality(X) /\ Cardinality(V) \in Nat /\ Cardinality(X) \in Nat
      /\ Cardinality(S) \in Nat
  <2>1. Cardinality(V) <= Cardinality(X)
    BY <1>3, <1>5, FS_Subset
  <2> QED BY <1>4, <1>5, <2>1, FS_CardinalityType
<1>9. ~(q + 1 > MaxRoutePoints) /\ ~(Cardinality(V) > MaxRoutePoints) /\ ~(Cardinality(S) > MaxRoutePoints)
  <2>1. MaxSamples <= MaxRoutePoints
    BY DEF RouteHoldsSamples
  <2>2. q + 1 <= MaxSamples
    BY <1>1, <1>2, <1>6, <1>8
  <2>3. Cardinality(V) <= MaxSamples
    <3>1. d >= 0
      BY <1>2, <1>10
    <3> QED BY <1>1, <1>2, <1>6, <1>8, <3>1
  <2>4. Cardinality(S) <= MaxSamples
    BY <1>1, <1>2, <1>4, <1>6, <1>8
  <2> QED BY <1>1, <1>2, <1>8, <2>1, <2>2, <2>3, <2>4
<1> QED
  BY <1>7, <1>9 DEF SampleStatus, V, S, q

(* A seed that fits has room for all its samples, and takes in the ends    *)
(* and every vertex in between: first one sampled in one go, then the two  *)
(* ranges of a merge.                                                      *)
LEMMA UnmergedSeed ==
  ASSUME NEW r, NEW s \in Int, NEW t \in Int, s <= t, SamplingFits(r, s, t),
         NEW q, q = SampleRange(r, s, t, Spacing)
  PROVE  Len(q) <= MaxSamples /\ {s, t} \cup VerticesWithin(r, s, t) \subseteq ToSet(q)
<1> DEFINE V == VerticesWithin(r, s, t)
           S == SampledAt(r, s, t, Spacing)
           p == (t - s) \div Spacing
           d == (t - s + Spacing - 1) \div Spacing
<1>1. Spacing \in Nat \ {0} /\ MaxSamples \in Nat
  BY MergeNumbers
<1>2. /\ IsFiniteSet(V) /\ IsFiniteSet(S) /\ S \subseteq s..t /\ {s, t} \cup V \subseteq S
      /\ Cardinality(S) <= p + 2 + Cardinality(V)
  <2>1. S = SampledAt(r, s, t, Spacing) /\ V = VerticesWithin(r, s, t)
    OBVIOUS
  <2> HIDE DEF S, V
  <2>2. /\ S \subseteq s..t /\ IsFiniteSet(S) /\ {s, t} \cup V \subseteq S
        /\ V \subseteq s..t /\ IsFiniteSet(V)
        /\ \A W : W \subseteq V /\ V \subseteq W \cup {s}
                    => Cardinality(S) <= (t - s) \div Spacing + 2 + Cardinality(W)
    BY <1>1, <2>1, SamplesCounted
  <2>3. Cardinality(S) <= (t - s) \div Spacing + 2 + Cardinality(V)
    <3>1. V \subseteq V /\ V \subseteq V \cup {s}
      OBVIOUS
    <3> QED BY <2>2, <3>1
  <2> QED BY <2>2, <2>3
<1>3. p <= d /\ p \in Int /\ d \in Int
  <2>1. t - s \in Int /\ t - s + Spacing - 1 \in Int /\ t - s <= t - s + Spacing - 1
    BY <1>1
  <2>2. \A x \in Int, n \in Nat \ {0} : x \div n \in Int
    OBVIOUS
  <2> QED BY <1>1, <2>1, <2>2, DivMonotone
<1>4. d + 1 + Cardinality(V) + 2 <= MaxSamples
  BY DEF SamplingFits
<1>5. /\ q \in Seq(S) /\ Len(q) = Cardinality(S)
      /\ \A x \in S : \E k \in 1..Cardinality(S) : q[k] = x
  <2>1. S \subseteq Int
    BY <1>2
  <2> QED BY <1>2, <2>1, SamplesListed, SMTT(60)
<1> HIDE DEF V, S, p, d
<1>6. Cardinality(S) \in Nat /\ Cardinality(V) \in Nat
  BY <1>2, FS_CardinalityType
<1>7. Len(q) <= MaxSamples
  BY <1>1, <1>2, <1>3, <1>4, <1>5, <1>6
<1>8. S \subseteq ToSet(q)
  <2>1. DOMAIN q = 1..Cardinality(S)
    BY <1>5
  <2> QED BY <1>5, <2>1 DEF ToSet
<1> QED
  BY <1>2, <1>7, <1>8 DEF V

(* The seed of a merge that succeeded has the samples of both parts.       *)
LEMMA MergedSeed ==
  ASSUME NEW r, NEW s \in Int, NEW e \in Int, NEW t \in Int, s <= e, e <= t, SamplingFits(r, s, t),
         NEW to, to = SampleRange(r, s, e, Spacing), NEW from, from = SampleRange(r, e, t, Spacing),
         NEW q, q = to \o Tail(from)
  PROVE  Len(q) <= MaxSamples /\ {s, e, t} \cup VerticesWithin(r, s, t) \subseteq ToSet(q)
<1> DEFINE S == SampledAt(r, s, e, Spacing)
           T == SampledAt(r, e, t, Spacing)
           U == VerticesWithin(r, s, e)
           V == VerticesWithin(r, e, t)
           X == VerticesWithin(r, s, t)
           d == (t - s + Spacing - 1) \div Spacing
           m == Cardinality(S)
           n == Cardinality(T)
<1>1. Spacing \in Nat \ {0} /\ MaxSamples \in Nat
  BY MergeNumbers
<1>2. S \subseteq s..e /\ IsFiniteSet(S) /\ {s, e} \cup U \subseteq S /\ IsFiniteSet(U)
  <2>1. S = SampledAt(r, s, e, Spacing) /\ U = VerticesWithin(r, s, e)
    OBVIOUS
  <2> HIDE DEF S, U
  <2> QED BY <1>1, <2>1, SamplesCounted
<1>3. T \subseteq e..t /\ IsFiniteSet(T) /\ {e, t} \cup V \subseteq T /\ IsFiniteSet(V)
  <2>1. T = SampledAt(r, e, t, Spacing) /\ V = VerticesWithin(r, e, t)
    OBVIOUS
  <2> HIDE DEF T, V
  <2> QED BY <1>1, <2>1, SamplesCounted
<1>4. m + n <= d + Cardinality(X) + 4 /\ X \subseteq U \cup V
  BY <1>1, SamplesShared
<1>5. d + 1 + Cardinality(X) + 2 <= MaxSamples
  BY DEF SamplingFits
<1>6. d \in Int /\ Cardinality(X) \in Nat
  <2>1. t - s + Spacing - 1 \in Int /\ s <= t
    BY <1>1
  <2>2. \A x \in Int, i \in Nat \ {0} : x \div i \in Int
    OBVIOUS
  <2>3. IsFiniteSet(X)
    <3>1. X \subseteq s..t
      BY DEF VerticesWithin
    <3>2. IsFiniteSet(s..t)
      BY FS_Interval
    <3> QED BY <3>1, <3>2, FS_Subset
  <2> QED BY <1>1, <2>1, <2>2, <2>3, FS_CardinalityType
<1>7. /\ to \in Seq(S) /\ Len(to) = m /\ m \in Nat
      /\ \A x \in S : \E k \in 1..m : to[k] = x
  <2>1. S \subseteq Int /\ IsFiniteSet(S) /\ S = SampledAt(r, s, e, Spacing) /\ m = Cardinality(S)
    BY <1>2
  <2> HIDE DEF S, m
  <2>2. /\ to \in Seq(S) /\ Len(to) = Cardinality(S) /\ Cardinality(S) \in Nat
        /\ \A x \in S : \E k \in 1..Cardinality(S) : to[k] = x
    BY <2>1, SamplesListed, SMTT(60)
  <2> QED BY <2>1, <2>2
<1>8. /\ from \in Seq(T) /\ Len(from) = n /\ n \in Nat /\ n >= 1 /\ from[1] = e
      /\ \A x \in T : \E k \in 1..n : from[k] = x
  <2>1. /\ T \subseteq Int /\ IsFiniteSet(T) /\ T = SampledAt(r, e, t, Spacing) /\ n = Cardinality(T)
        /\ e \in T /\ \A x \in T : e <= x
    BY <1>3
  <2> HIDE DEF T, n
  <2>2. /\ from \in Seq(T) /\ Len(from) = Cardinality(T) /\ Cardinality(T) \in Nat
        /\ \A x \in T : \E k \in 1..Cardinality(T) : from[k] = x
    BY <2>1, SamplesListed, SMTT(60)
  <2>3. from[1] = e /\ Cardinality(T) >= 1
    BY <2>1, SamplesListed, SMTT(60)
  <2> QED BY <2>1, <2>2, <2>3
<1> HIDE DEF S, T, U, V, X, d, m, n
<1> DEFINE rest == Tail(from)
<1>9. rest \in Seq(T) /\ Len(rest) = n - 1 /\ \A k \in 1..n - 1 : rest[k] = from[k + 1]
  <2>1. from # <<>>
    BY <1>8
  <2> QED BY <1>8, <2>1
<1> HIDE DEF rest
<1>10. /\ Len(q) = m + (n - 1) /\ DOMAIN q = 1..m + (n - 1)
       /\ \A k \in 1..m : q[k] = to[k]
       /\ \A i \in m + 1..m + (n - 1) : q[i] = rest[i - m]
  <2>1. q = to \o rest
    BY DEF rest
  <2>2. to \in Seq(S \cup T) /\ rest \in Seq(S \cup T)
    BY <1>7, <1>9
  <2>3. /\ q \in Seq(S \cup T) /\ Len(q) = Len(to) + Len(rest)
        /\ \A i \in 1..Len(to) + Len(rest) : q[i] = IF i <= Len(to) THEN to[i] ELSE rest[i - Len(to)]
    <3> DEFINE E == S \cup T
    <3>1. to \in Seq(E) /\ rest \in Seq(E)
      BY <2>2
    <3> HIDE DEF E
    <3>2. /\ to \o rest \in Seq(E) /\ Len(to \o rest) = Len(to) + Len(rest)
          /\ \A i \in 1..Len(to) + Len(rest) :
                (to \o rest)[i] = IF i <= Len(to) THEN to[i] ELSE rest[i - Len(to)]
      BY <3>1, ConcatProperties
    <3> QED BY <2>1, <3>2 DEF E
  <2>4. Len(to) = m /\ Len(rest) = n - 1 /\ m \in Nat /\ n \in Nat /\ n >= 1
    BY <1>7, <1>8, <1>9
  <2>5. /\ Len(q) = m + (n - 1)
        /\ \A i \in 1..m + (n - 1) : q[i] = IF i <= m THEN to[i] ELSE rest[i - m]
    BY <2>3, <2>4
  <2>6. DOMAIN q = 1..m + (n - 1)
    BY <2>3, <2>5
  <2>7. \A k \in 1..m : k \in 1..m + (n - 1) /\ k <= m
    BY <2>4
  <2>8. \A i \in m + 1..m + (n - 1) : i \in 1..m + (n - 1) /\ ~(i <= m)
    BY <2>4
  <2> QED BY <2>5, <2>6, <2>7, <2>8
<1>11. Len(q) <= MaxSamples
  <2>1. Len(q) = m + (n - 1) /\ m \in Nat /\ n \in Nat
    BY <1>7, <1>8, <1>10
  <2> DEFINE c == Cardinality(X)
  <2>2. m + n <= d + c + 4 /\ d + 1 + c + 2 <= MaxSamples /\ d \in Int /\ c \in Nat
    BY <1>4, <1>5, <1>6
  <2>3. MaxSamples \in Int
    BY MergeAssumption
  <2> HIDE DEF c
  <2>4. m + (n - 1) <= MaxSamples
    BY <2>1, <2>2, <2>3
  <2> QED BY <2>1, <2>4
<1>12. S \subseteq ToSet(q)
  <2> SUFFICES ASSUME NEW x \in S  PROVE x \in ToSet(q)
    OBVIOUS
  <2>1. PICK k \in 1..m : to[k] = x
    BY <1>7
  <2>2. k \in DOMAIN q /\ q[k] = x
    BY <1>7, <1>8, <1>10, <2>1
  <2> QED BY <2>2 DEF ToSet
<1>13. T \subseteq ToSet(q)
  <2> SUFFICES ASSUME NEW x \in T, x # e  PROVE x \in ToSet(q)
    BY <1>2, <1>12
  <2>1. PICK k \in 1..n : from[k] = x
    BY <1>8
  <2>2. k - 1 \in 1..n - 1 /\ (k - 1) + 1 = k
    BY <1>8, <2>1
  <2>3. rest[k - 1] = x
    BY <1>9, <2>1, <2>2
  <2>4. PICK i \in Int : i = m + (k - 1)
    BY <1>7, <2>2
  <2>5. i \in m + 1..m + (n - 1) /\ i - m = k - 1 /\ i \in 1..m + (n - 1)
    BY <1>7, <1>8, <2>2, <2>4
  <2>6. q[i] = x /\ i \in DOMAIN q
    BY <1>10, <2>3, <2>5
  <2> QED BY <2>6 DEF ToSet
<1> QED
  BY <1>2, <1>3, <1>4, <1>11, <1>12, <1>13 DEF X

LEMMA SampleSeedStep == RouteHoldsSamples /\ MergeInv /\ SampleSeed => MergeInv'
<1> SUFFICES ASSUME RouteHoldsSamples, MergeInv, SampleSeed  PROVE MergeInv'
  OBVIOUS
<1> DEFINE n == merge'
           r == merge.route
           s == merge.start
           e == merge.end
           t == merge.target
<1>1. /\ IsMerge(merge) /\ Underway(merge) /\ EndIsClear(merge) /\ merge.status = "none"
      /\ SamplingFits(r, s, t)
  BY DEF SampleSeed, MergeInv, MergeGood
<1>2. /\ s \in Int /\ e \in Int /\ t \in Int /\ s <= e /\ e <= t /\ s <= t
      /\ r.closed \/ (s >= 0 /\ t <= r.total)
      /\ r.total \in Int /\ merge.offset \in {"none", "beside"} /\ (merge.offset = "none" => e = s)
  <2>1. s \in Int /\ e \in Int /\ t \in Int /\ r.total \in Int
    BY <1>1 DEF IsMerge, IsRoute
  <2>2. merge.offset \in {"none", "beside"}
    BY <1>1 DEF IsMerge, Underway, SideOffsets
  <2>3. s < t /\ (r.closed \/ (s >= 0 /\ t <= r.total)) /\ (merge.offset = "none" => e = s)
    BY <1>1 DEF Underway
  <2>4. merge.offset = "beside" => e - s \in MinForward..MaxForward /\ e <= t
    BY <1>1 DEF Underway
  <2>5. s <= e /\ e <= t
    BY <2>1, <2>2, <2>3, <2>4, MergeNumbers
  <2> QED BY <2>1, <2>2, <2>3, <2>5
<1> HIDE DEF n, r, s, e, t
<1>3. /\ SampleStatus(r, s, t, Spacing) = "success" /\ SampleStatus(r, s, e, Spacing) = "success"
      /\ SampleStatus(r, e, t, Spacing) = "success"
  <2>1. s <= s /\ t <= t
    BY <1>2
  <2>2. SampleStatus(r, s, t, Spacing) = "success"
    BY <1>1, <1>2, <2>1, RangeIsSampled
  <2>3. SampleStatus(r, s, e, Spacing) = "success"
    BY <1>1, <1>2, <2>1, RangeIsSampled
  <2>4. SampleStatus(r, e, t, Spacing) = "success"
    BY <1>1, <1>2, <2>1, RangeIsSampled
  <2> QED BY <2>2, <2>3, <2>4
<1>4. \A x \in Ranges : SampleStatus(merge.route, x[1], x[2], Spacing) = "success"
  BY <1>3 DEF Ranges, r, s, e, t
<1>5. Len(Seed) <= MaxSamples /\ {s, e, t} \cup VerticesWithin(r, s, t) \subseteq ToSet(Seed)
  <2>1. CASE merge.offset = "none"
    <3>1. Seed = SampleRange(r, s, t, Spacing)
      BY <2>1 DEF Seed, r, s, t
    <3>2. Len(Seed) <= MaxSamples /\ {s, t} \cup VerticesWithin(r, s, t) \subseteq ToSet(Seed)
      BY <1>1, <1>2, <3>1, UnmergedSeed
    <3> QED BY <1>2, <2>1, <3>2
  <2>2. CASE merge.offset = "beside"
    <3>1. Seed = SampleRange(r, s, e, Spacing) \o Tail(SampleRange(r, e, t, Spacing))
      BY <2>2 DEF Seed, r, s, e, t
    <3> DEFINE to == SampleRange(r, s, e, Spacing)
               from == SampleRange(r, e, t, Spacing)
               q == Seed
    <3>2. to = SampleRange(r, s, e, Spacing) /\ from = SampleRange(r, e, t, Spacing)
          /\ q = to \o Tail(from)
      BY <3>1
    <3> HIDE DEF to, from, q
    <3>3. Len(q) <= MaxSamples /\ {s, e, t} \cup VerticesWithin(r, s, t) \subseteq ToSet(q)
      <4>1. s \in Int /\ e \in Int /\ t \in Int /\ s <= e /\ e <= t /\ SamplingFits(r, s, t)
        BY <1>1, <1>2
      <4>2. \A x, y, z \in Int :
              x <= y /\ y <= z /\ SamplingFits(r, x, z)
                => \A u, v, w : u = SampleRange(r, x, y, Spacing) /\ v = SampleRange(r, y, z, Spacing)
                                /\ w = u \o Tail(v)
                     => Len(w) <= MaxSamples /\ {x, y, z} \cup VerticesWithin(r, x, z) \subseteq ToSet(w)
        BY MergedSeed
      <4> QED BY <3>2, <4>1, <4>2
    <3> QED BY <3>3 DEF q
  <2> QED BY <1>2, <2>1, <2>2
<1> DEFINE seed == Seed
<1>6. n = [merge EXCEPT !.seed = seed, !.phase = "fade"]
  <2>1. {x \in Ranges : SampleStatus(merge.route, x[1], x[2], Spacing) # "success"} = {}
    BY <1>4
  <2>2. Len(seed) \in Int => ~(Len(seed) > MaxSamples)
    BY <1>5, MergeNumbers
  <2>3. ~(Len(seed) > MaxSamples)
    BY <1>5, <2>2, MergeNumbers
  <2> QED BY <2>1, <2>3 DEF SampleSeed, n
<1> HIDE DEF seed
<1>7. /\ IsMerge(n) /\ n.route = merge.route /\ n.offset = merge.offset /\ n.start = merge.start
      /\ n.target = merge.target /\ n.end = merge.end /\ n.phase = "fade" /\ n.status = "none"
      /\ n.seed = seed
  BY <1>1, <1>6 DEF IsMerge, MergeFields
<1>8. Underway(n) /\ EndIsClear(n)
  BY <1>1, <1>7 DEF Underway, EndIsClear
<1>9. Filled(n)
  BY <1>5, <1>7 DEF Filled, seed, r, s, e, t
<1>10. MergeGood(n)
  BY <1>7, <1>8, <1>9 DEF MergeGood
<1> QED
  BY <1>10 DEF MergeInv, n

LEMMA MergeInvStep == RouteHoldsSamples /\ MergeInv /\ [MergeNext]_merge => MergeInv'
<1> SUFFICES ASSUME RouteHoldsSamples, MergeInv, [MergeNext]_merge  PROVE MergeInv'
  OBVIOUS
<1>1. CASE InvalidMerge
  <2>1. Done("invalid_input") \/ Done("out_of_range") \/ Done("offset_too_large")
    BY <1>1 DEF InvalidMerge
  <2> QED BY <2>1, MergeRefused DEF Done
<1>2. CASE MergeTooLate
  <2>1. merge' = [merge EXCEPT !.phase = "done", !.status = "deadline_exceeded", !.seed = <<>>]
    BY <1>2 DEF MergeTooLate
  <2>2. "deadline_exceeded" \notin {"success", "sampling_failed"}
    OBVIOUS
  <2> QED BY <2>1, <2>2, MergeRefused
<1>3. CASE UNCHANGED merge
  BY <1>3 DEF MergeInv
<1> QED
  BY <1>1, <1>2, <1>3, BeginMergeStep, NoMergeStep, ExtendMergeStep, FitSamplesStep, SampleSeedStep,
     FadeSeedStep DEF MergeNext

(* A merge that is built begins and ends clear of every corner, also of    *)
(* those of the next lap, is back on the route by the local target, and    *)
(* has its ends and every vertex in its seed; and the count taken before   *)
(* the sampling is never short, for every route, clearance, spacing and    *)
(* number of extensions (merge_reference_builder.cpp:143-199, 369-500).    *)
THEOREM MergeIsSound == RouteHoldsSamples /\ MergeSpec => []MergeHolds
<1>1. MergeInv => MergeHolds
  BY DEF MergeInv, MergeGood, Underway, EndIsClear, Filled, MergeHolds, EndsClearOfCorners,
         FittingSeedIsSampled
<1>2. RouteHoldsSamples => []RouteHoldsSamples
  <2>1. RouteHoldsSamples => RouteHoldsSamples'
    BY DEF RouteHoldsSamples
  <2> QED BY <2>1, PTL
<1> QED
  BY <1>1, <1>2, MergeInvStart, MergeInvStep, PTL DEF MergeSpec

=============================================================================
