# A verification of SCAN-Planner

SCAN-Planner drives a quadruped along goals and routes. It is a set of ROS 2 nodes: a planner, a controller, a map inside the
planner, and the bridges that hand velocities to the robot's SDK. This project models

* the *motion authority*: who holds the right to move, how it is given and taken away, what a client that asked for a route is
  told, and that the right is taken away whatever fails (`ReplanFSM`, `FollowRouteServer`, `MotionLink`);
* the *drive chain* behind it: watchdogs, owner lock and stand-up between `cmd_vel` and the robot (`SdkDrive`);
* the *planning and control cycle* that the authority treats as outcomes: map, search, optimiser stages, governor, pursuit,
  progress trackers (the modules of `MCLocalStack`).

In the first part geometry is an outcome (a plan is found or not, an obstacle is near or not); in the third it is integer
geometry on small instances, and what is left out there is real analysis: costs, splines, gradients.

All paths below are relative to the repository's `src/planner/plan_manage/` unless they start with `src/` or `doc/`.

## 1. The system

### 1.1 Components, state and operations

| Component | State it keeps | Operations | Modelled in |
|---|---|---|---|
| **Replanning state machine** (`src/scan_replan_fsm.cpp`, `SCANReplanFSM`) | execution state (INIT, WAIT_TARGET, GEN_NEW_TRAJ, REPLAN_TRAJ, EXEC_TRAJ, EMERGENCY_STOP), target and trigger flags, active route and its last outcome, cancel request, failure count, two emergency flags, task revision | exec timer (10 ms), safety timer (50 ms), heartbeat timer (50 ms), goal / path / pose / tf_ready subscriptions, `startFollowRoute`, `cancelFollowRoute` | `ReplanFSM` |
| **Active local trajectory** (`src/planner_manager.cpp`, `local_data_`) | id, start time, spline, progress | `commitLocalTrajectory`, `EmergencyStop` | inside `ReplanFSM` |
| **Local planning pipeline** (`reboundReplan` in `src/planner_manager.cpp`, `include/plan_manage/candidate_plan.h`, `plan_deadline.h`) | stage, seed flags (static), optimiser members, deadline | seed, initialise, rebound, refine, validate, commit; the solver's runs in between | `LocalPlanning` |
| **FollowRoute action server** (`src/follow_route_server.cpp`) | the mission, its time stamps, finished ids | goal, accepted, cancel, monitor timer (100 ms), `finish` | `FollowRouteServer` |
| **Closed-loop controller** (`src/closed_loop_controller.cpp`, `include/plan_manage/planner_heartbeat_gate.h`) | cached trajectory, heartbeat gate, pose age, safety latch, filters | bspline / heartbeat / pose callbacks, command timer (50 Hz) | `ClosedLoopController` (authority only) |
| **Topics** `planning/bspline` (depth 1, reliable, transient local), `planning/planner_heartbeat` (depth 1, reliable, volatile) | what is on its way, what is latched | publish, deliver, overwrite | `MotionLink` |
| **Command governor, yaw filter, slew limiter** (`include/plan_manage/path_command_governor.h`, `yaw_command_filter.h`, `slew_rate_limiter.h`) | last command, launch / stop / direction flags, filter memories | one update per control period, resets | `CommandGovernor` |
| **Pure pursuit, recovery sweep** (`path_tracking_controller.h`, `pure_pursuit_recovery_sweep.h`) | alignment mode | compute a target; which candidates are swept | `TrackControl` |
| **Reference route** (`src/reference_route.cpp`) and its trackers: `reference_path_tracker.h`, `local_trajectory_tracker.h`, `src/route_progress_tracker.cpp` | progress, movement credit, last position, lap | reset, project, advance | `ReferenceRoute`, `RoutePursuit`, `LocalProgress`, `RouteProgress` |
| **Merge reference builder** (`src/merge_reference_builder.cpp`) | - | extend past corners, count, sample, fade | `MergeReference` |
| **Occupancy map** (`src/planner/plan_env`) | sliding window over a ring buffer, log odds, inflation counts, pending points, revision | clouds, poses, depth, fusion timer, queries, edits | `GridMap`, `RayCaster` |
| **A\* search** (`src/planner/path_searching`) | node pool with round numbers, open set | `AstarSearch` | `DynAStar` |
| **Spline optimiser** (`src/planner/bspline_opt`) | control points, directions, stop type, restart counters | collision segments; rebound and refine runs | `CollisionSegments`, `LocalPlanning` |
| **ZsiBot bridge, UDP client, SDK proxy** (`src/zsibot_cmd_bridge`) | last command and its age, stand-up state, owner lock | timers, callbacks, receive loop, start and stop | `SdkDrive`, `SdkOwnerLock` |
| Trajectory acceptance validator | - | sampling against limits | a stage of `LocalPlanning` that passes or fails |
| `local_route_progress_map.cpp`, `lbfgs.hpp` arithmetic, `uniform_bspline.cpp`, `polynomial_traj.cpp` | - | tables and real arithmetic | not modelled |
| Global path publisher, open-loop controller, simulators, visualisation, launch files, SDK | - | - | not modelled |

### 1.2 How they interact

    goal / path topics, FollowRoute goals                    body_pose, tf_ready
               |                                                   |      |
        FollowRouteServer --startFollowRoute, cancel-->  SCANReplanFSM    |
               ^-----------polls outcome, state----------/     |   |      |
                     (one process, one executor)               |   |      |
                                            planning/bspline   |   | planning/planner_heartbeat
                                                               v   v      v
                                                        ClosedLoopController ---> cmd_vel
                                                                                     |
                 zsibot_cmd_bridge (direct)  or  zsibot_cmd_udp_client ~~UDP~~> zsibot_sdk_proxy
                                        \___________ SdkOwnerLock ___________/ ---> HighLevel::move

Inside the planner, one cycle calls in turn: `GridMap` (fed by its own callbacks and timer, same executor), the local target
chosen by the reference path tracker (`RoutePursuit`), `reboundReplan` (`LocalPlanning`), which uses the collision segments and the
A\* search. Inside the controller: progress on the trajectory (`LocalProgress`), pure pursuit and governor (`TrackControl`).

The planner node spins on a `SingleThreadedExecutor` (`src/scan_planner_node.cpp:32`), so its callbacks never overlap: a
callback is one step of the model, and what interleaves is callbacks. The controller is another process. The two topics
are each in order, but nothing orders one against the other; both have depth one, so a late reader sees the newest
message only; `planning/bspline` is latched for late joiners and `planning/planner_heartbeat` is not.

A B-spline alone moves nothing. The controller follows its cached trajectory only while the last heartbeat is fresh,
allows motion, and carries the same id *and* start time (`doc/局部路径闭环控制升级与真机测试指南.md`, section 1.3: the id
alone starts at 1 again when the planner restarts).

### 1.3 What is hard here

* **The right to move is spread out.** Whether a heartbeat allows motion is recomputed from three members (state, trajectory
  id, progress id) that a dozen callbacks write. A transition that forgets to announce it leaves the robot moving until
  the next timer; a transition back into a moving state could hand the right back to a trajectory kept from before.
* **Flags armed far from where they are used.** `flag_escape_emergency_` asks for an emergency hold; it is cleared in
  EMERGENCY_STOP and armed again only by a success in GEN_NEW_TRAJ or by the failure limit.
* **Outcomes outlive routes.** The server polls `last_reference_route_outcome_`, which the next route resets only on success.
* **Four exits for a route** (done, failure limit, lost pose, lost transform tree or clock), each with its own copy of the reset.
* **Two processes, two topics, crashes.** A grant may arrive before its trajectory, after it was superseded, from a planner
  that has died since, or from its successor with the same id.
* **Memory that outlives its use.** The A\* node pool, the optimiser's stop type and static seed flags, the inflation counts, the
  governor's filters: each is reused by the next call, and correct only if what was left behind is recognised as old.
* **Commands that stand.** The robot keeps its last velocity. Two watchdogs, a lossy network, a stand-up and a lock decide how
  long, and whose.
* **Loops and corners.** A loop ends where it starts; a route passes beside itself; progress has to be earned, not guessed.
* **Liveness.** A replan whose trajectory lost its progress can never succeed; a hold must end; a mission must get a result.

### 1.4 What makes each component correct

* *State machine*: the last heartbeat always says what the state implies; authority is given only together with a new
  trajectory and never comes back; an emergency is held; localisation is present outside INIT; an active route is what is
  pursued; a decided route is not driven; failures are bounded; every takeover advances the task revision; planning and
  emergencies end.
* *Action server*: a mission succeeds only if its own route was completed; a mission reported over is not driven; the end of
  a route leaves an outcome; cancels and stuck missions are answered.
* *Controller and link*: motion rests on a grant the planner sent recently; nothing given up is resumed; a lasting grant is
  followed.
* *Drive chain*: one owner of the SDK; motion no older than the watchdogs allow; a process that leaves in order leaves the robot
  stopped; nothing moves before the robot stands.
* *Map*: a slide keeps what stays in the window and nothing else; no inflation without an obstacle; an obstacle blocks (refuted, 5.5).
* *Search, optimiser*: a path is valid whatever earlier searches left, and so is a failure where the search plane meets the end (on a
  descent it does not: section 5); collisions are found and answered by the right path; what a stage leaves reaches no rebound run, and a
  refinement only so far that it hands on the points it was given.
* *Control*: speed never jumps up; no stop and go, no standing for good; the recovery sweep covers what is then commanded.
* *Progress*: never ahead of what was driven, never behind an obedient robot; a route is not finished early and never stuck.

## 2. Modules

| Module | Content |
|---|---|
| `MotionAuthority` | Abstract specification, two variables: what the bspline topic holds, what the last heartbeat grants. Publish, Clear, Revoke. |
| `ReplanFSM` | The state machine, all modes. Implements `MotionAuthority` (`ServesAsAuthority`). |
| `ReplanFSM_proofs`, `ReplanFSM_tasks` | Invariants of `ReplanFSM`, proved: authority; tasks, routes and messages. |
| `ReplanFSM_refinement` | The proof that `ReplanFSM` implements `MotionAuthority`. |
| `FollowRoute_proofs`, `MotionLink_proofs`, `SdkDrive_proofs` | Proofs about the action server, the link and the drive chain. |
| `LocalPlanning_proofs`, `LocalControl_proofs` | Proofs about the components of the planning and of the control cycle, each about its own specification. |
| `FollowRouteServer` | The action server composed with `ReplanFSM`: one shared executor, so their callbacks interleave one at a time. |
| `ClosedLoopController` | The controller's callbacks as operators from a state to the states it may leave. |
| `MotionLink` | `MotionAuthority` as the planner, two topics, the controller, time. |
| `MotionLinkHistory` | `MotionLink` with two history variables and its safety properties. |
| `SdkOwnerLock`, `SdkDrive` | The lock; the bridge, client, proxy, network and robot on top of it. |
| `RayCaster`, `GridMap` | The ray traversal; the occupancy map. |
| `DynAStar` | The search with its node pool. |
| `LocalPlanning` | `reboundReplan`, the optimiser's runs and the solver's control flow. |
| `CollisionSegments` | Collisions to segments to paths to directions. |
| `CommandGovernor`, `TrackControl` | The governor; pure pursuit in front of it, and the planner's sweep. |
| `ReferenceRoute` | The polyline, its projections, and the movement credit shared by the trackers. |
| `RouteProgress`, `RoutePursuit`, `LocalProgress`, `MergeReference` | The lap-counting tracker; the pursuit of a route by the state machine; progress on the local trajectory on both sides of the heartbeat; the merge builder. |
| `MCReplanFSM`, `MCFollowRoute`, `MCSdkDrive`, `MCGridMap`, `MCLocalStack` | Instances for TLC. |

The chain is compositional. `MotionLink` does not carry the state machine along: it uses `MotionAuthority`, and
`replan_safe` checks and `ImplementsAuthority` proves that `ReplanFSM` implements it, under the refinement mapping *latched* = id of the last bspline
message (none before the first), *granted* = id in the last heartbeat. What the controller needs of the planner is exactly
that: one latched trajectory, and a grant that is only ever for the latched one and never returns once revoked.

### 2.1 ReplanFSM

One variable, the record `fsm`, holds the members of `SCANReplanFSM` under the code's names. A helper of the code
(`changeFSMExecState`, `publishTrajectoryClear`, `finishProcess`, ...) changes members and publishes in turn, and callbacks
call helpers in sequence; so a helper is an operator from states to states, and a callback applies them in the code's order
in one step. Helpers with several results (`callReboundReplan`, `planFromCurrentTraj`, `startFollowRoute`,
`planNextWaypoint`) return the set of their outcomes `[ok, st]`. The field `out` is the sequence of messages the last callback
published, on both topics, in the order of the calls. `task`, `target` and `bspline` are history: the task that last took
over, what the local trajectory was planned towards, the last id on the bspline topic.

`execFSMCallback` is split by state and branch (`ExecInit` ... `ExecEmergencyExit`); the trailing `finishProcess()` is part of
each branch that reaches it, and the branches that return early do not have it, as in the code. The one branch without an
action is EXEC_TRAJ's error for a trajectory that lost its progress (lines 1505-1514): `ExecKeepsProgress` says that no
reachable state takes it, checked and proved. `ServerCalls` are the calls `FollowRouteServer` may make in callbacks of its own (start, cancel,
reset), so every property of `ReplanFSM` is checked and proved with them interleaved. Abstractions:

* Geometry. Whether the robot is near a waypoint, at the end of the route, off the path, or near an obstacle is a free
  choice among the branches the code's guards leave open. Every guard on flags is kept.
* `callReboundReplan` ends in: no candidate committed; one committed whose progress cannot be initialised, so the code clears
  it again; or committed, published, announced. `planFromCurrentTraj` refuses without matching progress and otherwise tries
  twice. `callEmergencyStop` cannot fail: its hold trajectory is stationary and initialises its own progress.
* Commit compares input revisions. Planning and commit run in one callback of a single-threaded executor, so revisions cannot
  change between them and the mismatch branch has no outcome.
* The id wraps at `MaxTrajId` (INT_MAX in the code) and the task revision at `RevModulus` (2^64).

Messages that are refused before any member changes (empty path, unknown frame) are stuttering.

### 2.2 FollowRouteServer

Variables are `mission_`, `finished_mission_ids_` and two histories (last result, missions whose own route was completed).
`HandleGoal` is `handleGoal` + `handleAccepted`, one dispatch on this executor (so the branch for a cancel that races the accept
has no action). `MonitorVerdict` is the ladder of `monitorCallback` in its order; time is counted in monitor periods and the
two timeouts are small numbers of them. The state machine's own callbacks are `Callbacks` of `ReplanFSM`; what the server does
to it is written with `RouteOutcomes`, `CancelFollowRoute` and `ResetFollowRouteCancel`, and `DrivesPlanner` says that the
result is a behaviour of `ReplanFSM`'s `Spec` (checked, and proved as `ServerDrivesPlanner`): the theorems about the state machine hold under this server. `DropTask`, `FinishProcess` and the route's outcomes are those of `ReplanFSM`.

### 2.3 ClosedLoopController and MotionLink

A controller state holds the cached trajectory's double identity, the gate (identity and age of the last permission), pose age,
the age of the step clock, the safety latch, and the identity the last command follows (none: zero command). `Track` covers both
tracking modes: a period either moves, settles at the end, resets after too long a step, or gives up an infinite target.

The planner process may crash at any time (unsent messages may be lost), restart (ids start again at 1, start times do not
repeat as long as the system clock moves on), or be silent. `Sent` is keep-last-one at both ends: of the messages
not yet taken, at most one older survives (the one the reader may already hold). A restarted controller is given the latched
trajectory, not the heartbeats. `Tick` keeps the command timer's period and lets a heartbeat travel at most `MaxDelay` ticks;
trajectories may be delayed without bound. Poses go bad and either process restarts in every run; `BadPaths` says whether a
trajectory may also be rejected, or its tracking fail, for what it contains.

### 2.4 SdkOwnerLock and SdkDrive

`SdkOwnerLock` has the three system calls of `sdk_owner_lock.hpp` as steps of their own, so that a clean-up of the directory (external:
it removes a lock file nobody holds) falls between them. `SdkDrive` adds what an owner keeps, the client, packets on their way (they may be lost, duplicated, delayed up
to `MaxDelay`, reordered), the socket's buffer and the robot. A tick is the senders' period; in a tick every running process serves its
timer or loop once. Processes may die at any step, or leave in order, or by an exception during their start. The bridge measures ages with the ROS
clock, which may be set back; the proxy uses a steady clock and is not affected (`SetBack`).

### 2.5 GridMap and RayCaster

A map is `[origin, occ, cnt]` over ring-buffer addresses; `ToAddress`, `HashIdToGlobalIndex` and the slab clearing of `Slid` work on addresses as the
code does, and the properties compare them with the cells they stand for. Log odds are steps; `Fused` is the tally of hits and misses of a
round; occupied and free transitions add and subtract inflation counts (`UpdateInflation`). The three callbacks store points and a
pending flag; the timer casts them. `setOccupancy` and `resetBuffer`, which nothing calls, are behind `Edited`. Depth images are the points they project to.

### 2.6 DynAStar, LocalPlanning, CollisionSegments

`DynAStar` is a search per behaviour segment, several in a row over the same `nodes`; the queue may yield any cheapest entry, and
after a cost was lowered in place (the code does not reorder the queue) any entry: `Top`. Nodes are cells in three dimensions. A step goes to one of eight
neighbours in x and y; its height is that of the plane through both ends, `Height`, and both it and the index of a point (`Coord2Index`) are rounded as the
code does it: a half is added and the fraction cut off *towards zero* (`Cut`), which below the centre of the pool rounds up. Points are in half and
quarter steps, so the arithmetic is exact (doubles may differ at a tie); step lengths are octile, in fifths of a step, where the code takes the Euclidean length of
a step that climbs by more than one, and headings are rounded to the nearest of eight: all three touch the order of the queue or an adjusted end only. A
deadline that passes in the middle of an expansion leaves nodes half updated; they carry that round's number, so the next search does not read them,
and the model lets it pass between expansions. `LocalPlanning` follows the call stage by stage; a solver run is its
evaluations, with the points the optimiser's callbacks write (`trial`, `accepted`) told apart, because the solver and the optimiser share
them. `Passing` lets the deadline expire in any step; polls see it where the code polls. Costs do not appear: a run ends in any way its control flow allows.
`CollisionSegments` reads any sequence of free and occupied samples. It has the two sweeps (samples at first, control points later), the
dropping and merging of segments during the search, and the assignment of directions with inheritance from neighbours.

### 2.7 CommandGovernor, TrackControl

Speeds, curvatures and yaw rates are integers in units that make curvature times speed a yaw rate; the dead zones, limits and filter
gains keep the ratios of `config/controllers.yaml` where it matters (start above stop, dead zone below synchronisation), and the low pass divides
by `Smoothing`. `TrackControl` holds one observation of the path for as long as it likes, or changes it: `held` counts the periods a held
observation moves nothing. The planner's sweep is computed from the same observation, without knowing the controller's memory, as in the code.

### 2.8 ReferenceRoute and its trackers

Segments run along the axes, so arc lengths are integers. `Projected` is the search in a window bounded by the movement credit, which
`RoutePursuit` and `LocalProgress` use and `RouteProgress` replaces by its candidates over laps and the seam gate. In `RoutePursuit` the robot is obedient (it
drives to the chosen target) or goes where it likes; in `RouteProgress` it follows the route, or wanders; what is then true of the tracker is
the property. `LocalProgress` has both trackers, the latched trajectory, a heartbeat on its way and a controller that restarts.
`RouteProgressTracker` and `MergeReferenceBuilder` are used by their unit tests only so far.

### 2.9 MCLocalStack

The components of 2.5 to 2.8 are called in turn and share no state: what one hands to the next (an inflated world, a segment to search, a
target, an observation) is an input of the next, chosen freely from its set. One run therefore checks them all: `component` names
the one at work in a behaviour, the others keep their initial state, and the state space is the sum of theirs.

## 3. Runs

Safety runs:

| Run | Instance | Shows |
|---|---|---|
| `replan_safe` | modes 1-3, two tasks, three waypoints, `MaxFail` 2, ids wrap at 3, revisions at 2, one mission, all losses and clock jumps (141 thousand states, complete) | `TypeOK`; `AuthorityCurrent`: heartbeats are never out of date; `ExecKeepsProgress`; `EmergencyHeld`; `LocalisedOutsideInit`; `ActiveRoutePursued`; `TerminalRouteNotDriven`; `FailureLimit`; `AuthorityFollowsBspline`: a grant never overtakes its trajectory; `TakeoverAdvancesRevision`; `ServesAsAuthority`: refinement of `MotionAuthority` |
| `follow_safe` | two missions, one route, all losses | `SuccessIsEarned`; `DecidedMissionNotDriven`; `NoOrphanMission`; `DrivesPlanner`: refinement of `ReplanFSM` |
| `link_safe` | two start times, the same id for every trajectory, all faults (1.6 million states) | `MotionIsGranted`; `NoResurrection` |
| `sdk_drive` | bridge and proxy, two lock files, all periods, delays and buffers 1, the clock set back once | `SingleOwner`; `StaleMotionBounded`; `OrderlyStop`; `StandsBeforeMoving` |
| `local_stack` | section 3.1 (193 thousand states, complete) | the fourteen properties of 3.1 |

Liveness runs:

| Run | Fairness | Shows |
|---|---|---|
| `replan_safe` (the same run) | WF of the exec timer, except that the pose need not time out | `PlanningDecides`, `EmergencyLeft` |
| `follow_stuck` | WF of the monitor timer only; `FailSafe` off, so EMERGENCY_STOP may last | `CancelAnswered`, `EmergencyAnswered` |
| `link_live` | WF of the heartbeat timer, delivery, pose, command timer, time; trajectories are good (`BadPaths` off) | `GrantIsFollowed`: for a grant that lasts and is not given up |

Runs that refute a line of the repository are in section 5.

### 3.1 The run local_stack

| Component | Instance | Properties |
|---|---|---|
| `GridMap` | a ring of 3 x 2 cells, sensor and points on its three columns, so that the window moves by one or two cells, one point per cloud, all sources, edits | `SlideKeepsOverlap`, `NoGhostInflation` |
| `DynAStar` | a pool of 7 x 4 x 7, one side outside the map; a wall as high as the centre, and two full columns with one at an end; four requests (diagonally on the level, up over the wall, down by three steps, within a cell), two searches in a row, heading offsets 0 and 1, a limit of 8 expansions | `SearchSound`, `FailsOnlyWhenCutOff` |
| `LocalPlanning` | two iterations of two evaluations, one restart, one rebound; any number of calls | `LeftoversContained` |
| `CollisionSegments` | ten control points, three samples each, every reading | `CollisionsAnswered` |
| `TrackControl` | 19 observations, held or changed; `Patience` 20 periods | `SpeedsUpGently`, `NoStopAndGo`, `SweepCoversCommand` |
| `RouteProgress` | a loop of two laps and an open route that returns beside its start; every robot on a 3 x 2 yard | `ProgressIsTrue` |
| `RoutePursuit` | a loop inside the planning horizon and a hook, taken over wherever the robot is; free and with a wall | `FinishIsEarned`, `ObedientRobotGoesOn` |
| `LocalProgress` | a trajectory that runs over its own end, and a hold; two commits, controller restarts; the distance driven is recorded up to 1, which with the credits and `EndRemaining` 4 is what the trajectory of 6 takes | `LocalProgressIsEarned` |
| `MergeReference` | a loop and a route with corners closer than the clearance; every range of 13 arc lengths | `MergeHolds` |

*Bounds.* The map is as small as a window with a ring seam in one axis and two rows can be; two slides bring every address back to a cell
it held before. Two searches are the one that leaves nodes behind and the one that could trust them. A restart and a rebound each
leave a stop type, counters and points to the next solver run, and calls repeat without bound. Ten control points with two thirds of them swept
give room for two segments, with every gap up to and beyond `EnoughInterval`. `Patience` is longer than any sequence launch, filter, reversal and
preparation need in these units. Two laps have a first, a seam and a last.

The components share no state, and the one not at work stays as it began: the VIEW `AtWork` leaves out the search and its pool,
the largest of the states, while another component works. `CHECK_DEADLOCK FALSE` in `local_stack` and `map_loses_obstacle`: a search number, a merge or a sweep comes to its end, and the
instance stops there.

**Why the bounds are enough.** Ids: three values let a trajectory be superseded twice and wrap; safety of authority compares ids
only for equality. Failures: a limit of 2 distinguishes first, last and surplus failure. Two tasks: the new and the superseded.
Waypoints: first, middle, last. `MaxFinished` is larger than the missions (emptying the full set is described in
section 5).
Revisions wrap at 2: a takeover that advanced twice, or not at all, would show. Link: two start times are the trajectory and the one that replaces it; with one id every trajectory of every life
looks alike by id, which is the worst case of ids given again (comparing ids only, `PlannerHeartbeatReadyIdOnly`, violates
`MotionIsGranted`). `follow_safe` uses `RevModulus` 1 and a VIEW without published messages and bspline id: no action of the
composition reads them, and no property of that run mentions them.

**Fairness.** Wall timers of an executor that is never blocked for ever; the code has no blocking call in a callback except bounded
planning. Losing the pose is an outcome of the exec timer that fairness never asks for (`ExecServed`): otherwise a lost pose would
answer every question of liveness. WF of the exec timer includes the assumption that a robot under an emergency hold finally
reports (almost) no speed: a callback that finds nothing to do is a stuttering step, so fairness of the branch that leaves says it is finally taken.
Obstacles and planner failures are never assumed to end. In `link_live` a planner need not be restarted, and nothing limits how often poses go bad: the property speaks of the
behaviours in which the controller at last keeps its pose and the granted trajectory (or has it on its way).

**Mutants.** Each property has a faulty variant of a definition beside it in the module ("Faulty variant"): a state change that is
not announced, a flag not armed, a hold asked for ever, an outcome not reset, a heartbeat before its trajectory, an id compared
without its start time, a clear that keeps the trajectory, a step clock that is not restarted. TLC finds the property violated.

Some properties are conjunctions of named parts, each with a mutant of its own (`LeftoversContained` has four).

Deadlock is checked in every other run; there is none.

## 4. Proofs

Every theorem below holds for all values of the constants that the named assumptions of the modules allow (`FsmAssumption`,
`GovernorAssumption`, ...: what the code's own configuration checks demand), plus the hypothesis in the second column where there is one.
A name in brackets is the property of a run that the theorem states.

| Module | Theorem (hypothesis) | States |
|---|---|---|
| `ReplanFSM_proofs` | `TypeCorrect` [`TypeOK`], `Inductive` | the members keep their types; the inductive invariant `IInv` |
| | `AuthorityIsCurrent` [`AuthorityCurrent`], `LocalisationHolds` [`LocalisedOutsideInit`], `EmergencyHolds` [`EmergencyHeld`], `FailuresLimited` [`FailureLimit`] | its four parts |
| `ReplanFSM_refinement` | `ImplementsAuthority` (`ManyIds`) [`ServesAsAuthority`] | `ReplanFSM` implements `MotionAuthority` |
| `ReplanFSM_tasks` | `TasksInductive` | the inductive invariant `TaskInv` |
| | `ProgressIsKept` [`ExecKeepsProgress`], `RouteIsPursued` [`ActiveRoutePursued`], `EndedRouteStops` [`TerminalRouteNotDriven`] | its parts |
| | `GrantFollowsTrajectory` [`AuthorityFollowsBspline`], `TakeoverIsRevised` (`WideRevision`) [`TakeoverAdvancesRevision`] | two action properties |
| `FollowRoute_proofs` | `ServerInductive`, `ServerTypes`, `MissionsInductive` (`ActionDeployment`) | the inductive invariants of the server |
| | `ServerDrivesPlanner` [`DrivesPlanner`] | the server with the state machine implements `ReplanFSM`'s `Spec` |
| | `AnsweredOnce` | a mission is answered once, as long as it is remembered |
| | `SuccessEarned` [`SuccessIsEarned`], `NoMissionIsOrphaned` [`NoOrphanMission`] (both `ActionDeployment`), `AnsweredIsNotDriven` (and `FewMissions`) [`DecidedMissionNotDriven`] | what the client is told is true |
| `MotionLink_proofs` | `LinkInductive`, `HistoryInductive` | types; the inductive invariant `LinkInv` |
| | `MotionRestsOnGrant` [`MotionIsGranted`], `GivenUpForGood` [`NoResurrection`] | motion rests on a recent grant; what was given up stays so |
| `SdkDrive_proofs` | `DriveTypes`, `OneOwnerOfTheSdk` [`SingleOwner`], `MotionHasOwner` [`OrderlyStop`], `MovesOnlyAfterStanding` [`StandsBeforeMoving`], `MotionAgeBounded` [`StaleMotionBounded`] | the drive chain |
| `LocalPlanning_proofs` | `LeftoversAreContained` [`LeftoversContained`] | the stages of a plan: how far a stop, a flag or a trial point reaches |
| | `CollisionsGetDirections` [`CollisionsAnswered`] | the optimiser's segments |
| | `SearchIsSound` [`SearchSound`], `FailureIsHonest` [`FailsOnlyWhenCutOff`], `NoPathDownhill` | the A\* search: its paths; its failures where the plane meets the end; no success where it does not |
| | `OverlapIsKept` [`SlideKeepsOverlap`], `NoGhosts` [`NoGhostInflation`] | the occupancy map |
| `LocalControl_proofs` | `CommandsWithinLimits`, `GentleSpeedUp` [`SpeedsUpGently`] | governor and tracking controller |
| | `SweepIsEnough` (`SweepDeployment`) [`SweepCoversCommand`] | the planner's recovery sweep against the controller |
| | `LocalProgressEarned` (`DistanceIsRecorded`) [`LocalProgressIsEarned`] | progress on the local trajectory, in both processes |
| | `FinishEarned` (`WayIsRecorded`) [`FinishIsEarned`] | the end of a pursued route |
| | `ProgressEarned` (`MissionIsRecorded`), `CompletionIsTold`, `ProgressIsForGood` | the lap tracker: `ProgressIsEarned` of `ProgressIsTrue`; completion; monotony |
| | `FollowerIsNotLost` (`FinelyFollowed`), `ProgressTrue` (and `MissionIsRecorded`) [`ProgressIsTrue`] | a robot that follows its mission is neither lost nor shortened; both sides of the property |
| | `MergeIsSound` (`RouteHoldsSamples`) [`MergeHolds`] | the merge builder |

### 4.1 The arguments

*State machine* (`IInv == TypeOK /\ Good(fsm)`). `Good` is the conjunction of the four safety facts as predicates on states
(`Current`, `Located`, `Armed`, `Limited`). None of them is inductive alone. After the 50 ms safety timer moves the
state machine to EMERGENCY_STOP, a hold will be asked for only because the flag was still armed (`Armed` on moving states); a moving
state below the failure limit (`Limited`) is what makes `ExecReplanDue`'s trailing `finishProcess` a no-op; `Located` needs that a
pose counted as present has no timeout being served, which is the second conjunct of `LocalisedOutsideInit`: without it the exec
timer could skip the clear and leave authority standing (`Current`).

*Refinement of the authority.* Between two states of one callback the latched trajectory and the grant may be kept (the grant perhaps
lost), cleared, or replaced by a new trajectory (`Keeps`, `Clears`, `Publishes`). Each helper has a lemma that says which of the three it can
be, and `LosesTwice` composes them along a callback, so that the whole callback is one step of `MotionAuthority` or a stutter. It needs
`AuthorityCurrent` (a heartbeat repeated with nothing changed grants nothing new) and `Latch`: the bspline topic holds nothing, a
clear, or the id of `local_data_`, so that a new id is new to the topic too.

*Tasks* (`TaskInv == IInv /\ Tasked(fsm)`). Progress belongs to the trajectory last published (`Linked`); only mode 3 has routes, so no goal
and no waypoint can move the target under one (`Routed`); a route with a verdict is in EMERGENCY_STOP and will hover (`Ended`); a task
comes and goes with the pose (`Posed`). `ProgressIsKept` is what justifies that the model has no action for EXEC_TRAJ's branch on lost progress.

*Server* (`SInv`, `EInv`, `AInv`). Each callback of the state machine leaves a route as it is, ends it with a verdict, or loses it (`Fate`); the server's
callbacks are calls that `ReplanFSM` allows (`ServerDrivesPlanner`), because a cancel pending in the planner is always that of the active
mission (`Owned`). `EInv` adds that an active route is the mission's own and that one which left with success was recorded; `AInv` that a route which
outlives its mission is that of an answered one.

*Link* (`LinkInv`). `Fresh` bounds how long ago a trajectory was granted by what still speaks for it: a heartbeat is as old as its way, the gate as
old as its heartbeat and the time since, the command as old as the gate and one tick. `Order` says that start times rise from what was
given up over what is held to what is on its way: hence nothing given up returns, whatever the ids.

*Drive chain.* The lock first (`LockInv`: the file of an owner is the one the path names, since a held file is not cleaned up), then types, then who
moves the robot (`Mover`, `SeenStanding`), then ages: each of bridge, client, network, buffer and proxy adds its own bound, and clock steps add up.

*Stages, segments, search, map.* `PlanInv` names who may have written the optimiser's memory at each stage; its part `RefinementUntouched` says that until a
refinement's first trial has passed the stop poll its points are those it was given, so a stop the rebound left cancels it with these. `SegInv` follows the sweep: while an obstacle is
entered, everything read of it lies between its beginning and the last sample it was left at. `StarInv` says that the nodes closed and open *in this round* form a
tree towards the start whose costs fall to the parent (`TreeOf`), whatever an earlier search left in them; so the walk back from the end is finite and
ends at the start. `CutInv` adds for offset zero that the closed cells are left over open cells only, so an empty queue proves the end cut off, where the
plane meets the end. Whether it does is `HeightAtEnd`: with `q` steps from the centre to the end the code computes `q + 1/2`, cut off towards
zero, which is `q` from zero up and `q + 1` below. So a search down to `q < 0` expands a node beside or above its end and never the end itself: the last step of a path would have to
lead to the height of the plane (`NoPathDownhill`). `FailsOnlyWhenCutOff` excludes exactly these ends, by `PlaneMeetsEnd`, and ends above each other. `GridInv`
bounds each inflation count by the occupied cells that cause it, by induction over the cells an update or a cleared slab touches.

*Commands and sweep.* `TrackInv`: while the robot moves, the command is the limiter's speed and at least `MinSpeed`. For `SweepIsEnough` the case that counts is
a speed limited during a reversal of the yaw rate: clamping, the dead zone and the least rate of the robot are mirror images
in both signs (`ClampMirrored`), and each commanded arc lies between two candidates at the same speed (`DrivenIsSwept`, `SweptBetween`).

*Progress.* All three trackers carry the same invariant: progress plus credit, plus the way to the last credited pose, is paid for by the way driven
(`PlannerPays`, `PursuitPays`, `MissionPays`). The controller's is two credits ahead (`ControllerPays`, section 5). `MissionInv` also has completion.

*Followers.* `FollowerExact` is the inductive invariant of the lap tracker's other side: as long as the robot follows its mission, the confirmed progress is
the way it has gone along the route, the last credited pose is where it is, and its place on the route is there. One unit on, the stretch it is on is one of the
window (`WindowHolds`, `OwnStretch`) and offers its place exactly, at no lateral distance. Every other candidate scores worse (`BestIsHere`): one with a lateral distance because no detour within
the window outweighs it (`LaneIsNarrow`), one at the same point of the plane because it is more than a unit away along the route. The unit's credit pays for the unit
(`StepCredited`), and where the unit crosses the seam of a lap, it does so through the gate (`SeamStep`), so the step is confirmed (`StepConfirmed`).

*Merge* (`MergeGood`). What each phase has established of the range and the seed; the sampler cannot fail after the fit was checked, because the count made before it is an
upper bound of the samples (`RangeIsSampled`).

### 4.2 The hypotheses

| Hypothesis | Says | In the code |
|---|---|---|
| `ManyIds` | `MaxTrajId > 2` | INT_MAX. A replan whose first attempt is cleared uses two ids in one callback; with two ids the second would be the one still latched |
| `WideRevision` | `RevModulus > 1` | 2^64 |
| `ActionDeployment` | `~TopicTasks` | routes come from the action server, not on `/initial_path` as well |
| `FewMissions` | no more missions than remembered ids | `MAX_FINISHED_MISSION_IDS` is 4096; a full set is emptied (section 5) |
| `SweepDeployment` | `SignBand = DeadYaw`, and the alignment gain at the exit error reaches the start rate | one parameter `yaw_rate_deadband` in both processes (`src/closed_loop_controller.cpp:87-101`, `:192`, `src/scan_replan_fsm.cpp:201`); 0.80 \* 0.45 against 0.06 in `config/controllers.yaml`. Nothing checks either at start |
| `DistanceIsRecorded`, `WayIsRecorded`, `MissionIsRecorded` | the bound of a history variable is not below what a whole trajectory, route or mission takes to drive | no counterpart: the bound is the model's |
| `FinelyFollowed` | a follower moves by units of length that the deadband does not swallow; the gate is narrower than ten windows (`MaxLateral < 10 * Greater(SearchAhead, SearchBehind)`); legs are parallel to the axes, and no route turns back on itself within one unit; a window has at most `MaxChecks` segments | poses come every few millimetres against `movement_deadband` 0.02, below which travel is not lost but added up; 0.75 m against 2.0 m and the weight 0.01 (`route_progress_tracker.h:21-33`, `route_progress_tracker.cpp:350-352`); 4096 segments. The axes are the geometry of the model: there a projection is a point of the grid |
| `RouteHoldsSamples` | `MaxSamples <= MaxRoutePoints` | 4096 and 100000 |

Wherever a run checks a property whose theorem has a hypothesis, its instance satisfies that hypothesis. (`follow_safe` has one revision and two trajectory ids, so neither
`WideRevision` nor `ManyIds`; it checks no property that needs them.)

### 4.3 Technique

Each helper has a typing lemma and an effect lemma (which of the fields an invariant reads it changes, e.g.
`ChangeStateEffect`, `FinishEffect`, `ReboundEffect`); each callback's step follows the helpers it applies. The step lemmas have one
step per action. Only the QED of a theorem is temporal (PTL).

No module declares a RECURSIVE operator. Where a definition walks a list, an interval or a set (folds, recursive functions), what it computes is proved
by induction without an operator parameter: `NumberInduction` and `SetInduction` speak of the *set* of numbers or subsets a fact holds of, and
`SubsetRecursion` unfolds a fold over a set by one element. So what a route measures, what a ray or a cloud tallies and what a cleared slab leaves are proved
for every route, cloud and window.

### 4.4 Only model-checked, and why

* Liveness (`PlanningDecides`, `EmergencyLeft`, `CancelAnswered`, `EmergencyAnswered`, `GrantIsFollowed`): fairness and ENABLED are out of the prover's reach.
* `NoStopAndGo`: it depends on the numbers. Whether the yaw filter keeps up with the speed that follows it is a matter of `SpeedUp`, `YawStep`, `Smoothing`,
  the bands and `Patience`; it is false for gains that `GovernorAssumption` allows (TLC refutes it with `Smoothing = 40`).
* `ObedientRobotGoesOn`: it depends on the geometry. A route that stays within `minimum_local_target_distance` of the robot for its whole horizon offers no target,
  which the code's own parameter checks do not exclude (TLC refutes it with `MinTarget = 9`).
* `FollowerIsConfirmed` beyond `FinelyFollowed`: where a route turns back on itself within a unit, the candidates before and behind the turn are the same point and an earlier
  one may win (TLC: the open route `<<1,0>>, <<0,0>>, <<1,0>>, <<-1,0>>`); with a longer stride the displacement that is credited is shorter than the way round a bend.
* The refuted lines of section 5.

## 5. Disagreements between the code and what is said about it

With a run that shows them (`expect: violation`; the temporal ones under `ExecutorFairSpec`, WF of the exec and monitor timers):

1. `replan_superseded`. A comment in `startFollowRoute` says a valid new route supersedes the previous task even when its clean-up or
   global plan fails. The failing paths leave EXEC_TRAJ, so the next replan authorises a fresh trajectory for a task that is no more: after a failed clean-up or a refused
   tracker towards the old `end_pt_`, after a failed global plan towards the new one, which `planGlobalTrajByWaypoints` moved
   before it planned (`src/scan_replan_fsm.cpp:426`) though the task was given up.
2. `follow_dropped`. A goal accepted while the hover stop of its predecessor is pending is dropped without an outcome when
   EMERGENCY_STOP is left; "the action protocol requires a result for every accepted goal".
3. `follow_tf_lost`. A lost transform tree, or a receive time that jumps back, drops the route without an outcome; the README promises
   REASON_LOCALIZATION_LOST.
4. `follow_early_cancel`. "Stopped" is read off INIT / WAIT_TARGET, which is also where a route waits before it starts; `finish` then
   withdraws the cancel but not the route, and it is driven.
5. `map_loses_obstacle`. A cell that enters the window beside an obstacle has no inflation from it. When it is then seen occupied its count is 1,
   and when the neighbour is cleared its count goes to 0 while the cell is still occupied: `getInflateOccupancy` reports the obstacle as free. The
   header says the query answers for the body on occupied cells, and `isKnownFree` is "observed, inflation-free space".

Seen while modelling, without a run:

* `include/plan_manage/follow_route_server.h:24-28` says a canceled goal always ends with REASON_USER_CANCELED and that finished mission ids
  are rejected for ever. The ladder of the monitor may end a canceled goal with OK, ABORTED or LOCALIZATION_LOST, and `finish` empties
  the set when it is full.
* A pose fault that only the controller sees clears its trajectory under the safety latch; the state machine keeps EXEC_TRAJ and
  republishes nothing to a standing robot, since it replans by distance. No documentation promises otherwise.
* A manual goal the global planner refuses has already moved `end_pt_` (`src/scan_replan_fsm.cpp:402`). A route on `/initial_path` replaces the
  route of an active mission, which is then judged by it (`:785`). `need_hover_stop_` survives the resets to INIT, so a later recoverable
  emergency drops its task (`:1619`).
* The monitor's verdicts are tried in a fixed order, so a cancel that meets the end of the route is reported as OK
  (`src/follow_route_server.cpp:193`); a mission ended by a timeout leaves its route active (`:240`); the full set of finished ids is emptied and old ids
  are accepted again (`:267`).
* `src/planner/bspline_opt/src/bspline_optimizer.cpp:980` says "failing closed" when the search reaches its limit during a rebound. The flag it sets is
  read before the next trial only, so a run that converges in that evaluation goes on as solved. `costFunctionRefine` never resets the stop type
  (`:1302`), so a refinement may be canceled at its first trial by a stop left from the rebound, although there is time: `LeftoversContained` says that
  it then hands on the points it was given, not that it runs.
* `doc/SCAN-Planner算法与ROS2代码解析.md:322-345` says the height of a candidate is interpolated linearly between both ends and is that of the exit at the exit. The code
  cuts the interpolated index off towards zero (`src/planner/path_searching/src/dyn_a_star.cpp:242`, `dyn_a_star.h:153`): below the centre of the search it is one
  too high, and the goal, compared index by index (`dyn_a_star.cpp:291`), is never met. A search down by three steps or more ends in SEARCH_ERR, or at a limit, although a
  path exists. Proved as `NoPathDownhill`; `FailsOnlyWhenCutOff` is therefore about ends that are not below the centre.
* The search marks a neighbour with its round before it asks for the occupancy under the heading of that step (`src/planner/path_searching/src/dyn_a_star.cpp:330`), so a
  cell refused from one side may look explored from another: with a body offset a search may fail although a path exists.
  `FailsOnlyWhenCutOff` is therefore about offset zero.
* `include/plan_manage/path_command_governor.h:183` prepares a turn where the curvature forbids driving. For a curvature just above that limit the
  turn is below the yaw filter's start threshold, and the command stays 0/0; `NoStopAndGo` asks for motion outside this pocket (`Asks`).
* A heartbeat carries the controller's progress to the planner's without taking the credit the controller has for the same way, so a controller whose pose is late can
  adopt a heartbeat, advance by its credit where it last saw the robot, and advance again at the next pose: on a trajectory that passes the same place again it may be
  two credits ahead of the way driven, not one. `LocalProgressIsEarned` and its proof have the bound `2 * MaxAdvance`.
* An empty cloud leaves the points of the one before it pending for the timer. The marks of a ray round are one byte: after 256 rounds an old mark
  looks current and one update of a cell is skipped (`src/planner/plan_env/src/grid_map.cpp:703`; `StaleMarks`, empty in the runs).

## 6. Not modelled, and why

* *Real analysis*: spline bases, costs and gradients, polynomial seeds, the arithmetic of `lbfgs.hpp` (its control flow is in `LocalPlanning`), the
  sampling of the acceptance validator, the poses sampled along a recovery candidate. They are outcomes: any that the control flow allows.
* *Tables and transport*: `local_route_progress_map.cpp` (no node uses it), message formats, the text of UDP packets, point-cloud and depth decoding.
* *Outside the robot's planner*: the global path publisher (reads a file and publishes it), the open-loop controller (a bench tool), simulators,
  rendering, the gait publisher, visualisation, launch files, the vendored SDK and k-d tree.
* *Left as choices in* `ReplanFSM`: obstacle look-ahead, distances, and the global plan of the manual modes. The
  `/initial_path` topic together with the action server (`TopicTasks` is off in the server's runs): a deployment uses one of them.
* The composition of the full state machine with the controller's faults: a pose fault only the controller sees has no counterpart in
  `MotionAuthority`; its effect is bounded by the link's properties.

## 7. What is left

* **The pose fault only the controller sees** (section 5): a composition of `ReplanFSM` with the controller's faults would say how long a robot can stand
  with the planner in EXEC_TRAJ.
* **Geometry under hypotheses**: `ObedientRobotGoesOn` for routes that leave the minimum target distance within the horizon; `FollowerIsConfirmed` for strides longer than a
  unit, where the credit's scale has to cover what a bend takes from the displacement.
* **`NoStopAndGo` for a class of gains**: which relation of `SpeedUp`, `YawStep` and `Smoothing` lets the filter keep up.
* **The local progress table** (`local_route_progress_map.cpp`) once a node uses it.
