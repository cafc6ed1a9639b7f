--------------------------- MODULE LocalPlanning ---------------------------
(***************************************************************************)
(* One call of reboundReplan (planner_manager.cpp) after the other: the    *)
(* seed, the initialisation of the optimiser, rebound optimisation,        *)
(* refinement, validation and commit, with the optimiser's members and the *)
(* static flags that outlive a call.  An optimisation is a run of the      *)
(* solver (lbfgs.hpp), one step per evaluation; curves and costs are the   *)
(* outcomes they can have.  The deadline may pass in any step; what the    *)
(* last poll of a step saw is late'.                                       *)
(***************************************************************************)
EXTENDS Integers

CONSTANTS
  MaxIterations,        \* max_iterations of the solver
  MaxLineSearch,        \* evaluations of one line search
  CheckAfter,           \* evaluations before collisions are looked for
  MaxRestarts,          \* MAX_RESART_NUMS_SET
  MaxRebounds           \* rebounds of one optimisation

ASSUME PlanningAssumption ==
  {MaxIterations, MaxLineSearch, MaxRestarts, MaxRebounds} \subseteq Nat \ {0} /\ CheckAfter \in Nat

VARIABLES
  late,                 \* the deadline of the call has passed
  plan,                 \* the stage of the call and its arguments
  flags,                \* flag_first_call, flag_force_polynomial
  opt,                  \* members of BsplineOptimizer
  solver                \* the run of the solver

planVars == <<late, plan, flags, opt, solver>>

Stages == {"idle", "seed", "initialize", "rebound", "rebounding", "feasibility",
           "refine", "refining", "validate", "commit", "committed", "failed"}

NoRun == [at |-> "none", k |-> 0, count |-> 0, iter |-> 0, result |-> "none"]

PlanInit ==
  /\ late = FALSE /\ flags = [first |-> TRUE, polynomial |-> FALSE]
  /\ plan = [at |-> "idle", poly |-> FALSE, random |-> FALSE, seeded |-> FALSE, seeds |-> 0]
  /\ opt = [stop |-> "none", init_ok |-> TRUE, exceeded |-> FALSE, reference |-> FALSE,
            restarts |-> 0, rebounds |-> 0, points |-> "accepted"]
  /\ solver = NoRun

At(stage)  == plan' = [plan EXCEPT !.at = stage]
Passing == late' \in {late, TRUE}

(* stopForDeadline, with what the clock says.                              *)
StoppedLate(o)   == [o EXCEPT !.exceeded = TRUE, !.init_ok = FALSE, !.stop = "error"]
Polled(o, l) == IF l THEN StoppedLate(o) ELSE o

-----------------------------------------------------------------------------
(* The call, and the seed.                                                 *)

(* A call may come late, or with the target too close to plan for.  The    *)
(* deadline of an earlier call is forgotten.                               *)
ReboundReplan ==
  /\ plan.at \in {"idle", "committed", "failed"}
  /\ late' \in BOOLEAN
  /\ \E poly, random, seeded \in BOOLEAN, stage \in {"seed", "failed"} :
       plan' = [at |-> IF late' THEN "failed" ELSE stage,
                poly |-> poly, random |-> random, seeded |-> seeded, seeds |-> 0]
  /\ opt' = IF late' THEN opt ELSE [opt EXCEPT !.exceeded = FALSE]
  /\ solver' = NoRun /\ UNCHANGED flags

FromReference  == plan.seeded /\ plan.poly /\ ~plan.random
FromPolynomial == ~FromReference /\ (flags.first \/ plan.poly \/ flags.polynomial)

Seeded(reference) ==
  At("initialize") /\ opt' = [opt EXCEPT !.reference = reference]

SeedFromReference ==
  /\ plan.at = "seed" /\ FromReference /\ Passing
  /\ \/ At("failed") /\ UNCHANGED <<flags, opt>>
     \/ Seeded(TRUE) /\ flags' = [first |-> FALSE, polynomial |-> FALSE]
  /\ UNCHANGED solver

SeedFromPolynomial ==
  /\ plan.at = "seed" /\ FromPolynomial /\ Passing
  /\ Seeded(FALSE) /\ flags' = [first |-> FALSE, polynomial |-> FALSE]
  /\ UNCHANGED solver

(* Faulty variant: a degenerate rest of the previous trajectory is sampled *)
(* again.                                                                  *)
SeedFromPreviousAgain ==
  /\ plan.at = "seed" /\ ~FromReference /\ ~FromPolynomial /\ Passing
  /\ \/ Seeded(FALSE) /\ UNCHANGED flags
     \/ plan.seeds < 3 /\ plan' = [plan EXCEPT !.seeds = @ + 1] /\ UNCHANGED <<flags, opt>>
  /\ UNCHANGED solver

(* The rest of the previous trajectory, unless it is degenerate or the     *)
(* points are too many.                                                    *)
SeedFromPrevious ==
  /\ plan.at = "seed" /\ ~FromReference /\ ~FromPolynomial /\ Passing
  /\ \/ Seeded(FALSE) /\ UNCHANGED flags
     \/ /\ plan' = [plan EXCEPT !.seeds = @ + 1]
        /\ flags' = [flags EXCEPT !.polynomial = TRUE] /\ UNCHANGED opt
  /\ UNCHANGED solver

-----------------------------------------------------------------------------
(* initControlPoints: found a way around every obstacle, found none, or    *)
(* one too short to use.                                                   *)
Initialised(o, l) ==
  LET started == [o EXCEPT !.init_ok = TRUE]
      failed  == [o EXCEPT !.init_ok = FALSE]
  IN  IF l THEN {StoppedLate(started)} ELSE {started, failed, [failed EXCEPT !.stop = "error"]}

InitControlPoints ==
  /\ plan.at = "initialize" /\ Passing
  /\ opt' \in {[o EXCEPT !.restarts = 0, !.rebounds = 0] : o \in Initialised(opt, late')}
  /\ At(IF late' \/ ~opt'.init_ok THEN "failed" ELSE "rebound")
  /\ UNCHANGED <<flags, solver>>

(* check_collision_and_rebound: nothing new, the end is in an obstacle, no *)
(* way around was found, or new directions are set.                        *)
CheckCollisionAndRebound(o) ==
  {o, [o EXCEPT !.stop = "error"], [o EXCEPT !.stop = "error", !.init_ok = FALSE],
   [o EXCEPT !.stop = "rebound"]}

(* Faulty variant: the stop type is left as the last evaluation set it.    *)
CostFunctionReboundNoReset(o, iter, l) ==
  LET fresh == [o EXCEPT !.points = "trial"]
  IN  IF late THEN {StoppedLate(o)}
      ELSE {Polled(c, l) : c \in IF iter > CheckAfter THEN CheckCollisionAndRebound(fresh) ELSE {fresh}}

(* An evaluation moves the control points to the trial point.  After the   *)
(* deadline it moves nothing and returns a huge cost.                      *)
CostFunctionRebound(o, iter, l) ==
  LET fresh == [o EXCEPT !.stop = "none", !.points = "trial"]
  IN  IF late THEN {StoppedLate(o)}
      ELSE {Polled(c, l) : c \in IF iter > CheckAfter THEN CheckCollisionAndRebound(fresh) ELSE {fresh}}

(* Faulty variant: a refinement looks for collisions too.                  *)
CostFunctionRefineColliding(o, l) ==
  IF late THEN {StoppedLate(o)}
  ELSE {Polled(c, l) : c \in CheckCollisionAndRebound([o EXCEPT !.points = "trial"])}

(* A refinement neither clears the stop type nor looks for collisions.     *)
CostFunctionRefine(o, l) ==
  IF late THEN {StoppedLate(o)} ELSE {Polled([o EXCEPT !.points = "trial"], l)}

Evaluated(l) ==
  IF plan.at = "rebounding" THEN CostFunctionRebound(opt, solver.iter, l) ELSE CostFunctionRefine(opt, l)

Solving == plan.at \in {"rebounding", "refining"}
Returns(result) == solver' = [solver EXCEPT !.at = "returned", !.result = result]
Iter == IF late \/ solver.iter > CheckAfter THEN solver.iter ELSE solver.iter + 1

(* lbfgs_optimize: the first evaluation is at the points themselves.  The  *)
(* zero gradient of a late one looks like a minimum.                       *)
FirstEvaluation ==
  /\ Solving /\ solver.at = "first" /\ Passing
  /\ opt' \in {[o EXCEPT !.points = "accepted"] : o \in Evaluated(late')}
  /\ \/ Returns("already minimized")
     \/ ~late /\ solver' = [solver EXCEPT !.at = "progress", !.k = 1, !.iter = Iter]
  /\ UNCHANGED <<plan, flags>>

(* The direction does not descend.                                         *)
LineSearchRefused ==
  /\ Solving /\ solver.at = "progress" /\ solver.count = 0 /\ solver.k > 1
  /\ Returns("error") /\ UNCHANGED <<late, plan, flags, opt>>

(* earlyExit, before each trial of a line search.                          *)
Progress ==
  /\ Solving /\ solver.at = "progress" /\ Passing
  /\ opt' = Polled(opt, late')
  /\ IF opt'.stop # "none" THEN Returns("canceled")
     ELSE solver' = [solver EXCEPT !.at = "trial"]
  /\ UNCHANGED <<plan, flags>>

(* A trial that ends the line search badly leaves the control points at    *)
(* the trial point; the solver's own point is the last accepted one.       *)
TrialFails ==
  /\ Solving /\ solver.at = "trial" /\ Passing
  /\ opt' \in Evaluated(late') /\ Returns("error")
  /\ UNCHANGED <<plan, flags>>

TrialGoesOn ==
  /\ Solving /\ solver.at = "trial" /\ solver.count + 1 < MaxLineSearch /\ Passing
  /\ opt' \in Evaluated(late')
  /\ solver' = [solver EXCEPT !.at = "progress", !.count = @ + 1, !.iter = Iter]
  /\ UNCHANGED <<plan, flags>>

(* A trial that is accepted: converged, out of iterations, or on to the    *)
(* next direction.                                                         *)
TrialAccepted ==
  /\ Solving /\ solver.at = "trial" /\ ~late /\ solver.count + 1 < MaxLineSearch /\ Passing
  /\ opt' \in {[o EXCEPT !.points = "accepted"] : o \in Evaluated(late')}
  /\ \/ Returns("convergence")
     \/ IF solver.k = MaxIterations THEN Returns("maximum iteration")
        ELSE solver' = [at |-> "progress", k |-> solver.k + 1, count |-> 0, iter |-> Iter,
                        result |-> "none"]
  /\ UNCHANGED <<plan, flags>>

(* Faulty variant: a line search that ran out of evaluations is accepted.  *)
SolvedOrStuck == solver.result \in {"convergence", "maximum iteration", "already minimized", "error"}

Solved == solver.result \in {"convergence", "maximum iteration", "already minimized"}

-----------------------------------------------------------------------------
(* rebound_optimize and refine_optimize around the solver.                 *)
StartRun(from, to) ==
  /\ plan.at = from /\ Passing
  /\ opt' = Polled(opt, late')
  /\ solver' = IF late' THEN NoRun ELSE [NoRun EXCEPT !.at = "first"]
  /\ At(IF late' THEN "failed" ELSE to)
  /\ UNCHANGED flags

ReboundOptimize == StartRun("rebound", "rebounding")
RefineOptimize  == StartRun("refine", "refining")

Finished(stage) == plan.at = stage /\ solver.at = "returned" /\ Passing

RunTooLate ==
  /\ Finished("rebounding") \/ Finished("refining")
  /\ late' /\ opt' = StoppedLate(opt) /\ At("failed") /\ UNCHANGED <<flags, solver>>

(* The near part of the curve is free, or its very beginning is not.       *)
ReboundSolved ==
  /\ Finished("rebounding") /\ ~late' /\ Solved
  /\ At("feasibility") \/ At("failed")
  /\ UNCHANGED <<flags, opt, solver>>

(* The curve meets an obstacle farther on.                                 *)
ReboundRestarts ==
  /\ Finished("rebounding") /\ Solved
  /\ opt' \in {[o EXCEPT !.restarts = @ + 1] : o \in Initialised(opt, late')}
  /\ At(IF opt'.init_ok /\ opt'.restarts < MaxRestarts THEN "rebound" ELSE "failed")
  /\ UNCHANGED <<flags, solver>>

ReboundCanceled ==
  /\ Finished("rebounding") /\ ~late' /\ solver.result = "canceled"
  /\ opt' = [opt EXCEPT !.rebounds = @ + 1]
  /\ At(IF opt.stop = "rebound" /\ opt'.rebounds <= MaxRebounds THEN "rebound" ELSE "failed")
  /\ UNCHANGED <<flags, solver>>

ReboundSolverError ==
  /\ Finished("rebounding") /\ ~late' /\ solver.result = "error"
  /\ At("failed") /\ UNCHANGED <<flags, opt, solver>>

(* Whatever the solver said of the refinement, its points are taken if the *)
(* curve is free.                                                          *)
Refined ==
  /\ Finished("refining") /\ ~late'
  /\ At("validate") \/ At("failed")
  /\ UNCHANGED <<flags, opt, solver>>

CheckFeasibility ==
  /\ plan.at = "feasibility" /\ Passing
  /\ At("refine") \/ At(IF late' THEN "failed" ELSE "validate")
  /\ UNCHANGED <<flags, opt, solver>>

(* validateLocalTrajectory: every check, and the deadline, passed.         *)
Validate ==
  /\ plan.at = "validate" /\ Passing
  /\ At("failed") \/ (~late' /\ At("commit"))
  /\ UNCHANGED <<flags, opt, solver>>

(* tryCommit: the revisions are those the call started with, as no other   *)
(* callback runs during a call.                                            *)
TryCommit ==
  /\ plan.at = "commit" /\ Passing
  /\ At(IF late' THEN "failed" ELSE "committed")
  /\ UNCHANGED <<flags, opt, solver>>

PlanNext ==
  \/ ReboundReplan \/ SeedFromReference \/ SeedFromPolynomial \/ SeedFromPrevious
  \/ InitControlPoints \/ ReboundOptimize \/ RefineOptimize
  \/ FirstEvaluation \/ LineSearchRefused \/ Progress
  \/ TrialFails \/ TrialGoesOn \/ TrialAccepted
  \/ RunTooLate \/ ReboundSolved \/ ReboundRestarts \/ ReboundCanceled \/ ReboundSolverError
  \/ Refined \/ CheckFeasibility \/ Validate \/ TryCommit

PlanSpec == PlanInit /\ [][PlanNext]_planVars

-----------------------------------------------------------------------------
(* Properties.                                                             *)

(* No stop reaches another rebound run: whatever an earlier evaluation,    *)
(* run or call was stopped for, the first trial of a rebound run is not    *)
(* cancelled by it.                                                        *)
RunsStartUndisturbed ==
  plan.at = "rebounding" /\ solver.at = "progress" /\ solver.k = 1 /\ solver.count = 0 /\ ~late
    => opt.stop = "none"

(* A refinement is not protected: a stop its rebound leaves cancels it     *)
(* (bspline_optimizer.cpp:1302-1353 does not clear force_stop_type_).  But *)
(* then it is cancelled before its first trial, and what it hands on is    *)
(* the points it was given.                                                *)
CancelledAsGiven ==
  plan.at = "refining" /\ solver.result = "canceled" /\ ~late
    => solver.k = 1 /\ solver.count = 0 /\ opt.points = "accepted"

(* The curve a rebound optimisation hands on is the solver's result, not a *)
(* trial point the solver rejected.                                        *)
SolvedPointsKept == plan.at = "feasibility" => opt.points = "accepted"

(* The loop for a seed ends: a previous trajectory that cannot be used is  *)
(* not sampled a second time in a call.                                    *)
SeedLoopEnds == plan.seeds <= 1

(* How far what one stage of a call leaves in the optimiser and in the     *)
(* static flags can reach: no stop into another rebound run, a stop into a *)
(* refinement only to leave its points as they are, no rejected trial      *)
(* point out of a rebound optimisation, no unusable seed a second time     *)
(* (bspline_optimizer.cpp:1153-1353, planner_manager.cpp:336-402).         *)
LeftoversContained ==
  RunsStartUndisturbed /\ CancelledAsGiven /\ SolvedPointsKept /\ SeedLoopEnds
=============================================================================
