------------------------ MODULE LocalPlanning_proofs ------------------------
(***************************************************************************)
(* Theorems about the planning side of a cycle: the stages of a local plan *)
(* and the optimiser they share, the segments that collide, the search for *)
(* a way around them and the map.  Each is about the component's own       *)
(* specification.                                                          *)
(***************************************************************************)
EXTENDS LocalControl_proofs, LocalPlanning, CollisionSegments, DynAStar, GridMap

-----------------------------------------------------------------------------
(* The stages of a local plan: how far what an evaluation, a run, a stage  *)
(* or a call leaves in the optimiser and in the static flags can reach.    *)
PlanStates ==
  [at : Stages, poly : BOOLEAN, random : BOOLEAN, seeded : BOOLEAN, seeds : 0..1]
Optimisers ==
  [stop : {"none", "error", "rebound"}, init_ok : BOOLEAN, exceeded : BOOLEAN,
   reference : BOOLEAN, restarts : Nat, rebounds : Nat, points : {"accepted", "trial"}]
Results == {"convergence", "maximum iteration", "already minimized", "canceled", "error"}
SolverStates ==
  [at : {"none", "first", "progress", "trial", "returned"}, k : Nat, count : Nat, iter : Nat,
   result : {"none"} \cup Results]

PlanTypeOK ==
  /\ late \in BOOLEAN
  /\ plan \in PlanStates /\ opt \in Optimisers /\ solver \in SolverStates
  /\ flags \in [first : BOOLEAN, polynomial : BOOLEAN]

(* A run that has not returned has no result, begins with no evaluation    *)
(* counted, and counts its directions from one.                            *)
RunBegun ==
  /\ solver.at # "returned" => solver.result = "none"
  /\ solver.at = "first" => solver.iter = 0 /\ solver.count = 0
  /\ solver.at \in {"progress", "trial"} => solver.k > 0

(* The result of a rebound run that was solved is where the points are.    *)
SolvedAccepted == plan.at = "rebounding" /\ Solved => opt.points = "accepted"

(* A seed that could not be used has left the flag that takes another.     *)
SeedNotTwice == plan.at = "seed" /\ plan.seeds > 0 => flags.polynomial

(* A refinement that a stop is waiting for, or has cancelled, has made no  *)
(* trial: no evaluation of a refinement in time sets a stop.               *)
RefinementUntouched ==
  plan.at = "refining" /\ ~late /\
      ((solver.at \in {"progress", "trial"} /\ opt.stop # "none") \/ solver.result = "canceled")
    => solver.at # "trial" /\ solver.k = 1 /\ solver.count = 0 /\ opt.points = "accepted"

PlanInv ==
  /\ PlanTypeOK /\ RunBegun /\ SolvedAccepted /\ SeedNotTwice
  /\ RunsStartUndisturbed /\ RefinementUntouched /\ SolvedPointsKept

-----------------------------------------------------------------------------
(* What the operators return.                                              *)

LEMMA PolledEffect ==
  ASSUME NEW o \in Optimisers, NEW l \in BOOLEAN
  PROVE  /\ StoppedLate(o) \in Optimisers /\ Polled(o, l) \in Optimisers
         /\ StoppedLate(o).points = o.points /\ Polled(o, l).points = o.points
         /\ ~l => Polled(o, l) = o
BY DEF StoppedLate, Polled, Optimisers

LEMMA InitialisedEffect ==
  ASSUME NEW o \in Optimisers, NEW l \in BOOLEAN, NEW p \in Initialised(o, l)
  PROVE  p \in Optimisers
BY DEF Initialised, StoppedLate, Optimisers

LEMMA CollisionEffect ==
  ASSUME NEW o \in Optimisers, NEW p \in CheckCollisionAndRebound(o)
  PROVE  p \in Optimisers
BY DEF CheckCollisionAndRebound, Optimisers

(* An evaluation in time that need not look for collisions clears the stop *)
(* of the one before.                                                      *)
LEMMA CostReboundEffect ==
  ASSUME NEW o \in Optimisers, NEW iter \in Nat, NEW l \in BOOLEAN,
         NEW p \in CostFunctionRebound(o, iter, l)
  PROVE  /\ p \in Optimisers
         /\ ~late /\ ~l /\ iter = 0 => p.stop = "none"
<1> DEFINE fresh == [o EXCEPT !.stop = "none", !.points = "trial"]
<1>1. fresh \in Optimisers /\ fresh.stop = "none"
  BY DEF Optimisers
<1>2. CASE late
  BY <1>2, PolledEffect DEF CostFunctionRebound
<1>3. CASE ~late
  <2>1. PICK c \in IF iter > CheckAfter THEN CheckCollisionAndRebound(fresh) ELSE {fresh} :
          p = Polled(c, l)
    BY <1>3 DEF CostFunctionRebound
  <2> HIDE DEF fresh
  <2>2. c \in Optimisers
    BY <2>1, <1>1, CollisionEffect
  <2>3. iter = 0 => c = fresh
    BY <2>1, PlanningAssumption
  <2> QED
    BY <1>1, <2>1, <2>2, <2>3, PolledEffect
<1> QED
  BY <1>2, <1>3

LEMMA CostRefineEffect ==
  ASSUME NEW o \in Optimisers, NEW l \in BOOLEAN, NEW p \in CostFunctionRefine(o, l)
  PROVE  /\ p \in Optimisers
         /\ ~late /\ ~l => p.stop = o.stop
<1>1. [o EXCEPT !.points = "trial"] \in Optimisers
  BY DEF Optimisers
<1>2. [o EXCEPT !.points = "trial"].stop = o.stop
  BY DEF Optimisers
<1> QED
  BY <1>1, <1>2, PolledEffect DEF CostFunctionRefine

LEMMA EvaluatedEffect ==
  ASSUME PlanTypeOK, NEW l \in BOOLEAN, NEW p \in Evaluated(l)
  PROVE  /\ p \in Optimisers
         /\ plan.at = "rebounding" /\ ~late /\ ~l /\ solver.iter = 0 => p.stop = "none"
         /\ plan.at = "refining" /\ ~late /\ ~l => p.stop = opt.stop
<1>1. opt \in Optimisers /\ solver.iter \in Nat
  BY DEF PlanTypeOK, SolverStates
<1> QED
  BY <1>1, CostReboundEffect, CostRefineEffect DEF Evaluated

LEMMA AtEffect ==
  ASSUME PlanTypeOK, NEW stage \in Stages, At(stage)
  PROVE  plan' \in PlanStates /\ plan'.at = stage /\ plan'.seeds = plan.seeds
BY DEF PlanTypeOK, At, PlanStates

LEMMA ReturnsEffect ==
  ASSUME PlanTypeOK, NEW r \in Results, Returns(r)
  PROVE  solver' \in SolverStates /\ solver'.at = "returned" /\ solver'.result = r
BY DEF PlanTypeOK, Returns, SolverStates

LEMMA IterType ==
  ASSUME PlanTypeOK  PROVE  Iter \in Nat
BY DEF PlanTypeOK, Iter, SolverStates

LEMMA NoRunType == NoRun \in SolverStates
BY DEF NoRun, SolverStates

LEMMA PollKeepsPoints ==
  ASSUME PlanTypeOK, NEW l \in BOOLEAN
  PROVE  /\ Polled(opt, l) \in Optimisers /\ Polled(opt, l).points = opt.points
         /\ StoppedLate(opt) \in Optimisers
         /\ ~l => Polled(opt, l) = opt
BY PolledEffect DEF PlanTypeOK

LEMMA InitialInv == ASSUME PlanInit  PROVE  PlanInv
<1>1. late \in BOOLEAN /\ flags \in [first : BOOLEAN, polynomial : BOOLEAN]
  BY DEF PlanInit
<1>2. plan \in PlanStates /\ plan.at = "idle"
  BY DEF PlanInit, PlanStates, Stages
<1>3. opt \in Optimisers
  BY DEF PlanInit, Optimisers
<1>4. solver \in SolverStates /\ solver = NoRun
  BY NoRunType DEF PlanInit
<1>5. RunBegun
  BY <1>4 DEF RunBegun, NoRun
<1> QED
  BY <1>1, <1>2, <1>3, <1>4, <1>5
  DEF PlanInv, PlanTypeOK, SolvedAccepted, SeedNotTwice, RunsStartUndisturbed,
      RefinementUntouched, SolvedPointsKept

(* Between the stages: the stage is none of those the invariant speaks of, *)
(* and the run is over or is not touched.                                  *)
LEMMA StageEnds ==
  ASSUME PlanInv, late' \in BOOLEAN, plan' \in PlanStates, opt' \in Optimisers,
         flags' \in [first : BOOLEAN, polynomial : BOOLEAN],
         solver' = solver \/ solver' = NoRun,
         plan'.at \notin {"seed", "rebounding", "refining", "feasibility"}
  PROVE  PlanInv'
<1>1. solver' \in SolverStates /\ RunBegun'
  BY NoRunType DEF PlanInv, PlanTypeOK, RunBegun, NoRun
<1> QED
  BY <1>1
  DEF PlanInv, PlanTypeOK, SolvedAccepted, SeedNotTwice, RunsStartUndisturbed,
      RefinementUntouched, SolvedPointsKept

-----------------------------------------------------------------------------
(* The call and its seed.                                                  *)

LEMMA ReboundReplanKeeps == ASSUME PlanInv, ReboundReplan  PROVE PlanInv'
<1>1. late' \in BOOLEAN /\ flags' = flags /\ solver' = NoRun
  BY DEF ReboundReplan
<1>2. plan' \in PlanStates /\ plan'.at \in {"seed", "failed"} /\ plan'.seeds = 0
  BY DEF ReboundReplan, PlanStates, Stages
<1>3. [opt EXCEPT !.exceeded = FALSE] \in Optimisers
  BY DEF PlanInv, PlanTypeOK, Optimisers
<1>4. opt' \in Optimisers
  BY <1>3 DEF ReboundReplan, PlanInv, PlanTypeOK
<1>5. solver' \in SolverStates /\ RunBegun'
  BY <1>1, NoRunType DEF RunBegun, NoRun
<1> QED
  BY <1>1, <1>2, <1>4, <1>5
  DEF PlanInv, PlanTypeOK, SolvedAccepted, SeedNotTwice, RunsStartUndisturbed,
      RefinementUntouched, SolvedPointsKept

LEMMA PassingType == ASSUME PlanInv, Passing  PROVE late' \in BOOLEAN /\ (late => late')
BY DEF PlanInv, PlanTypeOK, Passing

LEMMA SeededEffect ==
  ASSUME PlanInv, NEW r \in BOOLEAN, Seeded(r)
  PROVE  plan' \in PlanStates /\ plan'.at = "initialize" /\ opt' \in Optimisers
<1>1. [opt EXCEPT !.reference = r] \in Optimisers
  BY DEF PlanInv, PlanTypeOK, Optimisers
<1>2. "initialize" \in Stages /\ PlanTypeOK
  BY DEF Stages, PlanInv
<1> QED
  BY <1>1, <1>2, AtEffect DEF Seeded

LEMMA SeedFromReferenceKeeps == ASSUME PlanInv, SeedFromReference  PROVE PlanInv'
<1>1. PlanTypeOK /\ "failed" \in Stages
  BY DEF PlanInv, Stages
<1>2. late' \in BOOLEAN /\ solver' = solver
  BY PassingType DEF SeedFromReference
<1>3. flags' \in [first : BOOLEAN, polynomial : BOOLEAN]
  <2>1. flags' = flags \/ flags' = [first |-> FALSE, polynomial |-> FALSE]
    BY DEF SeedFromReference
  <2>2. flags \in [first : BOOLEAN, polynomial : BOOLEAN]
    BY <1>1 DEF PlanTypeOK
  <2>3. [first |-> FALSE, polynomial |-> FALSE] \in [first : BOOLEAN, polynomial : BOOLEAN]
    OBVIOUS
  <2>4. CASE flags' = flags
    BY <2>2, <2>4
  <2>5. CASE flags' = [first |-> FALSE, polynomial |-> FALSE]
    BY <2>3, <2>5
  <2> QED
    BY <2>1, <2>4, <2>5
<1>4. plan' \in PlanStates /\ plan'.at \in {"initialize", "failed"} /\ opt' \in Optimisers
  BY <1>1, SeededEffect, AtEffect DEF SeedFromReference, PlanTypeOK
<1> QED
  BY <1>2, <1>3, <1>4, StageEnds

LEMMA SeedFromPolynomialKeeps == ASSUME PlanInv, SeedFromPolynomial  PROVE PlanInv'
<1>1. late' \in BOOLEAN /\ solver' = solver
  BY PassingType DEF SeedFromPolynomial
<1>2. flags' \in [first : BOOLEAN, polynomial : BOOLEAN]
  BY DEF SeedFromPolynomial
<1>3. plan' \in PlanStates /\ plan'.at = "initialize" /\ opt' \in Optimisers
  BY SeededEffect DEF SeedFromPolynomial
<1> QED
  BY <1>1, <1>2, <1>3, StageEnds

(* A previous trajectory is sampled only while no seed of the call was     *)
(* given up: the flag given up with would have chosen another seed.        *)
LEMMA SeedFromPreviousKeeps == ASSUME PlanInv, SeedFromPrevious  PROVE PlanInv'
<1>1. late' \in BOOLEAN /\ solver' = solver
  BY PassingType DEF SeedFromPrevious
<1>2. plan \in PlanStates /\ flags \in [first : BOOLEAN, polynomial : BOOLEAN]
  BY DEF PlanInv, PlanTypeOK
<1>3. CASE Seeded(FALSE) /\ UNCHANGED flags
  <2>1. plan' \in PlanStates /\ plan'.at = "initialize" /\ opt' \in Optimisers
    BY <1>3, SeededEffect
  <2> QED
    BY <1>1, <1>2, <1>3, <2>1, StageEnds
<1>4. CASE /\ plan' = [plan EXCEPT !.seeds = @ + 1]
           /\ flags' = [flags EXCEPT !.polynomial = TRUE] /\ UNCHANGED opt
  <2>1. ~flags.polynomial /\ plan.at = "seed"
    BY DEF SeedFromPrevious, FromPolynomial
  <2>2. plan.seeds = 0
    BY <1>2, <2>1 DEF PlanInv, SeedNotTwice, PlanStates
  <2>3. plan' \in PlanStates /\ plan'.at = "seed"
    BY <1>2, <1>4, <2>1, <2>2 DEF PlanStates
  <2>4. flags' \in [first : BOOLEAN, polynomial : BOOLEAN] /\ flags'.polynomial
    BY <1>2, <1>4
  <2>5. solver' \in SolverStates /\ RunBegun'
    BY <1>1 DEF PlanInv, PlanTypeOK, RunBegun
  <2> QED
    BY <1>1, <1>4, <2>3, <2>4, <2>5
    DEF PlanInv, PlanTypeOK, SolvedAccepted, SeedNotTwice, RunsStartUndisturbed,
      RefinementUntouched, SolvedPointsKept
<1> QED
  BY <1>3, <1>4 DEF SeedFromPrevious

-----------------------------------------------------------------------------
(* The stages around the solver.                                           *)

LEMMA InitControlPointsKeeps == ASSUME PlanInv, InitControlPoints  PROVE PlanInv'
<1>1. PlanTypeOK /\ opt \in Optimisers /\ {"failed", "rebound"} \subseteq Stages
  BY DEF PlanInv, PlanTypeOK, Stages
<1>2. late' \in BOOLEAN /\ solver' = solver /\ flags' = flags
  BY PassingType DEF InitControlPoints
<1>3. PICK o \in Initialised(opt, late') : opt' = [o EXCEPT !.restarts = 0, !.rebounds = 0]
  BY DEF InitControlPoints
<1>4. o \in Optimisers
  BY <1>1, <1>2, InitialisedEffect
<1>5. opt' \in Optimisers
  BY <1>3, <1>4 DEF Optimisers
<1>6. plan' \in PlanStates /\ plan'.at \in {"failed", "rebound"}
  BY <1>1, AtEffect DEF InitControlPoints
<1> QED
  BY <1>1, <1>2, <1>5, <1>6, StageEnds DEF PlanTypeOK

(* A run begins where no run was: a cancelled one is forgotten.            *)
LEMMA StartRunKeeps ==
  ASSUME PlanInv, NEW from \in Stages, NEW to \in {"rebounding", "refining"}, StartRun(from, to)
  PROVE  PlanInv'
<1>1. PlanTypeOK /\ flags' = flags /\ {"failed", "rebounding", "refining"} \subseteq Stages
  BY DEF PlanInv, StartRun, Stages
<1>2. late' \in BOOLEAN
  BY PassingType DEF StartRun
<1>3. opt' \in Optimisers
  BY <1>1, <1>2, PollKeepsPoints DEF StartRun
<1>4. plan' \in PlanStates /\ plan'.at \in {"failed", "rebounding", "refining"}
  BY <1>1, AtEffect DEF StartRun
<1>5. solver' \in SolverStates /\ solver'.at \in {"none", "first"} /\ solver'.result = "none"
      /\ solver'.iter = 0 /\ solver'.count = 0
  BY DEF StartRun, NoRun, SolverStates
<1>6. RunBegun'
  BY <1>5 DEF RunBegun
<1> QED
  BY <1>1, <1>2, <1>3, <1>4, <1>5, <1>6
  DEF PlanInv, PlanTypeOK, SolvedAccepted, Solved, SeedNotTwice, RunsStartUndisturbed,
      RefinementUntouched, SolvedPointsKept

-----------------------------------------------------------------------------
(* The run of the solver.                                                  *)

(* A step of a rebound or refinement run that leaves the stage alone keeps *)
(* the invariant if it keeps what is said of the run.                      *)
LEMMA RunGoesOn ==
  ASSUME PlanInv, Solving, Passing, UNCHANGED <<plan, flags>>,
         opt' \in Optimisers, solver' \in SolverStates, RunBegun',
         SolvedAccepted', RunsStartUndisturbed', RefinementUntouched'
  PROVE  PlanInv'
BY PassingType
DEF PlanInv, PlanTypeOK, Solving, SeedNotTwice, SolvedPointsKept

(* A run that returns begins nothing, and is solved only by an accepted    *)
(* point.                                                                  *)
LEMMA RunReturns ==
  ASSUME PlanInv, Solving, Passing, UNCHANGED <<plan, flags>>,
         opt' \in Optimisers, NEW r \in Results, Returns(r),
         r \in {"convergence", "maximum iteration", "already minimized"}
           => opt'.points = "accepted",
         r = "canceled" => RefinementUntouched'
  PROVE  PlanInv'
<1>1. solver' \in SolverStates /\ solver'.at = "returned" /\ solver'.result = r
  BY ReturnsEffect DEF PlanInv
<1>2. RunBegun' /\ SolvedAccepted' /\ RunsStartUndisturbed'
  BY <1>1 DEF RunBegun, SolvedAccepted, Solved, RunsStartUndisturbed
<1>3. RefinementUntouched'
  BY <1>1 DEF RefinementUntouched
<1> QED
  BY <1>1, <1>2, <1>3, RunGoesOn

LEMMA AcceptedType ==
  ASSUME NEW o \in Optimisers
  PROVE  LET p == [o EXCEPT !.points = "accepted"]
         IN  p \in Optimisers /\ p.points = "accepted" /\ p.stop = o.stop
BY DEF Optimisers

(* The stop of an earlier run or call is gone after the first evaluation:  *)
(* no evaluation is counted yet, so it cannot look for collisions.         *)
LEMMA FirstEvaluationKeeps == ASSUME PlanInv, FirstEvaluation  PROVE PlanInv'
<1>1. /\ PlanTypeOK /\ Solving /\ Passing /\ UNCHANGED <<plan, flags>>
      /\ solver.at = "first" /\ solver.iter = 0 /\ solver.count = 0 /\ solver.result = "none"
  BY DEF FirstEvaluation, PlanInv, RunBegun
<1>2. late' \in BOOLEAN /\ (late => late')
  BY <1>1, PassingType
<1>3. PICK o \in Evaluated(late') : opt' = [o EXCEPT !.points = "accepted"]
  BY DEF FirstEvaluation
<1>4. o \in Optimisers /\ (plan.at = "rebounding" /\ ~late' => o.stop = "none")
  BY <1>1, <1>2, EvaluatedEffect DEF PlanTypeOK
<1>5. opt' \in Optimisers /\ opt'.points = "accepted" /\ opt'.stop = o.stop
  BY <1>3, <1>4, AcceptedType
<1>6. CASE Returns("already minimized")
  BY <1>1, <1>5, <1>6, RunReturns DEF Results
<1>7. CASE solver' = [solver EXCEPT !.at = "progress", !.k = 1, !.iter = Iter]
  <2>1. solver \in SolverStates /\ Iter \in Nat
    BY <1>1, IterType DEF PlanTypeOK
  <2>2. solver' \in SolverStates /\ solver'.at = "progress" /\ solver'.k = 1
        /\ solver'.count = 0 /\ solver'.result = "none"
    BY <1>1, <1>7, <2>1 DEF SolverStates
  <2>3. RunBegun'
    BY <2>2 DEF RunBegun
  <2>4. SolvedAccepted'
    BY <2>2 DEF SolvedAccepted, Solved
  <2>5. RunsStartUndisturbed'
    BY <1>1, <1>4, <1>5 DEF RunsStartUndisturbed
  <2>6. RefinementUntouched'
    BY <1>5, <2>2 DEF RefinementUntouched
  <2> QED
    BY <1>1, <1>5, <2>2, <2>3, <2>4, <2>5, <2>6, RunGoesOn
<1> QED
  BY <1>6, <1>7 DEF FirstEvaluation

LEMMA LineSearchRefusedKeeps == ASSUME PlanInv, LineSearchRefused  PROVE PlanInv'
<1>1. Solving /\ Passing /\ UNCHANGED <<plan, flags>> /\ Returns("error") /\ opt' \in Optimisers
  BY DEF LineSearchRefused, Passing, PlanInv, PlanTypeOK
<1> QED
  BY <1>1, RunReturns DEF Results

(* A stop that waits cancels a refinement before its first trial.          *)
LEMMA ProgressKeeps == ASSUME PlanInv, Progress  PROVE PlanInv'
<1>1. /\ PlanTypeOK /\ RunBegun /\ Solving /\ Passing /\ UNCHANGED <<plan, flags>>
      /\ solver.at = "progress" /\ RefinementUntouched
  BY DEF Progress, PlanInv
<1>2. opt' \in Optimisers /\ (~late' => opt' = opt /\ ~late)
  BY <1>1, PassingType, PollKeepsPoints DEF Progress
<1>3. CASE opt'.stop # "none" /\ Returns("canceled")
  <2>1. /\ solver'.at = "returned" /\ solver'.k = solver.k /\ solver'.count = solver.count
        /\ plan' = plan
    BY <1>1, <1>3 DEF Returns, PlanTypeOK, SolverStates
  <2>2. RefinementUntouched'
    BY <1>1, <1>2, <1>3, <2>1 DEF RefinementUntouched
  <2> QED
    BY <1>1, <1>2, <1>3, <2>2, RunReturns DEF Results
<1>4. CASE opt'.stop = "none" /\ solver' = [solver EXCEPT !.at = "trial"]
  <2>1. solver \in SolverStates /\ solver.result = "none" /\ solver.k > 0
    BY <1>1 DEF PlanTypeOK, RunBegun
  <2>2. solver' \in SolverStates /\ solver'.at = "trial" /\ solver'.result = "none"
        /\ solver'.k = solver.k
    BY <1>4, <2>1 DEF SolverStates
  <2>3. RunBegun' /\ SolvedAccepted' /\ RunsStartUndisturbed'
    BY <2>1, <2>2 DEF RunBegun, SolvedAccepted, Solved, RunsStartUndisturbed
  <2>4. RefinementUntouched'
    BY <1>4, <2>2 DEF RefinementUntouched
  <2> QED
    BY <1>1, <1>2, <2>2, <2>3, <2>4, RunGoesOn
<1> QED
  BY <1>3, <1>4 DEF Progress

(* A refinement at a trial, and after it, has no stop.                     *)
LEMMA TrialUntouched ==
  ASSUME PlanInv, Passing, plan.at = "refining" => solver.at = "trial", plan' = plan,
         NEW o \in Evaluated(late'), opt'.stop = o.stop, solver'.result = "none"
  PROVE  RefinementUntouched'
<1>1. late' \in BOOLEAN /\ (late => late') /\ PlanTypeOK
  BY PassingType DEF PlanInv
<1>2. CASE plan.at = "refining" /\ ~late'
  <2>1. opt.stop = "none"
    BY <1>1, <1>2 DEF PlanInv, RefinementUntouched
  <2>2. o.stop = opt.stop
    BY <1>1, <1>2, EvaluatedEffect
  <2> QED
    BY <2>1, <2>2 DEF RefinementUntouched
<1> QED
  BY <1>2 DEF RefinementUntouched

LEMMA TrialFailsKeeps == ASSUME PlanInv, TrialFails  PROVE PlanInv'
<1>1. Solving /\ Passing /\ UNCHANGED <<plan, flags>> /\ Returns("error")
  BY DEF TrialFails
<1>2. opt' \in Optimisers
  BY <1>1, PassingType, EvaluatedEffect DEF TrialFails, PlanInv
<1> QED
  BY <1>1, <1>2, RunReturns DEF Results

LEMMA TrialGoesOnKeeps == ASSUME PlanInv, TrialGoesOn  PROVE PlanInv'
<1>1. /\ PlanTypeOK /\ RunBegun /\ Solving /\ Passing /\ UNCHANGED <<plan, flags>>
      /\ solver.at = "trial"
      /\ solver' = [solver EXCEPT !.at = "progress", !.count = @ + 1, !.iter = Iter]
  BY DEF TrialGoesOn, PlanInv
<1>2. opt' \in Optimisers
  BY <1>1, PassingType, EvaluatedEffect DEF TrialGoesOn
<1>3. solver \in SolverStates /\ Iter \in Nat /\ solver.result = "none" /\ solver.k > 0
  BY <1>1, IterType DEF PlanTypeOK, RunBegun
<1>4. /\ solver' \in SolverStates /\ solver'.at = "progress" /\ solver'.result = "none"
      /\ solver'.k = solver.k /\ solver'.count # 0
  <2>1. solver.count \in Nat
    BY <1>3 DEF SolverStates
  <2>2. solver.count + 1 \in Nat /\ solver.count + 1 # 0
    BY <2>1
  <2>3. solver' = [solver EXCEPT !.at = "progress", !.count = solver.count + 1, !.iter = Iter]
    BY <1>1
  <2> QED
    BY <1>3, <2>2, <2>3 DEF SolverStates
<1>5. RunBegun' /\ SolvedAccepted' /\ RunsStartUndisturbed'
  BY <1>3, <1>4 DEF RunBegun, SolvedAccepted, Solved, RunsStartUndisturbed
<1>6. RefinementUntouched'
  BY <1>1, <1>4, TrialUntouched DEF TrialGoesOn
<1> QED
  BY <1>1, <1>2, <1>4, <1>5, <1>6, RunGoesOn

LEMMA TrialAcceptedKeeps == ASSUME PlanInv, TrialAccepted  PROVE PlanInv'
<1>1. /\ PlanTypeOK /\ RunBegun /\ Solving /\ Passing /\ UNCHANGED <<plan, flags>>
      /\ solver.at = "trial"
  BY DEF TrialAccepted, PlanInv
<1>2. PICK o \in Evaluated(late') : opt' = [o EXCEPT !.points = "accepted"]
  BY DEF TrialAccepted
<1>3. o \in Optimisers
  BY <1>1, PassingType, EvaluatedEffect
<1>4. opt' \in Optimisers /\ opt'.points = "accepted" /\ opt'.stop = o.stop
  BY <1>2, <1>3, AcceptedType
<1>5. CASE \E r \in {"convergence", "maximum iteration"} : Returns(r)
  BY <1>1, <1>4, <1>5, RunReturns DEF Results
<1>6. CASE solver' = [at |-> "progress", k |-> solver.k + 1, count |-> 0, iter |-> Iter,
                      result |-> "none"]
  <2>1. solver.k \in Nat /\ solver.k > 0 /\ Iter \in Nat
    BY <1>1, IterType DEF PlanTypeOK, SolverStates, RunBegun
  <2>2. /\ solver' \in SolverStates /\ solver'.at = "progress" /\ solver'.result = "none"
        /\ solver'.k > 1
    BY <1>6, <2>1 DEF SolverStates
  <2>3. RunBegun' /\ SolvedAccepted' /\ RunsStartUndisturbed'
    BY <2>2 DEF RunBegun, SolvedAccepted, Solved, RunsStartUndisturbed, SolverStates
  <2>4. RefinementUntouched'
    BY <1>1, <1>2, <1>4, <2>2, TrialUntouched
  <2> QED
    BY <1>1, <1>4, <2>2, <2>3, <2>4, RunGoesOn
<1> QED
  BY <1>5, <1>6 DEF TrialAccepted

-----------------------------------------------------------------------------
(* What is made of a run's result.                                         *)

LEMMA RunTooLateKeeps == ASSUME PlanInv, RunTooLate  PROVE PlanInv'
<1>1. late' \in BOOLEAN /\ UNCHANGED <<flags, solver>> /\ At("failed") /\ "failed" \in Stages
  BY PassingType DEF RunTooLate, Finished, Stages
<1>2. PlanTypeOK /\ opt' \in Optimisers
  BY PollKeepsPoints DEF PlanInv, RunTooLate
<1>3. plan' \in PlanStates /\ plan'.at = "failed"
  BY <1>1, <1>2, AtEffect
<1> QED
  BY <1>1, <1>2, <1>3, StageEnds DEF PlanTypeOK

(* A rebound run is handed on only when it is solved, with its points.     *)
LEMMA ReboundSolvedKeeps == ASSUME PlanInv, ReboundSolved  PROVE PlanInv'
<1>1. /\ late' \in BOOLEAN /\ UNCHANGED <<flags, opt, solver>> /\ PlanTypeOK
      /\ {"feasibility", "failed"} \subseteq Stages
  BY PassingType DEF ReboundSolved, Finished, PlanInv, Stages
<1>2. opt.points = "accepted"
  BY DEF ReboundSolved, Finished, PlanInv, SolvedAccepted
<1>3. plan' \in PlanStates /\ plan'.at \in {"feasibility", "failed"}
  BY <1>1, AtEffect DEF ReboundSolved
<1>4. RunBegun'
  BY <1>1 DEF PlanInv, RunBegun
<1> QED
  BY <1>1, <1>2, <1>3, <1>4
  DEF PlanInv, PlanTypeOK, SolvedAccepted, Solved, SeedNotTwice, RunsStartUndisturbed,
      RefinementUntouched, SolvedPointsKept

LEMMA ReboundRestartsKeeps == ASSUME PlanInv, ReboundRestarts  PROVE PlanInv'
<1>1. /\ late' \in BOOLEAN /\ UNCHANGED <<flags, solver>> /\ PlanTypeOK
      /\ {"rebound", "failed"} \subseteq Stages
  BY PassingType DEF ReboundRestarts, Finished, PlanInv, Stages
<1>2. PICK o \in Initialised(opt, late') : opt' = [o EXCEPT !.restarts = @ + 1]
  BY DEF ReboundRestarts
<1>3. o \in Optimisers
  BY <1>1, InitialisedEffect DEF PlanTypeOK
<1>4. opt' \in Optimisers
  BY <1>2, <1>3 DEF Optimisers
<1>5. plan' \in PlanStates /\ plan'.at \in {"rebound", "failed"}
  BY <1>1, AtEffect DEF ReboundRestarts
<1> QED
  BY <1>1, <1>4, <1>5, StageEnds DEF PlanTypeOK

LEMMA ReboundCanceledKeeps == ASSUME PlanInv, ReboundCanceled  PROVE PlanInv'
<1>1. /\ late' \in BOOLEAN /\ UNCHANGED <<flags, solver>> /\ PlanTypeOK
      /\ {"rebound", "failed"} \subseteq Stages
  BY PassingType DEF ReboundCanceled, Finished, PlanInv, Stages
<1>2. opt' \in Optimisers
  BY <1>1 DEF ReboundCanceled, PlanTypeOK, Optimisers
<1>3. plan' \in PlanStates /\ plan'.at \in {"rebound", "failed"}
  BY <1>1, AtEffect DEF ReboundCanceled
<1> QED
  BY <1>1, <1>2, <1>3, StageEnds DEF PlanTypeOK

(* The stages that only go on, or give up.                                 *)
LEMMA StageChanges ==
  ASSUME PlanInv, Passing, UNCHANGED <<flags, opt, solver>>,
         NEW stage \in {"refine", "validate", "commit", "committed", "failed"}, At(stage)
  PROVE  PlanInv'
<1>1. PlanTypeOK /\ late' \in BOOLEAN /\ stage \in Stages
  BY PassingType DEF PlanInv, Stages
<1>2. plan' \in PlanStates /\ plan'.at = stage
  BY <1>1, AtEffect
<1> QED
  BY <1>1, <1>2, StageEnds DEF PlanTypeOK

LEMMA LaterStagesKeep ==
  ASSUME PlanInv, ReboundSolverError \/ Refined \/ CheckFeasibility \/ Validate \/ TryCommit
  PROVE  PlanInv'
<1>1. CASE ReboundSolverError
  BY <1>1, StageChanges DEF ReboundSolverError, Finished
<1>2. CASE Refined
  BY <1>2, StageChanges DEF Refined, Finished
<1>3. CASE CheckFeasibility
  BY <1>3, StageChanges DEF CheckFeasibility
<1>4. CASE Validate
  BY <1>4, StageChanges DEF Validate
<1>5. CASE TryCommit
  BY <1>5, StageChanges DEF TryCommit
<1> QED
  BY <1>1, <1>2, <1>3, <1>4, <1>5

-----------------------------------------------------------------------------
(* The theorem.                                                            *)

LEMMA NextPlanInv == ASSUME PlanInv, [PlanNext]_planVars  PROVE PlanInv'
<1>1. CASE UNCHANGED planVars
  BY <1>1
  DEF planVars, PlanInv, PlanTypeOK, RunBegun, SolvedAccepted, Solved, SeedNotTwice,
      RunsStartUndisturbed, RefinementUntouched, SolvedPointsKept
<1>2. CASE ReboundReplan \/ SeedFromReference \/ SeedFromPolynomial \/ SeedFromPrevious
  BY <1>2, ReboundReplanKeeps, SeedFromReferenceKeeps, SeedFromPolynomialKeeps,
     SeedFromPreviousKeeps
<1>3. CASE ReboundOptimize \/ RefineOptimize
  BY <1>3, StartRunKeeps DEF ReboundOptimize, RefineOptimize, Stages
<1>4. CASE FirstEvaluation \/ LineSearchRefused \/ Progress
           \/ TrialFails \/ TrialGoesOn \/ TrialAccepted
  BY <1>4, FirstEvaluationKeeps, LineSearchRefusedKeeps, ProgressKeeps, TrialFailsKeeps,
     TrialGoesOnKeeps, TrialAcceptedKeeps
<1>5. CASE InitControlPoints \/ RunTooLate \/ ReboundSolved \/ ReboundRestarts \/ ReboundCanceled
  BY <1>5, InitControlPointsKeeps, RunTooLateKeeps, ReboundSolvedKeeps, ReboundRestartsKeeps,
     ReboundCanceledKeeps
<1> QED
  BY <1>1, <1>2, <1>3, <1>4, <1>5, LaterStagesKeep DEF PlanNext

LEMMA InvStages == ASSUME PlanInv  PROVE LeftoversContained
<1>1. plan.seeds \in 0..1
  BY DEF PlanInv, PlanTypeOK, PlanStates
<1>2. SeedLoopEnds
  BY <1>1 DEF SeedLoopEnds
<1>3. CancelledAsGiven
  BY DEF PlanInv, RefinementUntouched, CancelledAsGiven
<1> QED
  BY <1>2, <1>3 DEF LeftoversContained, PlanInv

(* However often a call is made, restarted, cancelled and cut off by its   *)
(* deadline: no stop left by an earlier evaluation, run or call cancels    *)
(* the first trial of a rebound run; one that is left to a refinement      *)
(* cancels it before its first trial, with the points it was given; the    *)
(* curve handed on by the rebound stage is the solver's result and not a   *)
(* trial it rejected; and a previous trajectory that cannot be used is not *)
(* sampled again in a call (bspline_optimizer.cpp:1153-1353,               *)
(* planner_manager.cpp:336-402).                                           *)
THEOREM LeftoversAreContained == PlanSpec => []LeftoversContained
<1>1. PlanInit => PlanInv
  BY InitialInv
<1>2. PlanInv /\ [PlanNext]_planVars => PlanInv'
  BY NextPlanInv
<1>3. PlanInv => LeftoversContained
  BY InvStages
<1> QED
  BY <1>1, <1>2, <1>3, PTL DEF PlanSpec

-----------------------------------------------------------------------------
(* The segments of the spline optimiser and the directions taken from them.*)
SegStages == {"sweep", "check", "search", "assign", "failed"}
SegmentsFound == IF todo.at = "failed" THEN Seq(Int \X Int) ELSE Seq(Nat \X Nat)

SegTyped ==
  /\ sweep \in [read : Seq(BOOLEAN), in : Int, out : Int, same : 0..(EnoughInterval + 1),
                start : BOOLEAN, maybe : BOOLEAN]
  /\ segs \in SegmentsFound /\ paths \in Seq(Int \X Int) /\ aimed \subseteq Int
  /\ todo \in [at : SegStages, next : Nat \ {0}, undefined : {FALSE}, first : BOOLEAN]

(* The paths are those of the first segments, up to the next to be         *)
(* searched.                                                               *)
PathsAreOfSegments ==
  /\ \A n \in 1..Len(paths) : n <= Len(segs) /\ paths[n] = segs[n]
  /\ todo.at \in {"sweep", "check"} => paths = <<>> /\ todo.next = 1
  /\ todo.at = "sweep" => todo.first /\ Len(sweep.read) < SweepLength
  /\ todo.at = "check" => ~todo.first
  /\ todo.at = "search" => Len(paths) = todo.next - 1 /\ todo.next <= Len(segs) + 1
  /\ todo.at = "assign" => Len(paths) = Len(segs)

(* The samples at which the sweep read an obstacle, and those in segments. *)
Read == {k \in 1..Len(sweep.read) : sweep.read[k]}
Segmented ==
  {k \in 1..Len(sweep.read) :
     \E s \in ToSet(segs) : s[1] < Interval(k) /\ Interval(k) <= s[2]}

(* An obstacle that was entered is left once the gap behind it is long     *)
(* enough; until then everything the sweep has read of it lies behind its  *)
(* beginning and before the last sample it was left at.                    *)
SweepFollowsObstacle ==
  LET n == Len(sweep.read)
  IN  /\ sweep.same <= EnoughInterval =>
           n - sweep.same >= 1 /\ (n - sweep.same \in Read <=> n - sweep.same - 1 \notin Read)
      /\ IF sweep.start
         THEN /\ n >= 1 /\ sweep.in \in Nat /\ sweep.in < Interval(n)
              /\ sweep.maybe <=> n \notin Read
              /\ n \notin Read => sweep.same <= EnoughInterval /\ sweep.in <= sweep.out
         ELSE n \notin Read /\ ~sweep.maybe /\ sweep.same = EnoughInterval + 1
      /\ \A k \in Read \ Segmented :
           sweep.start /\ sweep.in < Interval(k) /\ (n \notin Read => Interval(k) <= sweep.out)

SegInv ==
  /\ SegTyped /\ PathsAreOfSegments
  /\ todo.first => SweepFollowsObstacle /\ CollisionsAreSegmented

LEMMA DivBounds ==
  ASSUME NEW x \in Nat, NEW y \in Nat \ {0}
  PROVE  x \div y \in Nat /\ y * (x \div y) <= x /\ x < y * (x \div y + 1)
  OBVIOUS

LEMMA IntervalTyped ==
  /\ \A n \in Nat \ {0} : Interval(n) \in Nat /\ Interval(n) >= Order
  /\ \A m, n \in Nat \ {0} : m <= n => Interval(m) <= Interval(n)
  /\ SweepLength \in Nat \ {0}
  /\ \A n \in 1..SweepLength : Interval(n) < Points - Order
<1>1. Points \in Nat /\ Points >= 9 /\ Samples \in Nat \ {0}
  BY SegmentAssumption
<1>2. \A n \in Nat \ {0} : Interval(n) \in Nat /\ Interval(n) >= Order
  BY <1>1, DivBounds DEF Interval, Order
<1>3. ASSUME NEW m \in Nat \ {0}, NEW n \in Nat \ {0}, m <= n
      PROVE  Interval(m) <= Interval(n)
  <2> DEFINE a == (m - 1) \div Samples
             b == (n - 1) \div Samples
  <2>1. a \in Nat /\ b \in Nat /\ Samples * a <= m - 1 /\ n - 1 < Samples * (b + 1)
    BY <1>1, DivBounds
  <2> HIDE DEF a, b
  <2>2. Samples * a < Samples * (b + 1)
    BY <1>1, <1>3, <2>1
  <2>3. a <= b
    <3>1. SUFFICES ASSUME a >= b + 1  PROVE FALSE
      BY <2>1
    <3>2. Samples * a >= Samples * (b + 1)
      BY <1>1, <2>1, <3>1
    <3>3. Samples * a \in Int /\ Samples * (b + 1) \in Int
      BY <1>1, <2>1
    <3> QED BY <2>2, <3>2, <3>3
  <2> QED BY <2>1, <2>3 DEF Interval, Order, a, b
<1> DEFINE e == SweepEnd - Order + 1
<1>4. SweepEnd \in Nat /\ SweepEnd < Points - Order /\ e \in Nat \ {0}
  BY <1>1 DEF SweepEnd, Order
<1>5. SweepLength = e * Samples
  BY DEF SweepLength
<1>6. SweepLength \in Nat \ {0}
  BY <1>1, <1>4, <1>5
<1>7. ASSUME NEW n \in 1..SweepLength  PROVE Interval(n) < Points - Order
  <2> DEFINE a == (n - 1) \div Samples
  <2>1. a \in Nat /\ Samples * a <= n - 1 /\ n - 1 < SweepLength /\ n - 1 \in Nat
    BY <1>1, <1>6, DivBounds
  <2> HIDE DEF a, e
  <2>2. a < e
    <3>1. SUFFICES ASSUME a >= e  PROVE FALSE
      BY <1>4, <2>1
    <3>2. Samples * a >= Samples * e /\ Samples * e = e * Samples
      BY <1>1, <1>4, <2>1, <3>1
    <3>3. Samples * a \in Int /\ Samples * e \in Int
      BY <1>1, <1>4, <2>1
    <3> QED BY <1>5, <1>6, <2>1, <3>2, <3>3
  <2> QED BY <1>1, <1>4, <2>1, <2>2 DEF Interval, Order, a, e
<1> QED
  BY <1>2, <1>3, <1>6, <1>7

LEMMA LesserOfTwo ==
  ASSUME NEW x \in Int, NEW y \in Int
  PROVE  Min({x, y}) = IF x <= y THEN x ELSE y
<1> DEFINE z == IF x <= y THEN x ELSE y
<1>1. z \in {x, y} /\ \A k \in {x, y} : z <= k
  OBVIOUS
<1>2. \A k \in {x, y} : (\A j \in {x, y} : k <= j) => k = z
  OBVIOUS
<1> HIDE DEF z
<1>3. Min({x, y}) = z
  BY <1>1, <1>2 DEF Min
<1> QED
  BY <1>3 DEF z

LEMMA SegInvStart == SegInit => SegInv
<1> SUFFICES ASSUME SegInit  PROVE SegInv
  OBVIOUS
<1>1. /\ segs = <<>> /\ paths = <<>> /\ aimed = {} /\ sweep = NoSweep
      /\ todo \in [at : {"sweep", "check"}, next : {1}, undefined : {FALSE}, first : BOOLEAN]
      /\ todo.first = (todo.at = "sweep")
  BY DEF SegInit
<1>2. /\ sweep.read = <<>> /\ sweep.same = EnoughInterval + 1 /\ sweep.start = FALSE
      /\ sweep.maybe = FALSE
  BY <1>1 DEF NoSweep
<1>3. SegTyped
  <2>1. sweep \in [read : Seq(BOOLEAN), in : Int, out : Int, same : 0..(EnoughInterval + 1),
                   start : BOOLEAN, maybe : BOOLEAN]
    BY <1>1 DEF NoSweep, EnoughInterval
  <2>2. todo \in [at : SegStages, next : Nat \ {0}, undefined : {FALSE}, first : BOOLEAN]
    <3>1. ASSUME NEW b \in BOOLEAN, NEW a \in {"sweep", "check"}
          PROVE  [at |-> a, next |-> 1, undefined |-> FALSE, first |-> b]
                   \in [at : SegStages, next : Nat \ {0}, undefined : {FALSE}, first : BOOLEAN]
      BY DEF SegStages
    <3>2. todo = [at |-> todo.at, next |-> 1, undefined |-> FALSE, first |-> todo.first]
          /\ todo.first \in BOOLEAN /\ todo.at \in {"sweep", "check"}
      BY <1>1
    <3> QED BY <3>1, <3>2
  <2>3. segs \in SegmentsFound /\ paths \in Seq(Int \X Int)
    BY <1>1 DEF SegmentsFound
  <2> QED BY <1>1, <2>1, <2>2, <2>3 DEF SegTyped
<1>4. PathsAreOfSegments
  BY <1>1, <1>2, IntervalTyped DEF PathsAreOfSegments
<1>5. SweepFollowsObstacle
  BY <1>2 DEF SweepFollowsObstacle, Read, EnoughInterval
<1>6. CollisionsAreSegmented
  BY <1>2 DEF CollisionsAreSegmented
<1> QED
  BY <1>3, <1>4, <1>5, <1>6 DEF SegInv

LEMMA SweepStep == SegInv /\ InitControlPointsSweep => SegInv'
<1> SUFFICES ASSUME SegInv, InitControlPointsSweep  PROVE SegInv'
  OBVIOUS
<1>1. PICK occ \in BOOLEAN : SweepSample(occ)
  BY DEF InitControlPointsSweep
<1> DEFINE r == sweep.read
           m == Len(r)
           n == Len(r) + 1
           i == Interval(n)
           was == n > 1 /\ r[n - 1]
           begins == occ /\ ~was
           leaves == ~occ /\ was
           same == IF begins \/ leaves THEN 0 ELSE Min({sweep.same + 1, EnoughInterval + 1})
           new == begins /\ (sweep.same > EnoughInterval \/ i = Order)
           in == IF new THEN i - 1 ELSE sweep.in
           out == IF leaves THEN i ELSE sweep.out
           ends == MayHaveLeft(begins, leaves) /\ (same > EnoughInterval \/ i = Points - Order)
           closes == (sweep.start \/ new) /\ ends
           start == (sweep.start \/ new) /\ ~closes
           maybe == MayHaveLeft(begins, leaves) /\ ~ends
<1>2. /\ sweep' = [read |-> Append(r, occ), in |-> in, out |-> out, same |-> same,
                   start |-> start, maybe |-> maybe]
      /\ segs' = IF closes /\ in >= 0 /\ out >= in THEN Append(segs, <<in, out>>) ELSE segs
  BY <1>1 DEF SweepSample
<1>3. /\ todo.at = "sweep" /\ paths' = paths /\ aimed' = aimed /\ todo.first /\ m < SweepLength
      /\ todo' = [todo EXCEPT !.at = IF Len(sweep'.read) = SweepLength THEN "search" ELSE @]
      /\ SegTyped /\ PathsAreOfSegments /\ SweepFollowsObstacle /\ CollisionsAreSegmented
      /\ paths = <<>> /\ todo.next = 1
  BY DEF InitControlPointsSweep, SegInv, PathsAreOfSegments
<1>4. /\ r \in Seq(BOOLEAN) /\ m \in Nat /\ n \in 1..SweepLength /\ n \in Nat \ {0}
      /\ sweep.in \in Int /\ sweep.out \in Int /\ sweep.same \in 0..3
      /\ sweep.start \in BOOLEAN /\ sweep.maybe \in BOOLEAN
      /\ segs \in Seq(Nat \X Nat)
  BY <1>3, IntervalTyped DEF SegTyped, SegmentsFound, EnoughInterval
<1>5. i \in Nat /\ i >= 3 /\ i < Points - Order
  BY <1>4, IntervalTyped DEF Order
<1>6. \A k \in 1..n : Interval(k) \in Nat /\ Interval(k) >= 3 /\ Interval(k) <= i
  BY <1>4, IntervalTyped DEF Order
<1>7. was \in BOOLEAN /\ (was <=> m \in Read)
  BY <1>4 DEF Read
<1>8. /\ sweep'.read = Append(r, occ) /\ sweep'.in = in /\ sweep'.out = out /\ sweep'.same = same
      /\ sweep'.start = start /\ sweep'.maybe = maybe
  <2> HIDE DEF in, out, same, start, maybe
  <2> QED BY <1>2
<1>9. /\ Len(sweep'.read) = n /\ Append(r, occ) \in Seq(BOOLEAN)
      /\ Read' = Read \cup {k \in {n} : occ}
  <2>1. Append(r, occ) \in Seq(BOOLEAN) /\ Len(Append(r, occ)) = n /\ Append(r, occ)[n] = occ
    BY <1>4
  <2>2. \A k \in 1..m : Append(r, occ)[k] = r[k]
    BY <1>4
  <2>3. 1..n = (1..m) \cup {n}
    <3>1. \A x \in Nat : 1..x + 1 = (1..x) \cup {x + 1}
      OBVIOUS
    <3>2. m \in Nat /\ n = m + 1
      BY <1>4
    <3> HIDE DEF m, n
    <3> QED BY <3>1, <3>2
  <2>4. sweep'.read = Append(r, occ)
    BY <1>8
  <2>5. Read = {k \in 1..m : r[k]} /\ Read' = {k \in 1..n : Append(r, occ)[k]}
    BY <2>1, <2>4 DEF Read
  <2> HIDE DEF m, n, r
  <2>6. Read' = Read \cup {k \in {n} : occ}
    BY <2>1, <2>2, <2>3, <2>5
  <2> QED BY <2>1, <2>4, <2>6
<1> HIDE DEF r, m, i, was, same
<1>10. /\ same \in 0..3 /\ (begins \/ leaves => same = 0)
       /\ ~(begins \/ leaves) => same = IF sweep.same = 3 THEN 3 ELSE sweep.same + 1
  <2>1. Min({sweep.same + 1, 3}) = IF sweep.same = 3 THEN 3 ELSE sweep.same + 1
    <3>1. sweep.same + 1 \in Int /\ 3 \in Int
      BY <1>4
    <3>2. Min({sweep.same + 1, 3}) = IF sweep.same + 1 <= 3 THEN sweep.same + 1 ELSE 3
      BY <3>1, LesserOfTwo
    <3> QED BY <1>4, <3>2
  <2>2. same = IF begins \/ leaves THEN 0 ELSE Min({sweep.same + 1, 3})
    BY DEF same, EnoughInterval
  <2> HIDE DEF begins, leaves
  <2> QED BY <1>4, <2>1, <2>2
<1>11. /\ sweep.start => /\ m >= 1 /\ sweep.in \in Nat /\ sweep.in < Interval(m)
                         /\ sweep.maybe <=> ~was
                         /\ ~was => sweep.same <= 2 /\ sweep.in <= sweep.out
       /\ ~sweep.start => ~was /\ ~sweep.maybe /\ sweep.same = 3
  <2>1. /\ sweep.start => /\ m >= 1 /\ sweep.in \in Nat /\ sweep.in < Interval(m)
                          /\ sweep.maybe <=> m \notin Read
                          /\ m \notin Read => sweep.same <= 2 /\ sweep.in <= sweep.out
        /\ ~sweep.start => m \notin Read /\ ~sweep.maybe /\ sweep.same = 3
    BY <1>3 DEF SweepFollowsObstacle, EnoughInterval, m, r
  <2> HIDE DEF begins, leaves, new, in, out, ends, closes, start, maybe
  <2> QED BY <1>7, <2>1
<1>12. /\ new <=> begins /\ (sweep.same = 3 \/ i = 3)
       /\ MayHaveLeft(begins, leaves) <=> ~begins /\ (sweep.maybe \/ leaves)
       /\ ends <=> ~begins /\ (sweep.maybe \/ leaves) /\ same = 3
  <2>1. i # Points - Order /\ (same > EnoughInterval <=> same = 3)
        /\ (sweep.same > EnoughInterval <=> sweep.same = 3)
    BY <1>4, <1>5, <1>10, SegmentAssumption DEF EnoughInterval, Order
  <2> QED BY <2>1 DEF MayHaveLeft, Order
<1>13. ends => ~occ /\ ~was /\ sweep.start /\ in = sweep.in /\ out = sweep.out /\ sweep.same # 3
  <2>1. SUFFICES ASSUME ends
                 PROVE ~occ /\ ~was /\ sweep.start /\ in = sweep.in /\ out = sweep.out /\ sweep.same # 3
    OBVIOUS
  <2>2. ~begins /\ ~leaves /\ sweep.maybe
    BY <1>10, <1>12, <2>1
  <2>3. sweep.start /\ ~was
    BY <1>11, <2>2
  <2> QED BY <1>11, <1>12, <2>2, <2>3
<1>14. /\ closes <=> ends
       /\ start <=> (sweep.start \/ new) /\ ~ends
       /\ maybe <=> ~begins /\ (sweep.maybe \/ leaves) /\ ~ends
  BY <1>12, <1>13
<1>15. segs' = IF ends THEN Append(segs, <<sweep.in, sweep.out>>) ELSE segs
  <2>1. ends => in >= 0 /\ out >= in
    BY <1>4, <1>11, <1>13
  <2> QED BY <1>2, <1>13, <1>14, <2>1
<1>16. in \in Int /\ out \in Int /\ start \in BOOLEAN /\ maybe \in BOOLEAN
  BY <1>4, <1>5
<1>17. segs' \in Seq(Nat \X Nat)
  <2>1. ends => sweep.in \in Nat /\ sweep.out \in Nat
    BY <1>4, <1>11, <1>13
  <2> QED BY <1>4, <1>15, <2>1
<1>18. ToSet(segs) \subseteq ToSet(segs') /\ (ends => <<sweep.in, sweep.out>> \in ToSet(segs'))
  <2> HIDE DEF ends
  <2>1. CASE ends
    <3> DEFINE x == <<sweep.in, sweep.out>>
    <3>1. /\ DOMAIN Append(segs, x) = 1..Len(segs) + 1 /\ DOMAIN segs = 1..Len(segs)
          /\ Append(segs, x)[Len(segs) + 1] = x /\ Len(segs) \in Nat
          /\ \A k \in 1..Len(segs) : Append(segs, x)[k] = segs[k]
      BY <1>4
    <3>2. segs' = Append(segs, x)
      BY <1>15, <2>1
    <3> HIDE DEF x
    <3>3. ToSet(segs) \subseteq ToSet(Append(segs, x))
      BY <3>1 DEF ToSet
    <3>4. x \in ToSet(Append(segs, x))
      BY <3>1 DEF ToSet
    <3> QED BY <3>2, <3>3, <3>4 DEF x
  <2>2. CASE ~ends
    BY <1>15, <2>2
  <2> QED BY <2>1, <2>2
<1>19. /\ start => in \in Nat /\ in < i /\ (maybe <=> ~occ) /\ (~occ => same <= 2 /\ in <= out)
       /\ ~start => ~occ /\ ~maybe /\ same = 3
  <2>1. sweep.start => Interval(m) <= i /\ Interval(m) \in Nat
    <3>1. sweep.start => m \in 1..n
      BY <1>4, <1>11 DEF m
    <3> QED BY <1>6, <3>1
  <2>2. start => in \in Nat /\ in < i
    BY <1>5, <1>11, <1>14, <2>1
  <2>3. start => (maybe <=> ~occ)
    BY <1>11, <1>12, <1>14
  <2>4. start => (~occ => same <= 2 /\ in <= out)
    <3>1. SUFFICES ASSUME start, ~occ  PROVE same <= 2 /\ in <= out
      OBVIOUS
    <3>2. sweep.start /\ ~new /\ in = sweep.in
      BY <1>14, <3>1
    <3>3. CASE was
      BY <1>4, <1>5, <1>10, <2>1, <1>11, <3>1, <3>2, <3>3
    <3>4. CASE ~was
      <4>1. sweep.maybe /\ ~ends
        BY <1>11, <1>14, <3>1, <3>2, <3>4
      <4>2. same # 3
        BY <1>12, <3>1, <4>1
      <4> QED BY <1>10, <1>11, <3>1, <3>2, <3>4, <4>2
    <3> QED BY <3>3, <3>4
  <2>5. ~start => ~occ /\ ~maybe /\ same = 3
    <3>1. CASE ends
      BY <1>12, <1>13, <1>14, <3>1
    <3>2. CASE ~ends /\ ~sweep.start /\ ~new
      BY <1>10, <1>11, <1>12, <1>14, <3>2
    <3> QED BY <1>14, <3>1, <3>2
  <2> QED BY <2>2, <2>3, <2>4, <2>5
<1>20. Segmented \subseteq Segmented'
  <2>1. 1..m \subseteq 1..n /\ Len(sweep.read) = m /\ Len(sweep'.read) = n
    BY <1>4, <1>9 DEF m, r
  <2>2. Segmented = {k \in 1..m : \E s \in ToSet(segs) : s[1] < Interval(k) /\ Interval(k) <= s[2]}
    BY <2>1 DEF Segmented
  <2>3. Segmented' = {k \in 1..n : \E s \in ToSet(segs') : s[1] < Interval(k) /\ Interval(k) <= s[2]}
    BY <2>1 DEF Segmented, Interval
  <2> HIDE DEF n
  <2> QED BY <1>18, <2>1, <2>2, <2>3
<1> HIDE DEF begins, leaves, new, ends, closes, start, maybe
<1>21. ASSUME NEW k \in Read' \ Segmented'
       PROVE  start /\ in < Interval(k) /\ (~occ => Interval(k) <= out)
  <2>0. k \in 1..n
    <3>1. Read \subseteq 1..m
      BY DEF Read, m, r
    <3>2. 1..m \subseteq 1..n
      BY <1>4 DEF m
    <3>3. n \in 1..n
      BY <1>4
    <3> HIDE DEF n
    <3> QED BY <1>9, <3>1, <3>2, <3>3
  <2>1. Interval(k) \in Nat /\ Interval(k) >= 3 /\ Interval(k) <= i
    BY <1>6, <2>0
  <2>2. CASE k \notin Read
    <3>1. k = n /\ occ
      BY <1>9, <2>2
    <3>2. Interval(k) = i
      BY <3>1 DEF i
    <3> QED BY <1>19, <3>1, <3>2
  <2>3. CASE k \in Read
    <3>1. sweep.start /\ sweep.in < Interval(k) /\ (~was => Interval(k) <= sweep.out)
      <4>1. k \in Read \ Segmented
        BY <1>20, <2>3
      <4>2. sweep.start /\ sweep.in < Interval(k) /\ (m \notin Read => Interval(k) <= sweep.out)
        BY <1>3, <4>1 DEF SweepFollowsObstacle, m, r
      <4> QED BY <1>7, <4>2
    <3>2. ~ends
      <4>1. SUFFICES ASSUME ends  PROVE FALSE
        OBVIOUS
      <4>2. sweep.in < Interval(k) /\ Interval(k) <= sweep.out /\ <<sweep.in, sweep.out>> \in ToSet(segs')
        BY <1>13, <1>18, <3>1, <4>1
      <4>3. Segmented' = {j \in 1..n : \E s \in ToSet(segs') : s[1] < Interval(j) /\ Interval(j) <= s[2]}
        BY <1>9 DEF Segmented, Interval
      <4>4. \E s \in ToSet(segs') : s[1] < Interval(k) /\ Interval(k) <= s[2]
        <5> DEFINE x == <<sweep.in, sweep.out>>
        <5>1. x[1] < Interval(k) /\ Interval(k) <= x[2] /\ x \in ToSet(segs')
          BY <4>2
        <5> HIDE DEF x
        <5> QED BY <5>1
      <4> HIDE DEF n
      <4> QED BY <2>0, <4>3, <4>4
    <3>3. start
      BY <1>14, <3>1, <3>2
    <3>4. in < Interval(k)
      <4>1. new => i = 3
        BY <1>11, <1>12, <3>1 DEF begins
      <4> QED BY <2>1, <3>1, <4>1
    <3>5. ~occ => Interval(k) <= out
      BY <2>1, <3>1 DEF leaves
    <3> QED BY <3>3, <3>4, <3>5
  <2> QED BY <2>2, <2>3
<1>22. same <= 2 => n - same >= 1 /\ (n - same \in Read' <=> n - same - 1 \notin Read')
  <2>1. SUFFICES ASSUME same <= 2
                 PROVE  n - same >= 1 /\ (n - same \in Read' <=> n - same - 1 \notin Read')
    OBVIOUS
  <2>2. n = m + 1 /\ m \in Nat /\ n - 1 = m
    BY <1>4 DEF m
  <2>3. Read \subseteq 1..m
    BY DEF Read, m, r
  <2> HIDE DEF n
  <2>4. \A j \in Int : j <= m => (j \in Read' <=> j \in Read)
    BY <1>9, <2>2, <2>3
  <2>5. n \in Read' <=> occ
    BY <1>9, <2>2, <2>3
  <2>6. CASE begins \/ leaves
    <3>1. same = 0 /\ n - same = n /\ n - same - 1 = m
      BY <1>10, <2>2, <2>6
    <3>2. m \in Read' <=> was
      BY <1>7, <2>2, <2>4
    <3>3. occ <=> ~was
      BY <2>6 DEF begins, leaves
    <3> QED BY <2>2, <2>5, <3>1, <3>2, <3>3
  <2>7. CASE ~(begins \/ leaves)
    <3>1. sweep.same <= 2 /\ same = sweep.same + 1 /\ n - same = m - sweep.same
      BY <1>4, <1>10, <2>1, <2>2, <2>7
    <3>2. m - sweep.same >= 1 /\ (m - sweep.same \in Read <=> m - sweep.same - 1 \notin Read)
      BY <1>3, <3>1 DEF SweepFollowsObstacle, EnoughInterval, m, r
    <3>3. m - sweep.same \in Int /\ m - sweep.same <= m /\ m - sweep.same - 1 \in Int /\ m - sweep.same - 1 <= m
      BY <1>4, <2>2
    <3>4. /\ (m - sweep.same \in Read' <=> m - sweep.same \in Read)
          /\ (m - sweep.same - 1 \in Read' <=> m - sweep.same - 1 \in Read)
      BY <2>4, <3>3
    <3> QED BY <3>1, <3>2, <3>4
  <2> QED BY <2>6, <2>7
<1>23. SweepFollowsObstacle'
  <2>1. n \in Read' <=> occ
    <3>1. m \notin Read \/ m # n
      BY <1>4 DEF m
    <3>2. n \notin 1..m /\ Read \subseteq 1..m
      BY <1>4 DEF m, r, Read
    <3> HIDE DEF n
    <3> QED BY <1>9, <3>2
  <2>2. Interval(n) = i /\ n >= 1
    BY <1>4 DEF i
  <2>3. /\ sweep'.in = in /\ sweep'.out = out /\ sweep'.same = same
        /\ sweep'.start = start /\ sweep'.maybe = maybe /\ Len(sweep'.read) = n
    BY <1>8, <1>9
  <2> HIDE DEF n, in, out
  <2>5. same <= EnoughInterval <=> same <= 2
    BY DEF EnoughInterval
  <2>6. same = EnoughInterval + 1 <=> same = 3
    BY DEF EnoughInterval
  <2>7. sweep'.same <= EnoughInterval =>
          n - sweep'.same >= 1 /\ (n - sweep'.same \in Read' <=> n - sweep'.same - 1 \notin Read')
    BY <1>22, <2>3, <2>5
  <2>8. IF sweep'.start
        THEN /\ n >= 1 /\ sweep'.in \in Nat /\ sweep'.in < i
             /\ sweep'.maybe <=> n \notin Read'
             /\ n \notin Read' => sweep'.same <= EnoughInterval /\ sweep'.in <= sweep'.out
        ELSE n \notin Read' /\ ~sweep'.maybe /\ sweep'.same = EnoughInterval + 1
    BY <1>19, <2>1, <2>2, <2>3, <2>5, <2>6
  <2>9. \A k \in Read' \ Segmented' :
          sweep'.start /\ sweep'.in < Interval(k) /\ (n \notin Read' => Interval(k) <= sweep'.out)
    BY <1>21, <2>1, <2>3
  <2> QED BY <2>2, <2>3, <2>7, <2>8, <2>9 DEF SweepFollowsObstacle, Interval
<1>24. CollisionsAreSegmented'
  <2>1. /\ Len(sweep'.read) = n /\ n = m + 1 /\ m \in Nat
        /\ \A j : j \in Read' <=> j \in 1..n /\ sweep'.read[j]
        /\ \A j : j \in Read <=> j \in 1..m /\ r[j]
    BY <1>4, <1>9 DEF Read, m, r
  <2>2. n \in Read' <=> occ
    BY <1>9, <2>1
  <2> HIDE DEF n
  <2>3. SUFFICES ASSUME NEW k \in Read', NEW g \in (k + 1)..n, GapFrom(g)'
                 PROVE  k \in Segmented'
    BY <2>1 DEF CollisionsAreSegmented, Segmented, Interval
  <2>4. k \in 1..n /\ g \in Int /\ k < g
    BY <2>1, <2>3
  <2>5. g + 3 <= n /\ \A j \in g..(g + 3) : ~sweep'.read[j]
    BY <2>1, <2>3 DEF GapFrom, EnoughInterval
  <2>6. \A j \in g..(g + 3) : j \notin Read'
    BY <2>1, <2>5
  <2>7. CASE g + 3 = n
    <3>1. SUFFICES ASSUME k \notin Segmented'  PROVE FALSE
      OBVIOUS
    <3>2. start /\ ~occ
      <4>1. n \in g..(g + 3)
        BY <2>4, <2>7
      <4>2. n \notin Read'
        BY <2>6, <4>1
      <4> QED BY <1>21, <2>2, <2>3, <3>1, <4>2
    <3>3. same <= 2
      BY <1>19, <3>2
    <3>4. n - same \in Read' <=> n - same - 1 \notin Read'
      BY <1>22, <3>3
    <3>5. n - same \in g..(g + 3) /\ n - same - 1 \in g..(g + 3)
      BY <1>10, <2>1, <2>4, <2>7, <3>3
    <3> QED BY <2>6, <3>4, <3>5
  <2>8. CASE g + 3 < n
    <3>1. g + 3 <= m /\ k \in 1..m /\ g \in (k + 1)..m
      BY <2>1, <2>4, <2>8
    <3>2. k \in Read /\ \A j \in g..(g + 3) : j \in 1..m /\ ~r[j]
      <4>1. \A j \in 1..m : j \in Read' <=> j \in Read
        BY <1>9, <2>1
      <4>2. \A j \in g..(g + 3) : j \in 1..m
        BY <2>1, <2>4, <3>1
      <4> QED BY <2>1, <2>6, <3>1, <4>1, <4>2
    <3>3. GapFrom(g)
      BY <3>1, <3>2 DEF GapFrom, EnoughInterval, m, r
    <3>4. \E s \in ToSet(segs) : s[1] < Interval(k) /\ Interval(k) <= s[2]
      BY <1>3, <2>1, <3>1, <3>2, <3>3 DEF CollisionsAreSegmented, m, r
    <3>5. k \in Segmented
      BY <3>1, <3>4 DEF Segmented, m, r
    <3> QED BY <1>20, <3>5
  <2> QED BY <2>1, <2>4, <2>5, <2>7, <2>8
<1>25. SegTyped'
  <2>1. sweep' \in [read : Seq(BOOLEAN), in : Int, out : Int, same : 0..(EnoughInterval + 1),
                    start : BOOLEAN, maybe : BOOLEAN]
    <3>1. /\ Append(r, occ) \in Seq(BOOLEAN) /\ in \in Int /\ out \in Int
          /\ same \in 0..(EnoughInterval + 1) /\ start \in BOOLEAN /\ maybe \in BOOLEAN
      BY <1>9, <1>10, <1>16 DEF EnoughInterval
    <3> HIDE DEF in, out
    <3> QED BY <1>2, <3>1
  <2>2. /\ todo'.at \in {"sweep", "search"} /\ todo'.at \in SegStages
        /\ todo' \in [at : SegStages, next : Nat \ {0}, undefined : {FALSE}, first : BOOLEAN]
    BY <1>3 DEF SegTyped, SegStages
  <2>3. segs' \in SegmentsFound'
    BY <1>17, <2>2 DEF SegmentsFound
  <2> QED BY <1>3, <2>1, <2>2, <2>3 DEF SegTyped
<1>26. PathsAreOfSegments'
  <2>1. /\ todo'.next = 1 /\ todo'.first = todo.first
        /\ todo'.at = IF n = SweepLength THEN "search" ELSE "sweep"
    BY <1>3, <1>9 DEF SegTyped
  <2>2. Len(segs') \in Nat /\ Len(sweep'.read) = n /\ n <= SweepLength /\ SweepLength \in Nat
    BY <1>4, <1>9, <1>17, IntervalTyped
  <2> HIDE DEF n
  <2> QED BY <1>3, <2>1, <2>2 DEF PathsAreOfSegments, SweepLength, SweepEnd, Order
<1> QED
  BY <1>23, <1>24, <1>25, <1>26 DEF SegInv

(* What the sweep found is settled once the search of segments goes on.    *)
LEMMA SweepKept ==
  ASSUME SegInv, UNCHANGED sweep, todo'.first = todo.first, todo.first => UNCHANGED segs
  PROVE  (todo.first => SweepFollowsObstacle /\ CollisionsAreSegmented)'
<1>1. SUFFICES ASSUME todo.first
               PROVE  SweepFollowsObstacle' /\ CollisionsAreSegmented'
  OBVIOUS
<1>2. SweepFollowsObstacle /\ CollisionsAreSegmented /\ sweep' = sweep /\ segs' = segs
  BY <1>1 DEF SegInv
<1>3. SweepFollowsObstacle'
  BY <1>2 DEF SweepFollowsObstacle, Read, Segmented, Interval
<1>4. CollisionsAreSegmented'
  BY <1>1, <1>2 DEF CollisionsAreSegmented, GapFrom, Interval
<1> QED
  BY <1>3, <1>4

(* What a check of the points finds: segments, or an obstacle without end. *)
Pairs == (Nat \X Nat) \cup {Blocked}

LEMMA AfterTyped ==
  ASSUME NEW occ \in SUBSET Ids, NEW i \in Nat, After(occ, i) # {}
  PROVE  /\ Min(After(occ, i)) \in Nat /\ Min(After(occ, i)) > i /\ Min(After(occ, i)) < Points
         /\ SegmentAt(occ, i) \in Nat \X Nat
<1>1. Points \in Nat /\ Points >= 9
  BY SegmentAssumption
<1>2. After(occ, i) \subseteq Nat /\ \A j \in After(occ, i) : j > i /\ j < Points
  BY <1>1 DEF After, Ids
<1>3. Min(After(occ, i)) \in After(occ, i)
  <2> DEFINE T == After(occ, i)
  <2>1. PICK x \in T : \A y \in T : x <= y
    <3> HIDE DEF T
    <3>1. T \subseteq Nat /\ T # {}
      BY <1>2 DEF T
    <3> QED BY <3>1, LeastOf
  <2> HIDE DEF T
  <2> QED BY <2>1 DEF Min, T
<1>4. Before(occ, i) # {} => Max(Before(occ, i)) \in Nat
  <2>1. Before(occ, i) \subseteq 0..Points
    BY <1>1 DEF Before, Ids
  <2> QED BY <1>1, <2>1, GreatestOf
<1> QED
  BY <1>2, <1>3, <1>4 DEF SegmentAt

LEMMA FoundTyped ==
  ASSUME NEW occ \in SUBSET Ids, NEW new \in SUBSET ((Order - 1)..CheckEnd)
  PROVE  Found(occ, new) \in Seq(Pairs)
<1> DEFINE D(k) == (Points + 2 - k)..(Points + 1)
           Entry(f, i) == IF i > CheckEnd THEN << >>
                         ELSE IF i \notin new THEN f[i + 1]
                         ELSE IF After(occ, i) = {} THEN <<Blocked>>
                         ELSE <<SegmentAt(occ, i)>> \o f[Min(After(occ, i)) + 2]
           Solves(f, k) == f = [i \in D(k) |-> Entry(f, i)]
           Y == Seq(Pairs)
           G == {k \in Nat : k <= Points => \E f \in [D(k) -> Y] : Solves(f, k)}
<1>1. /\ Points \in Nat /\ Points >= 9 /\ CheckEnd \in Int /\ CheckEnd < Points - 3
      /\ (Order - 1)..(Points + 1) = D(Points) /\ Order - 1 \in D(Points)
  BY SegmentAssumption DEF CheckEnd, Order
<1>2. ASSUME NEW i \in Nat, i <= CheckEnd
      PROVE  /\ i + 1 \in (i + 1)..(Points + 1)
             /\ After(occ, i) # {} => /\ Min(After(occ, i)) + 2 \in (i + 1)..(Points + 1)
                                      /\ SegmentAt(occ, i) \in Pairs
  <2>1. After(occ, i) # {} => Min(After(occ, i)) + 2 \in (i + 1)..(Points + 1)
                              /\ SegmentAt(occ, i) \in Pairs
    BY <1>1, AfterTyped DEF Pairs
  <2> QED BY <1>1, <1>2, <2>1
<1>3. ASSUME NEW i \in Nat, NEW f, \A j \in (i + 1)..(Points + 1) : f[j] \in Y
      PROVE  Entry(f, i) \in Y
  <2>1. CASE i > CheckEnd
    BY <2>1
  <2>2. CASE ~(i > CheckEnd) /\ i \notin new
    <3>1. i <= CheckEnd
      BY <1>1, <2>2
    <3> QED BY <1>2, <1>3, <2>2, <3>1
  <2>3. CASE ~(i > CheckEnd) /\ i \in new /\ After(occ, i) = {}
    <3>1. <<Blocked>> \in Y
      BY DEF Pairs
    <3> QED BY <2>3, <3>1
  <2>4. CASE ~(i > CheckEnd) /\ i \in new /\ After(occ, i) # {}
    <3>1. i <= CheckEnd
      BY <1>1, <2>4
    <3>2. SegmentAt(occ, i) \in Pairs /\ f[Min(After(occ, i)) + 2] \in Y
      BY <1>2, <1>3, <2>4, <3>1
    <3>3. <<SegmentAt(occ, i)>> \o f[Min(After(occ, i)) + 2] \in Y
      BY <3>2
    <3> QED BY <2>4, <3>3
  <2> QED BY <2>1, <2>2, <2>3, <2>4
<1>4. ASSUME NEW i \in Nat, NEW f, NEW g, \A j \in (i + 1)..(Points + 1) : f[j] = g[j]
      PROVE  Entry(f, i) = Entry(g, i)
  <2>1. CASE i > CheckEnd
    BY <2>1
  <2>2. CASE i <= CheckEnd
    BY <1>2, <1>4, <2>2
  <2> QED BY <1>1, <2>1, <2>2
<1> HIDE DEF Y, Entry
<1>5. 0 \in G
  <2> DEFINE f == [i \in D(0) |-> <<>>]
  <2>1. D(0) = {}
    BY <1>1
  <2>2. f \in [D(0) -> Y] /\ Solves(f, 0)
    BY <2>1
  <2> HIDE DEF f, Solves
  <2> QED BY <2>2
<1>6. ASSUME NEW k \in Nat, k \in G  PROVE k + 1 \in G
  <2>1. SUFFICES ASSUME k + 1 <= Points  PROVE \E f \in [D(k + 1) -> Y] : Solves(f, k + 1)
    BY DEF G
  <2>2. PICK g \in [D(k) -> Y] : Solves(g, k)
    BY <1>1, <1>6, <2>1
  <2> DEFINE f == [i \in D(k + 1) |-> Entry(g, i)]
  <2>3. ASSUME NEW i \in D(k + 1)  PROVE i \in Nat /\ (i + 1)..(Points + 1) \subseteq D(k)
    BY <1>1, <2>1
  <2>4. f \in [D(k + 1) -> Y]
    <3>1. ASSUME NEW i \in D(k + 1)  PROVE Entry(g, i) \in Y
      <4>1. i \in Nat /\ \A j \in (i + 1)..(Points + 1) : g[j] \in Y
        BY <2>2, <2>3
      <4> QED BY <1>3, <4>1
    <3> HIDE DEF D
    <3> QED BY <3>1
  <2>5. ASSUME NEW i \in D(k)  PROVE f[i] = g[i]
    <3>1. i \in D(k + 1)
      BY <1>1
    <3>2. g[i] = Entry(g, i)
      BY <2>2
    <3> HIDE DEF D
    <3> QED BY <3>1, <3>2
  <2>6. ASSUME NEW i \in D(k + 1)  PROVE Entry(g, i) = Entry(f, i)
    <3> HIDE DEF f
    <3>1. i \in Nat /\ \A j \in (i + 1)..(Points + 1) : g[j] = f[j]
      BY <2>3, <2>5
    <3> QED BY <1>4, <3>1
  <2>7. Solves(f, k + 1)
    <3> HIDE DEF D
    <3> QED BY <2>6
  <2> HIDE DEF f, Solves, D
  <2> QED BY <2>4, <2>7
<1>7. Points \in G
  <2> HIDE DEF G
  <2> QED BY <1>1, <1>5, <1>6, NumberInduction
<1> DEFINE from == CHOOSE f : Solves(f, Points)
<1>8. Found(occ, new) = from[Order - 1]
  BY <1>1 DEF Found, Entry
<1>9. \E f \in [D(Points) -> Y] : Solves(f, Points)
  BY <1>1, <1>7
<1>10. Solves(from, Points)
  <2> HIDE DEF Solves, D
  <2> QED BY <1>9
<1> HIDE DEF from
<1> DEFINE H == {k \in Nat : k <= Points => \A i \in D(k) : from[i] \in Y}
<1>11. 0 \in H
  BY <1>1
<1>12. ASSUME NEW k \in Nat, k \in H  PROVE k + 1 \in H
  <2>1. SUFFICES ASSUME k + 1 <= Points, NEW i \in D(k + 1)  PROVE from[i] \in Y
    BY DEF H
  <2>2. \A j \in D(k) : from[j] \in Y
    BY <1>1, <1>12, <2>1
  <2>3. i \in Nat /\ (i + 1)..(Points + 1) \subseteq D(k) /\ i \in D(Points)
    BY <1>1, <2>1
  <2>4. from[i] = Entry(from, i)
    BY <1>10, <2>3
  <2> HIDE DEF D
  <2> QED BY <1>3, <2>2, <2>3, <2>4
<1>13. Points \in H
  <2> HIDE DEF H
  <2> QED BY <1>1, <1>11, <1>12, NumberInduction
<1>14. from[Order - 1] \in Y
  BY <1>1, <1>13
<1> QED
  BY <1>8, <1>14 DEF Y

LEMMA CheckStep == SegInv /\ CheckCollisions => SegInv'
<1> SUFFICES ASSUME SegInv, CheckCollisions  PROVE SegInv'
  OBVIOUS
<1>1. PICK occ \in SUBSET Ids, new \in SUBSET ((Order - 1)..CheckEnd) : segs' = Found(occ, new)
  BY DEF CheckCollisions
<1>2. /\ todo.at = "check" /\ sweep' = sweep /\ paths' = paths /\ aimed' = aimed
      /\ todo' = [todo EXCEPT !.at = IF Blocked \in ToSet(segs') THEN "failed" ELSE "search"]
      /\ SegTyped /\ PathsAreOfSegments
  BY DEF CheckCollisions, SegInv
<1>3. ~todo.first /\ paths = <<>> /\ todo.next = 1
  <2>1. paths = <<>> /\ todo.next = 1
    BY <1>2 DEF PathsAreOfSegments
  <2> QED BY <1>2, <2>1 DEF PathsAreOfSegments
<1>4. segs' \in Seq(Pairs) /\ Len(segs') \in Nat
  BY <1>1, FoundTyped
<1>5. /\ todo'.at = IF Blocked \in ToSet(segs') THEN "failed" ELSE "search"
      /\ todo'.next = 1 /\ todo'.first = todo.first
      /\ todo' \in [at : SegStages, next : Nat \ {0}, undefined : {FALSE}, first : BOOLEAN]
  BY <1>2, <1>3 DEF SegTyped, SegStages
<1>6. segs' \in SegmentsFound'
  <2>1. CASE Blocked \in ToSet(segs')
    <3>1. Pairs \subseteq Int \X Int
      BY DEF Pairs, Blocked
    <3>2. segs' \in Seq(Int \X Int)
      BY <1>4, <3>1
    <3> QED BY <1>5, <2>1, <3>2 DEF SegmentsFound
  <2>2. CASE Blocked \notin ToSet(segs')
    <3>1. \A k \in 1..Len(segs') : segs'[k] \in Nat \X Nat
      <4>1. \A k \in 1..Len(segs') : segs'[k] \in Pairs /\ segs'[k] \in ToSet(segs')
        BY <1>4 DEF ToSet
      <4> QED BY <2>2, <4>1 DEF Pairs
    <3>2. segs' \in Seq(Nat \X Nat)
      BY <1>4, <3>1
    <3> QED BY <1>5, <2>2, <3>2 DEF SegmentsFound
  <2> QED BY <2>1, <2>2
<1>7. SegTyped'
  BY <1>2, <1>5, <1>6 DEF SegTyped
<1>8. PathsAreOfSegments'
  BY <1>2, <1>3, <1>4, <1>5 DEF PathsAreOfSegments
<1>9. todo'.first = todo.first /\ UNCHANGED sweep /\ (todo.first => UNCHANGED segs)
  BY <1>2, <1>3, <1>5
<1> QED
  BY <1>7, <1>8, <1>9, SweepKept DEF SegInv

LEMMA RemoveAtTyped ==
  ASSUME NEW S, NEW t \in Seq(S), NEW k \in 1..Len(t)
  PROVE  /\ RemoveAt(t, k) \in Seq(S) /\ Len(RemoveAt(t, k)) = Len(t) - 1
         /\ \A j \in 1..k - 1 : RemoveAt(t, k)[j] = t[j]
<1> DEFINE a == SubSeq(t, 1, k - 1)
           b == SubSeq(t, k + 1, Len(t))
<1>1. a \in Seq(S) /\ Len(a) = k - 1 /\ \A j \in 1..k - 1 : a[j] = t[j]
  OBVIOUS
<1>2. b \in Seq(S) /\ Len(b) = Len(t) - k
  OBVIOUS
<1>3. RemoveAt(t, k) = a \o b
  BY DEF RemoveAt
<1> HIDE DEF a, b
<1>4. a \o b \in Seq(S) /\ Len(a \o b) = Len(a) + Len(b) /\ \A j \in 1..Len(a) : (a \o b)[j] = a[j]
  BY <1>1, <1>2
<1> QED
  BY <1>1, <1>2, <1>3, <1>4

Todos == [at : SegStages, next : Nat \ {0}, undefined : {FALSE}, first : BOOLEAN]

LEMMA TodoTyped ==
  ASSUME NEW t \in Todos, NEW a \in SegStages, NEW n \in Nat \ {0}
  PROVE  /\ [t EXCEPT !.at = a] \in Todos /\ [t EXCEPT !.at = a].at = a
         /\ [t EXCEPT !.at = a].next = t.next /\ [t EXCEPT !.at = a].first = t.first
         /\ [t EXCEPT !.next = n] \in Todos /\ [t EXCEPT !.next = n].at = t.at
         /\ [t EXCEPT !.next = n].next = n /\ [t EXCEPT !.next = n].first = t.first
<1>1. [t EXCEPT !.at = a] \in Todos
  BY DEF Todos
<1>2. [t EXCEPT !.next = n] \in Todos
  BY DEF Todos
<1>3. /\ [t EXCEPT !.at = a].at = a /\ [t EXCEPT !.at = a].next = t.next
      /\ [t EXCEPT !.at = a].first = t.first
  BY DEF Todos
<1>4. /\ [t EXCEPT !.next = n].at = t.at /\ [t EXCEPT !.next = n].next = n
      /\ [t EXCEPT !.next = n].first = t.first
  BY DEF Todos
<1> QED
  BY <1>1, <1>2, <1>3, <1>4

(* The search keeps the paths with their segments, whichever it drops and  *)
(* merges behind them.                                                     *)
LEMMA SearchStep ==
  SegInv /\ (PathFound \/ PathTooShort \/ MergeWithNext \/ SearchFails \/ SearchDone) => SegInv'
<1> SUFFICES ASSUME SegInv, PathFound \/ PathTooShort \/ MergeWithNext \/ SearchFails \/ SearchDone
             PROVE  SegInv'
  OBVIOUS
<1> DEFINE k == todo.next
<1>1. todo.at = "search" /\ sweep' = sweep /\ aimed' = aimed
  BY DEF PathFound, PathTooShort, MergeWithNext, SearchFails, SearchDone, Searching
<1>2. /\ segs \in Seq(Nat \X Nat) /\ Len(segs) \in Nat /\ paths \in Seq(Int \X Int)
      /\ k \in Nat \ {0} /\ Len(paths) = k - 1 /\ k <= Len(segs) + 1
      /\ \A n \in 1..Len(paths) : n <= Len(segs) /\ paths[n] = segs[n]
      /\ todo \in Todos /\ SegTyped
  <2>1. SegTyped /\ PathsAreOfSegments
    BY DEF SegInv
  <2>2. /\ segs \in Seq(Nat \X Nat) /\ paths \in Seq(Int \X Int) /\ todo \in Todos
        /\ k \in Nat \ {0}
    BY <1>1, <2>1 DEF SegTyped, SegmentsFound, Todos
  <2>3. /\ Len(paths) = k - 1 /\ k <= Len(segs) + 1
        /\ \A n \in 1..Len(paths) : n <= Len(segs) /\ paths[n] = segs[n]
    BY <1>1, <2>1 DEF PathsAreOfSegments
  <2>4. Len(segs) \in Nat
    BY <2>2
  <2> QED BY <2>1, <2>2, <2>3, <2>4
<1>3. Seq(Nat \X Nat) \subseteq Seq(Int \X Int)
  OBVIOUS
<1>4. CASE PathFound
  <2>1. k <= Len(segs) /\ paths' = Append(paths, segs[k]) /\ segs' = segs
        /\ todo' = [todo EXCEPT !.next = @ + 1]
    BY <1>4 DEF PathFound, Searching
  <2>2. /\ todo'.next = k + 1 /\ todo'.at = "search" /\ todo'.first = todo.first
        /\ todo' \in Todos
    <3>1. k + 1 \in Nat \ {0} /\ todo.at \in SegStages
      BY <1>1, <1>2 DEF SegStages
    <3> QED BY <1>1, <1>2, <2>1, <3>1, TodoTyped
  <2>3. segs[k] \in Int \X Int
    BY <1>2, <2>1
  <2>4. /\ paths' \in Seq(Int \X Int) /\ Len(paths') = k /\ paths'[k] = segs[k]
        /\ \A n \in 1..k - 1 : paths'[n] = paths[n]
    <3> DEFINE x == segs[k]
    <3>1. x \in Int \X Int /\ paths' = Append(paths, x) /\ paths \in Seq(Int \X Int) /\ Len(paths) = k - 1
      BY <1>2, <2>1, <2>3
    <3>2. k \in Nat \ {0}
      BY <1>2
    <3> HIDE DEF x, k
    <3>3. Append(paths, x) \in Seq(Int \X Int) /\ Len(Append(paths, x)) = k /\ Append(paths, x)[k] = x
      BY <3>1, <3>2
    <3>4. \A n \in 1..k - 1 : Append(paths, x)[n] = paths[n]
      BY <3>1, <3>2
    <3> QED BY <3>1, <3>3, <3>4 DEF x
  <2> HIDE DEF k
  <2>5. SegTyped'
    BY <1>1, <1>2, <2>1, <2>2, <2>4 DEF SegTyped, SegmentsFound, Todos
  <2>6. PathsAreOfSegments'
    <3>1. \A n \in 1..k : n <= Len(segs) /\ paths'[n] = segs[n]
      <4>1. \A n \in 1..k : n = k \/ n \in 1..k - 1
        BY <1>2
      <4> QED BY <1>2, <2>1, <2>4, <4>1
    <3>2. k = todo'.next - 1 /\ todo'.next <= Len(segs') + 1
      BY <1>2, <2>1, <2>2
    <3> QED BY <2>1, <2>2, <2>4, <3>1, <3>2 DEF PathsAreOfSegments
  <2> QED BY <1>1, <2>1, <2>2, <2>5, <2>6, SweepKept DEF SegInv
<1>5. CASE (PathTooShort /\ todo.first) \/ SearchFails
  <2>1. segs' = segs /\ paths' = paths /\ todo' = [todo EXCEPT !.at = "failed"]
    BY <1>5 DEF PathTooShort, SearchFails
  <2>2. /\ todo'.at = "failed" /\ todo'.first = todo.first
        /\ todo' \in Todos
    BY <1>2, <2>1, TodoTyped DEF SegStages
  <2>3. SegTyped'
    BY <1>1, <1>2, <1>3, <2>1, <2>2 DEF SegTyped, SegmentsFound, Todos
  <2>4. PathsAreOfSegments'
    BY <1>2, <2>1, <2>2 DEF PathsAreOfSegments
  <2> QED BY <1>1, <2>1, <2>2, <2>3, <2>4, SweepKept DEF SegInv
<1>6. CASE (PathTooShort /\ ~todo.first) \/ MergeWithNext
  <2>1. ~todo.first /\ paths' = paths /\ todo' = todo
    BY <1>6 DEF PathTooShort, MergeWithNext
  <2>2. /\ segs' \in Seq(Nat \X Nat) /\ Len(segs') = Len(segs) - 1 /\ k <= Len(segs)
        /\ \A j \in 1..k - 1 : segs'[j] = segs[j]
    <3>1. CASE PathTooShort /\ ~todo.first
      <4>1. segs' = RemoveAt(segs, k) /\ k \in 1..Len(segs)
        BY <1>2, <3>1 DEF PathTooShort, Searching
      <4>2. segs \in Seq(Nat \X Nat)
        BY <1>2
      <4> HIDE DEF k
      <4>3. /\ RemoveAt(segs, k) \in Seq(Nat \X Nat) /\ Len(RemoveAt(segs, k)) = Len(segs) - 1
            /\ \A j \in 1..k - 1 : RemoveAt(segs, k)[j] = segs[j]
        BY <4>1, <4>2, RemoveAtTyped
      <4> QED BY <1>2, <4>1, <4>3
    <3>2. CASE MergeWithNext
      <4> DEFINE t == [segs EXCEPT ![k][2] = segs[k + 1][2]]
      <4>1. segs' = RemoveAt(t, k + 1) /\ k \in 1..Len(segs) /\ k + 1 \in 1..Len(segs)
        <5>1. segs' = RemoveAt(t, k + 1) /\ k < Len(segs)
          BY <3>2 DEF MergeWithNext
        <5>2. k \in Nat \ {0} /\ Len(segs) \in Nat
          BY <1>2
        <5> HIDE DEF t, k
        <5> QED BY <5>1, <5>2
      <4>2. segs[k] \in Nat \X Nat /\ segs[k + 1][2] \in Nat
        <5>1. segs \in Seq(Nat \X Nat)
          BY <1>2
        <5> HIDE DEF k
        <5>2. segs[k] \in Nat \X Nat /\ segs[k + 1] \in Nat \X Nat
          BY <4>1, <5>1
        <5> QED BY <5>2
      <4>3. [segs[k] EXCEPT ![2] = segs[k + 1][2]] \in Nat \X Nat
        BY <4>2
      <4>4. t = [segs EXCEPT ![k] = [segs[k] EXCEPT ![2] = segs[k + 1][2]]]
        BY <4>1
      <4>5. t \in Seq(Nat \X Nat) /\ Len(t) = Len(segs) /\ \A j \in 1..k - 1 : t[j] = segs[j]
        <5> DEFINE x == [segs[k] EXCEPT ![2] = segs[k + 1][2]]
        <5>1. x \in Nat \X Nat /\ t = [segs EXCEPT ![k] = x] /\ segs \in Seq(Nat \X Nat)
          BY <1>2, <4>3, <4>4
        <5> HIDE DEF x, t, k
        <5>2. t \in Seq(Nat \X Nat)
          BY <4>1, <5>1
        <5>3. Len(t) = Len(segs) /\ \A j \in 1..k - 1 : t[j] = segs[j]
          BY <4>1, <5>1
        <5> QED BY <5>2, <5>3
      <4> HIDE DEF t
      <4>6. /\ RemoveAt(t, k + 1) \in Seq(Nat \X Nat) /\ Len(RemoveAt(t, k + 1)) = Len(t) - 1
            /\ \A j \in 1..k : RemoveAt(t, k + 1)[j] = t[j]
        <5>1. k + 1 \in 1..Len(t) /\ k + 1 - 1 = k
          BY <1>2, <4>1, <4>5
        <5>2. t \in Seq(Nat \X Nat)
          BY <4>5
        <5> HIDE DEF k
        <5> DEFINE h == k + 1
        <5>3. h \in 1..Len(t) /\ h - 1 = k
          <6>1. k \in Nat
            BY <1>2 DEF k
          <6>2. h - 1 = k
            BY <6>1
          <6> QED BY <5>1, <6>2
        <5> HIDE DEF h
        <5>4. /\ RemoveAt(t, h) \in Seq(Nat \X Nat) /\ Len(RemoveAt(t, h)) = Len(t) - 1
              /\ \A j \in 1..h - 1 : RemoveAt(t, h)[j] = t[j]
          BY <5>2, <5>3, RemoveAtTyped
        <5> QED BY <5>3, <5>4 DEF h
      <4>7. Len(segs) \in Nat /\ k \in Nat /\ k + 1 <= Len(segs)
        BY <1>2, <4>1
      <4>8. segs' = RemoveAt(t, k + 1) /\ Len(t) = Len(segs)
        BY <4>1, <4>5
      <4>9. \A j \in 1..k - 1 : t[j] = segs[j] /\ j \in 1..k
        <5>1. \A j \in 1..k - 1 : t[j] = segs[j]
          BY <4>5
        <5> HIDE DEF k
        <5>2. \A j \in 1..k - 1 : j \in 1..k
          BY <4>7
        <5> QED BY <5>1, <5>2
      <4> HIDE DEF k
      <4> QED BY <4>6, <4>7, <4>8, <4>9
    <3> QED BY <1>6, <3>1, <3>2
  <2>3. SegTyped'
    BY <1>1, <1>2, <2>1, <2>2 DEF SegTyped, SegmentsFound, Todos
  <2>4. PathsAreOfSegments'
    <3>1. \A n \in 1..Len(paths) : n <= Len(segs') /\ paths[n] = segs'[n]
      <4>1. Len(paths) = k - 1 /\ Len(segs') = Len(segs) - 1 /\ k <= Len(segs) /\ k \in Nat
            /\ Len(segs) \in Nat
        BY <1>2, <2>2
      <4> HIDE DEF k
      <4>2. \A n \in 1..Len(paths) : n \in 1..k - 1 /\ n <= Len(segs')
        BY <4>1
      <4>3. \A n \in 1..Len(paths) : paths[n] = segs[n]
        BY <1>2
      <4>4. \A n \in 1..k - 1 : segs'[n] = segs[n]
        BY <2>2 DEF k
      <4> QED BY <4>2, <4>3, <4>4
    <3>2. k <= Len(segs') + 1
      BY <1>2, <2>2
    <3> QED BY <1>1, <1>2, <2>1, <3>1, <3>2 DEF PathsAreOfSegments
  <2> QED BY <1>1, <2>1, <2>3, <2>4, SweepKept DEF SegInv
<1>7. CASE SearchDone
  <2>1. segs' = segs /\ paths' = paths /\ k > Len(segs)
        /\ todo' = [todo EXCEPT !.at = "assign", !.next = 1]
    BY <1>7 DEF SearchDone
  <2>2. /\ todo'.at = "assign" /\ todo'.first = todo.first
        /\ todo' \in Todos
    <3>1. "assign" \in SegStages /\ 1 \in Nat \ {0}
      BY DEF SegStages
    <3> DEFINE u == [todo EXCEPT !.at = "assign"]
    <3>2. todo' = [u EXCEPT !.next = 1]
      BY <1>2, <2>1 DEF Todos
    <3>3. u \in Todos /\ u.at = "assign" /\ u.first = todo.first
      BY <1>2, <3>1, TodoTyped
    <3> HIDE DEF u
    <3> QED BY <3>1, <3>2, <3>3, TodoTyped
  <2>3. Len(paths) = Len(segs)
    BY <1>2, <2>1
  <2>4. SegTyped'
    BY <1>1, <1>2, <2>1, <2>2 DEF SegTyped, SegmentsFound, Todos
  <2>5. PathsAreOfSegments'
    BY <1>2, <2>1, <2>2, <2>3 DEF PathsAreOfSegments
  <2> QED BY <1>1, <2>1, <2>2, <2>4, <2>5, SweepKept DEF SegInv
<1> QED
  BY <1>4, <1>5, <1>6, <1>7

(* The fold in which control points take directions from their neighbours. *)
Turns == [aimed : SUBSET Int, undefined : BOOLEAN]
Turned(acc, j, met, side) ==
  IF j \in met THEN acc
  ELSE [aimed     |-> acc.aimed \cup {j},
        undefined |-> acc.undefined \/ j - side \notin acc.aimed]

LEMMA TurnedTyped ==
  ASSUME NEW acc \in Turns, NEW j \in Int, NEW met, NEW side
  PROVE  /\ Turned(acc, j, met, side) \in Turns
         /\ acc.aimed \subseteq Turned(acc, j, met, side).aimed
         /\ j \in met \/ j \in Turned(acc, j, met, side).aimed
         /\ acc.undefined = FALSE /\ (j \in met \/ j - side \in acc.aimed)
              => Turned(acc, j, met, side).undefined = FALSE
<1>1. CASE j \in met
  BY <1>1 DEF Turned
<1>2. CASE j \notin met
  <2> DEFINE b == acc.undefined \/ j - side \notin acc.aimed
             x == acc.aimed \cup {j}
  <2>1. b \in BOOLEAN /\ x \subseteq Int
    BY DEF Turns
  <2>2. acc.undefined = FALSE /\ j - side \in acc.aimed => b = FALSE
    OBVIOUS
  <2>3. Turned(acc, j, met, side) = [aimed |-> x, undefined |-> b]
    BY <1>2 DEF Turned
  <2>4. acc.aimed \subseteq x /\ j \in x
    OBVIOUS
  <2> HIDE DEF b, x
  <2> QED BY <1>2, <2>1, <2>2, <2>3, <2>4 DEF Turns
<1> QED
  BY <1>1, <1>2

LEMMA InheritAims ==
  ASSUME NEW base \in Turns, NEW r \in Seq(Int), NEW met, NEW side, base.undefined = FALSE,
         met \subseteq base.aimed,
         \A k \in 1..Len(r) : r[k] - side \in base.aimed \cup {r[j] : j \in 1..k - 1}
  PROVE  LET u == Inherit(base, r, met, side)
         IN  /\ u \in Turns /\ u.undefined = FALSE
             /\ base.aimed \cup {r[j] : j \in 1..Len(r)} \subseteq u.aimed
<1> DEFINE D == DOMAIN r
           Y == Turns
           Solves(f) == f = [s \in SUBSET D |->
                               IF s = {} THEN base ELSE Turned(f[s \ {Max(s)}], r[Max(s)], met, side)]
           iter == CHOOSE f : Solves(f)
           ch   == [s \in (SUBSET D) \ {{}} |-> Max(s)]
           step == [z \in D \X Y |-> Turned(z[2], r[z[1]], met, side)]
<1>1. Inherit(base, r, met, side) = iter[D]
  BY DEF Inherit, FoldLeft, MapThenFoldSet, Turned
<1>2. D = 1..Len(r) /\ IsFiniteSet(D) /\ Len(r) \in Nat
  <2>1. D = 1..Len(r) /\ Len(r) \in Nat
    OBVIOUS
  <2>2. IsFiniteSet(1..Len(r))
    BY <2>1, FS_Interval
  <2> QED BY <2>1, <2>2
<1>3. ASSUME NEW s \in SUBSET D, s # {}  PROVE Max(s) \in s /\ \A y \in s : Max(s) >= y
  <2>1. s \subseteq 0..Len(r)
    BY <1>2
  <2> QED BY <1>2, <1>3, <2>1, GreatestOf
<1>5. ASSUME NEW q \in Y, NEW i \in D  PROVE Turned(q, r[i], met, side) \in Y
  <2>1. r[i] \in Int
    BY <1>2
  <2> QED BY <2>1, TurnedTyped
<1>6. \E f : Solves(f)
  <2>0. ch \in [(SUBSET D) \ {{}} -> D]
    BY <1>3
  <2>1. \A s \in SUBSET D : s # {} => ch[s] \in s
    BY <1>3
  <2>2. step \in [D \X Y -> Y]
    BY <1>5
  <2>3. IsFiniteSet(D) /\ base \in Y
    BY <1>2
  <2> HIDE DEF D, Y, ch, step
  <2>4. PICK f \in [SUBSET D -> Y] : Recurses(f, D, base, ch, step)
    BY <2>0, <2>1, <2>2, <2>3, SubsetRecursion
  <2>5. \A s \in SUBSET D : f[s] = IF s = {} THEN base ELSE step[<<ch[s], f[s \ {ch[s]}]>>]
    BY <2>4 DEF Recurses
  <2>6. ASSUME NEW s \in SUBSET D, s # {}
        PROVE  f[s] = Turned(f[s \ {Max(s)}], r[Max(s)], met, side)
    <3>1. ch[s] = Max(s) /\ Max(s) \in D
      BY <1>3, <2>6 DEF ch
    <3>2. f[s \ {Max(s)}] \in Y
      OBVIOUS
    <3>3. step[<<Max(s), f[s \ {Max(s)}]>>] = Turned(f[s \ {Max(s)}], r[Max(s)], met, side)
      BY <3>1, <3>2 DEF step
    <3> QED BY <2>5, <2>6, <3>1, <3>3
  <2>7. \A s \in SUBSET D :
          f[s] = IF s = {} THEN base ELSE Turned(f[s \ {Max(s)}], r[Max(s)], met, side)
    BY <2>5, <2>6
  <2>8. Solves(f)
    BY <2>7
  <2> QED BY <2>8
<1>7. Solves(iter)
  <2> HIDE DEF Solves
  <2> QED BY <1>6
<1> HIDE DEF iter
<1> DEFINE Aims(k) == /\ iter[1..k] \in Turns /\ iter[1..k].undefined = FALSE
                      /\ base.aimed \cup {r[j] : j \in 1..k} \subseteq iter[1..k].aimed
           G == {k \in Nat : k <= Len(r) => Aims(k)}
<1>8. 0 \in G
  <2>1. 1..0 = {} /\ iter[{}] = base
    BY <1>7
  <2> QED BY <2>1
<1>9. ASSUME NEW k \in Nat, k \in G  PROVE k + 1 \in G
  <2>1. SUFFICES ASSUME k + 1 <= Len(r)  PROVE Aims(k + 1)
    <3> HIDE DEF Aims
    <3> QED BY DEF G
  <2>2. Aims(k)
    <3> HIDE DEF Aims
    <3> QED BY <1>2, <1>9, <2>1
  <2> DEFINE s == 1..k + 1
             v == Turned(iter[1..k], r[k + 1], met, side)
  <2>3. s \in SUBSET D /\ s # {} /\ k + 1 \in s /\ k + 1 \in 1..Len(r)
    <3> HIDE DEF D
    <3>1. s \subseteq 1..Len(r) /\ k + 1 \in s
      BY <1>2, <2>1
    <3> QED BY <1>2, <3>1
  <2>4. Max(s) = k + 1
    <3>1. Max(s) \in s /\ Max(s) >= k + 1
      BY <1>3, <2>3
    <3> QED BY <3>1
  <2>5. s \ {k + 1} = 1..k
    OBVIOUS
  <2>6. iter[s] = v
    <3>1. iter[s] = Turned(iter[s \ {Max(s)}], r[Max(s)], met, side)
      <4> HIDE DEF s
      <4> QED BY <1>7, <2>3
    <3> QED BY <2>4, <2>5, <3>1
  <2>7. r[k + 1] \in Int /\ r[k + 1] - side \in base.aimed \cup {r[j] : j \in 1..k}
    <3>1. k + 1 - 1 = k
      OBVIOUS
    <3>2. r[k + 1] - side \in base.aimed \cup {r[j] : j \in 1..k + 1 - 1}
      BY <2>3
    <3> QED BY <2>3, <3>1, <3>2
  <2>8. /\ v \in Turns /\ iter[1..k].aimed \subseteq v.aimed /\ r[k + 1] \in v.aimed \cup met
        /\ v.undefined = FALSE
    BY <2>2, <2>7, TurnedTyped
  <2>9. {r[j] : j \in s} = {r[j] : j \in 1..k} \cup {r[k + 1]}
    <3>1. s = (1..k) \cup {k + 1}
      OBVIOUS
    <3> QED BY <3>1
  <2> HIDE DEF s, v
  <2>10. base.aimed \cup {r[j] : j \in s} \subseteq v.aimed
    BY <2>2, <2>8, <2>9
  <2> QED BY <2>6, <2>8, <2>10 DEF s
<1>10. Len(r) \in G
  <2> HIDE DEF G
  <2> QED BY <1>2, <1>8, <1>9, NumberInduction
<1> QED
  BY <1>1, <1>2, <1>10

LEMMA RunsTyped ==
  ASSUME NEW a \in Int, NEW n \in Nat, NEW d \in Int
  PROVE  LET r == [k \in 1..n |-> a + d * k]
         IN  r \in Seq(Int) /\ Len(r) = n
<1> QED
  OBVIOUS

LEMMA MeetingTyped ==
  ASSUME NEW s \in Nat \X Nat, NEW met \in SUBSET MayMeet(s), met # {}
  PROVE  Max(met) \in met /\ Max(met) \in Nat /\ s[1] <= Max(met) /\ Max(met) < s[2] /\ met \subseteq Int
<1>1. \A x \in MayMeet(s) : x \in 0..s[2] /\ s[1] <= x /\ x < s[2]
  BY DEF MayMeet
<1>2. met \subseteq 0..s[2] /\ s[2] \in Nat
  BY <1>1
<1>3. Max(met) \in met
  BY <1>2, GreatestOf
<1>4. \A x \in met : x \in 0..s[2] /\ s[1] <= x /\ x < s[2]
  BY <1>1
<1>5. \A x \in 0..s[2] : x \in Nat /\ x \in Int
  BY <1>2
<1> QED
  BY <1>3, <1>4, <1>5

(* Of what a segment leaves to aim, no point takes an undefined direction. *)
LEMMA OutwardsAims ==
  ASSUME NEW base \in Turns, base.undefined = FALSE, NEW s \in Nat \X Nat,
         NEW met \in SUBSET MayMeet(s), met # {}, met \subseteq base.aimed
  PROVE  LET up   == Inherit(base, Upwards(Max(met) + 1, s[2]), met, 1)
             both == Inherit(up, Downwards(Max(met) - 1, s[1]), met, -1)
         IN  both \in Turns /\ both.undefined = FALSE
<1> DEFINE x == Max(met)
           u == Upwards(x + 1, s[2])
           d == Downwards(x - 1, s[1])
           up == Inherit(base, u, met, 1)
<1>1. /\ x \in met /\ x \in Nat /\ s[1] \in Nat /\ s[2] \in Nat /\ s[1] <= x /\ x < s[2]
  BY MeetingTyped
<1> HIDE DEF x
<1>2. /\ u \in Seq(Int) /\ Len(u) = s[2] - x
      /\ \A k \in 1..Len(u) : u[k] = x + k
  <2> DEFINE n == s[2] - x
  <2>1. n \in Nat
    BY <1>1
  <2>2. u = [k \in 1..n |-> x + k]
    BY <1>1 DEF Upwards
  <2> HIDE DEF n, u
  <2>3. u \in Seq(Int) /\ Len(u) = n
    BY <1>1, <2>1, <2>2
  <2>4. \A k \in 1..n : u[k] = x + k
    BY <2>2
  <2> QED BY <2>3, <2>4 DEF n
<1>3. /\ d \in Seq(Int) /\ Len(d) = x - s[1]
      /\ \A k \in 1..Len(d) : d[k] = x - k
  <2> DEFINE n == x - s[1]
  <2>1. n \in Nat
    BY <1>1
  <2>2. d = [k \in 1..n |-> x - k]
    BY <1>1 DEF Downwards
  <2> HIDE DEF n, d
  <2>3. d \in Seq(Int) /\ Len(d) = n
    BY <1>1, <2>1, <2>2
  <2>4. \A k \in 1..n : d[k] = x - k
    BY <2>2
  <2> QED BY <2>3, <2>4 DEF n
<1> HIDE DEF u, d
<1>4. \A k \in 1..Len(u) : u[k] - 1 \in base.aimed \cup {u[j] : j \in 1..k - 1}
  <2>1. SUFFICES ASSUME NEW k \in 1..Len(u), k # 1  PROVE u[k] - 1 \in {u[j] : j \in 1..k - 1}
    <3>1. 1 \in 1..Len(u) => u[1] - 1 = x
      BY <1>1, <1>2
    <3> QED BY <1>1, <3>1
  <2>2. k - 1 \in 1..k - 1 /\ k - 1 \in 1..Len(u)
    BY <1>1, <1>2, <2>1
  <2>3. u[k] - 1 = u[k - 1]
    BY <1>1, <1>2, <2>2
  <2> QED BY <2>2, <2>3
<1>5. /\ up \in Turns /\ up.undefined = FALSE /\ base.aimed \subseteq up.aimed
  BY <1>2, <1>4, InheritAims
<1> HIDE DEF up
<1>6. \A k \in 1..Len(d) : d[k] - (-1) \in up.aimed \cup {d[j] : j \in 1..k - 1}
  <2>1. SUFFICES ASSUME NEW k \in 1..Len(d), k # 1  PROVE d[k] - (-1) \in {d[j] : j \in 1..k - 1}
    <3>1. 1 \in 1..Len(d) => d[1] - (-1) = x
      BY <1>1, <1>3
    <3> QED BY <1>1, <1>5, <3>1
  <2>2. k - 1 \in 1..k - 1 /\ k - 1 \in 1..Len(d)
    BY <1>1, <1>3, <2>1
  <2>3. d[k] - (-1) = d[k - 1]
    BY <1>1, <1>3, <2>2
  <2> QED BY <2>2, <2>3
<1>7. met \subseteq up.aimed
  BY <1>5
<1> DEFINE both == Inherit(up, d, met, -1)
<1>8. both \in Turns /\ both.undefined = FALSE
  BY <1>3, <1>5, <1>6, <1>7, InheritAims
<1> QED
  BY <1>8 DEF up, u, d, x

LEMMA AssignStep == SegInv /\ AssignDirections => SegInv'
<1> SUFFICES ASSUME SegInv, AssignDirections  PROVE SegInv'
  OBVIOUS
<1> DEFINE k == todo.next
           s == segs[k]
<1>1. /\ todo.at = "assign" /\ sweep' = sweep /\ segs' = segs /\ paths' = paths
      /\ k <= Len(segs)
  BY DEF AssignDirections
<1>2. SegTyped /\ PathsAreOfSegments
  BY DEF SegInv
<1>3. segs \in Seq(Nat \X Nat) /\ todo \in Todos /\ k \in Nat \ {0} /\ aimed \subseteq Int
      /\ todo.undefined = FALSE
  BY <1>1, <1>2 DEF SegTyped, SegmentsFound, Todos
<1>4. s \in Nat \X Nat
  <2> HIDE DEF k
  <2> QED BY <1>1, <1>3
<1>5. k + 1 \in Nat \ {0}
  BY <1>3
<1>6. PICK met \in SUBSET MayMeet(s) :
        LET up == Inherit([aimed |-> aimed \cup met, undefined |-> todo.undefined],
                          Upwards(Max(met) + 1, s[2]), met, 1)
            both == Inherit(up, Downwards(Max(met) - 1, s[1]), met, -1)
        IN  IF met = {} THEN UNCHANGED aimed /\ todo' = [todo EXCEPT !.next = @ + 1]
            ELSE /\ aimed' = both.aimed
                 /\ todo' = [todo EXCEPT !.next = @ + 1, !.undefined = both.undefined]
  BY DEF AssignDirections
<1>7. aimed' \subseteq Int /\ todo' = [todo EXCEPT !.next = k + 1]
  <2>1. CASE met = {}
    BY <1>3, <1>6, <2>1
  <2>2. CASE met # {}
    <3> DEFINE base == [aimed |-> aimed \cup met, undefined |-> FALSE]
               up == Inherit(base, Upwards(Max(met) + 1, s[2]), met, 1)
               both == Inherit(up, Downwards(Max(met) - 1, s[1]), met, -1)
    <3>1. aimed' = both.aimed /\ todo' = [todo EXCEPT !.next = k + 1, !.undefined = both.undefined]
      BY <1>3, <1>6, <2>2
    <3>2. met \subseteq Int
      BY <1>4, <2>2, MeetingTyped
    <3>3. base \in Turns /\ base.undefined = FALSE /\ met \subseteq base.aimed
      BY <1>3, <3>2 DEF Turns
    <3> HIDE DEF base, s
    <3>4. both \in Turns /\ both.undefined = FALSE
      BY <1>4, <2>2, <3>3, OutwardsAims
    <3> HIDE DEF both
    <3>5. todo' = [todo EXCEPT !.next = k + 1]
      BY <1>3, <3>1, <3>4 DEF Todos
    <3> QED BY <3>1, <3>4, <3>5 DEF Turns
  <2> QED BY <2>1, <2>2
<1>8. todo' \in Todos /\ todo'.at = "assign" /\ todo'.first = todo.first
  <2> DEFINE h == k + 1
  <2>1. h \in Nat \ {0} /\ todo' = [todo EXCEPT !.next = h] /\ todo \in Todos /\ todo.at \in SegStages
    BY <1>3, <1>5, <1>7 DEF Todos
  <2> HIDE DEF h
  <2> QED BY <1>1, <2>1, TodoTyped
<1>9. SegTyped'
  BY <1>1, <1>2, <1>3, <1>7, <1>8 DEF SegTyped, SegmentsFound, Todos
<1>10. PathsAreOfSegments'
  BY <1>1, <1>2, <1>8 DEF PathsAreOfSegments
<1> QED
  BY <1>1, <1>8, <1>9, <1>10, SweepKept DEF SegInv

LEMMA SegInvStep == SegInv /\ [SegNext]_segVars => SegInv'
<1>1. SegInv /\ UNCHANGED segVars => SegInv'
  <2> SUFFICES ASSUME SegInv, UNCHANGED segVars  PROVE SegInv'
    OBVIOUS
  <2>1. sweep' = sweep /\ segs' = segs /\ paths' = paths /\ aimed' = aimed /\ todo' = todo
    BY DEF segVars
  <2>2. SegTyped' /\ PathsAreOfSegments'
    BY <2>1 DEF SegInv, SegTyped, SegmentsFound, PathsAreOfSegments
  <2> QED BY <2>1, <2>2, SweepKept DEF SegInv
<1> QED
  BY <1>1, SweepStep, CheckStep, SearchStep, AssignStep DEF SegNext

(* Every collision the sweep reads lies in a segment once the gap behind   *)
(* it is long enough, the directions of a segment are taken from its own   *)
(* path, and no point takes one from a neighbour that has none, for every  *)
(* number of control points and of samples between them                    *)
(* (bspline_optimizer.cpp:130-330, 870-1100).                              *)
THEOREM CollisionsGetDirections == SegSpec => []CollisionsAnswered
<1>1. SegInv => CollisionsAnswered
  <2> SUFFICES ASSUME SegInv  PROVE CollisionsAnswered
    OBVIOUS
  <2>1. CollisionsAreSegmented
    BY DEF SegInv, CollisionsAreSegmented
  <2>2. todo.undefined = FALSE
    BY DEF SegInv, SegTyped
  <2>3. DirectionsFollowPaths
    BY <2>2 DEF SegInv, PathsAreOfSegments, DirectionsFollowPaths
  <2> QED BY <2>1, <2>3 DEF CollisionsAnswered
<1> QED
  BY <1>1, SegInvStart, SegInvStep, PTL DEF SegSpec

-----------------------------------------------------------------------------
(* The A* search.  The nodes that the search has closed and those it holds *)
(* open form a tree towards the start, whose costs fall from child to      *)
(* parent; a node marked on a blocked heading only is in neither set, what *)
(* an earlier search has left in it notwithstanding.                       *)
Ongoing == {"adjust start", "adjust end", "begin", "searching"}
SearchFields == {"status", "start", "end", "line", "expanded", "path"}
NodeFields == {"rounds", "state", "g", "f", "from"}

Steps == {q \in Pool \X Pool : Enters(q[1], q[2])}

GrownFrom(c, E) ==
  IF c = search.start THEN nodes[c].from = NoCell
  ELSE /\ nodes[c].from \in E
       /\ nodes[nodes[c].from].g < nodes[c].g
       /\ <<nodes[c].from, c>> \in Steps

TreeOf(E) ==
  /\ E \subseteq Pool /\ open \subseteq Pool /\ E \cap open = {}
  /\ search.start \in E \cup open
  /\ search.start \in open => open = {search.start}
  /\ \A c \in E \cup open : nodes[c].rounds = rounds /\ nodes[c].g \in Nat
  /\ \A c \in E : nodes[c].state = "closed"
  /\ \A c \in E \cup open : GrownFrom(c, E)

NodesTyped == DOMAIN nodes = Pool /\ \A c \in Pool : NodeFields \subseteq DOMAIN nodes[c]

StarInv ==
  /\ SearchFields \subseteq DOMAIN search
  /\ NodesTyped
  /\ search.status \in Ongoing => search.start \in Pool /\ search.end \in Pool
  /\ search.status = "searching" => \E E \in SUBSET Pool : TreeOf(E)
  /\ SearchSound /\ NeverDownhill

(* The cells of the pool are triples of integers, and finitely many.       *)
LEMMA PoolCells ==
  /\ \A i \in 1..3 : PoolSize[i] \in Nat \ {0}
  /\ \A i \in 1..3 : Centre[i] \in Int
  /\ \A c \in Pool : c \in Int \X Int \X Int /\ c = <<c[1], c[2], c[3]>>
<1>1. PoolSize[1] \in Nat \ {0} /\ PoolSize[2] \in Nat \ {0} /\ PoolSize[3] \in Nat \ {0}
  BY SearchAssumption
<1>2. \A n \in Nat : n \div 2 \in Int
  OBVIOUS
<1>3. Centre[1] \in Int /\ Centre[2] \in Int /\ Centre[3] \in Int
  BY <1>1, <1>2 DEF Centre
<1>4. \A i \in 1..3 : i = 1 \/ i = 2 \/ i = 3
  OBVIOUS
<1>5. \A c \in Pool : c \in Int \X Int \X Int /\ c = <<c[1], c[2], c[3]>>
  BY <1>1 DEF Pool
<1> QED
  BY <1>1, <1>3, <1>4, <1>5

LEMMA PoolFinite ==
  IsFiniteSet(Pool) /\ Cardinality(Pool) \in Nat /\ NoCell \notin Pool
<1> DEFINE A == 0..PoolSize[1] - 1
           B == 0..PoolSize[2] - 1
           C == 0..PoolSize[3] - 1
           f == [q \in (A \X B) \X C |-> <<q[1][1], q[1][2], q[2]>>]
<1>1. IsFiniteSet(A) /\ IsFiniteSet(B) /\ IsFiniteSet(C)
  <2>1. 0 \in Int /\ PoolSize[1] - 1 \in Int /\ PoolSize[2] - 1 \in Int /\ PoolSize[3] - 1 \in Int
    BY PoolCells
  <2> QED BY <2>1, FS_Interval
<1>2. Pool = A \X B \X C
  BY DEF Pool
<1> HIDE DEF A, B, C
<1>3. IsFiniteSet((A \X B) \X C)
  BY <1>1, FS_Product
<1>4. f \in Surjection((A \X B) \X C, Pool)
  <2>1. ASSUME NEW q \in (A \X B) \X C  PROVE f[q] \in Pool
    BY <1>2
  <2>2. ASSUME NEW c \in Pool  PROVE \E q \in (A \X B) \X C : f[q] = c
    <3>1. c[1] \in A /\ c[2] \in B /\ c[3] \in C /\ c = <<c[1], c[2], c[3]>>
      BY <1>2
    <3>2. <<<<c[1], c[2]>>, c[3]>> \in (A \X B) \X C
      BY <3>1
    <3>3. f[<<<<c[1], c[2]>>, c[3]>>] = <<c[1], c[2], c[3]>>
      BY <3>2
    <3> QED BY <3>1, <3>2, <3>3
  <2>3. f \in [(A \X B) \X C -> Pool]
    <3>1. f = [q \in (A \X B) \X C |-> f[q]]
      OBVIOUS
    <3> QED BY <2>1, <3>1
  <2> HIDE DEF f
  <2> QED BY <2>2, <2>3 DEF Surjection
<1>5. IsFiniteSet(Pool)
  BY <1>3, <1>4, FS_Surjection
<1>6. NoCell \notin Pool
  BY <1>2 DEF NoCell, A
<1> QED
  BY <1>5, <1>6, FS_CardinalityType

(* A place on the plane has a whole height, and in the column of the end   *)
(* it has that of the end, unless the end is below the centre: there it is *)
(* one step higher, for the fraction is cut off towards zero.              *)
LEMMA SquareTyped ==
  ASSUME NEW a \in Int
  PROVE  a * a \in Nat /\ (a * a = 0 => a = 0)
<1>1. CASE a >= 1
  <2>1. a * a >= a
    BY <1>1
  <2> QED BY <1>1, <2>1
<1>2. CASE a <= -1
  <2> DEFINE b == -a
  <2>1. b \in Nat /\ b >= 1 /\ a * a = b * b
    BY <1>2
  <2> HIDE DEF b
  <2>2. b * b >= b
    BY <2>1
  <2> QED BY <2>1, <2>2
<1> QED
  BY <1>1, <1>2

LEMMA QuotientIs ==
  ASSUME NEW x \in Int, NEW m \in Nat \ {0}, NEW k \in Int, NEW i \in 0..m - 1, x = m * k + i
  PROVE  x \div m = k
<1> DEFINE p == x \div m
           j == x % m
<1>1. j \in 0..m - 1 /\ p \in Int /\ x = m * p + j
  BY ModBounds
<1> HIDE DEF p, j
<1>2. ~ (k >= p + 1)
  <2> SUFFICES ASSUME k >= p + 1  PROVE FALSE
    OBVIOUS
  <2>1. m * k >= m * (p + 1) /\ m * (p + 1) = m * p + m
    BY <1>1
  <2> QED BY <1>1, <2>1
<1>3. ~ (p >= k + 1)
  <2> SUFFICES ASSUME p >= k + 1  PROVE FALSE
    OBVIOUS
  <2>1. m * p >= m * (k + 1) /\ m * (k + 1) = m * k + m
    BY <1>1
  <2> QED BY <1>1, <2>1
<1> QED
  BY <1>1, <1>2, <1>3 DEF p

LEMMA HalfAdded ==
  ASSUME NEW q \in Int, NEW n \in Nat \ {0}
  PROVE  Cut(2 * (q * n) + n, 2 * n) = IF q >= 0 THEN q ELSE q + 1
<1> DEFINE m == 2 * n
<1>1. ASSUME NEW k \in Int  PROVE (2 * (k * n) + n) \div m = k
  <2> DEFINE x == 2 * (k * n) + n
  <2>1. x \in Int /\ x = m * k + n /\ m \in Nat \ {0} /\ n \in 0..m - 1
    OBVIOUS
  <2> HIDE DEF x, m
  <2>2. x \div m = k
    BY <2>1, QuotientIs
  <2> QED BY <2>2 DEF x
<1>2. CASE q >= 0
  <2>1. q * n \in Nat
    BY <1>2
  <2>2. ~ (2 * (q * n) + n < 0)
    BY <2>1
  <2> QED BY <1>1, <1>2, <2>2 DEF Cut
<1>3. CASE q < 0
  <2> DEFINE k == -q - 1
  <2>1. k \in Int /\ k * n \in Nat /\ q * n = -(k * n) - n /\ -k = q + 1
    BY <1>3
  <2>2. k * n \in Int /\ q * n \in Int
    BY <2>1
  <2> HIDE DEF k
  <2>3. 2 * (q * n) + n < 0 /\ -(2 * (q * n) + n) = 2 * (k * n) + n
    BY <2>1, <2>2
  <2>4. (2 * (k * n) + n) \div m = k
    BY <1>1, <2>1
  <2>5. Cut(2 * (q * n) + n, m) = -((-(2 * (q * n) + n)) \div m)
    BY <2>3 DEF Cut
  <2>6. Cut(2 * (q * n) + n, m) = -k
    BY <2>3, <2>4, <2>5
  <2> QED BY <1>3, <2>1, <2>6
<1> QED
  BY <1>2, <1>3

LEMMA HeightTyped ==
  ASSUME search.start \in Pool, search.end \in Pool, NEW x \in Int, NEW y \in Int
  PROVE  Height(x, y) \in Int
<1> DEFINE s == search.start
           e == search.end
           len2 == (e[1] - s[1]) * (e[1] - s[1]) + (e[2] - s[2]) * (e[2] - s[2])
           drawn == (x - s[1]) * (e[1] - s[1]) + (y - s[2]) * (e[2] - s[2])
           at == IF drawn < 0 THEN 0 ELSE IF drawn > len2 THEN len2 ELSE drawn
           z == (s[3] - Centre[3]) * len2 + at * (e[3] - s[3])
<1>1. /\ s[1] \in Int /\ s[2] \in Int /\ s[3] \in Int
      /\ e[1] \in Int /\ e[2] \in Int /\ e[3] \in Int /\ Centre[3] \in Int
  BY PoolCells
<1>2. Height(x, y) = IF len2 = 0 THEN s[3] ELSE Cut(2 * z + len2, 2 * len2) + Centre[3]
  BY DEF Height
<1> HIDE DEF s, e
<1>3. len2 \in Nat
  <2>1. e[1] - s[1] \in Int /\ e[2] - s[2] \in Int
    BY <1>1
  <2> QED BY <2>1, SquareTyped
<1>4. drawn \in Int
  BY <1>1
<1> HIDE DEF len2, drawn
<1>5. at \in Int
  BY <1>3, <1>4
<1> HIDE DEF at
<1>6. z \in Int
  BY <1>1, <1>3, <1>5
<1> HIDE DEF z
<1>7. CASE len2 # 0
  <2>1. 2 * z + len2 \in Int /\ 2 * len2 \in Int /\ 2 * len2 > 0 /\ -(2 * z + len2) \in Int
    BY <1>3, <1>6, <1>7
  <2>2. Cut(2 * z + len2, 2 * len2) \in Int
    <3>1. /\ (2 * z + len2) \div (2 * len2) \in Int
          /\ (-(2 * z + len2)) \div (2 * len2) \in Int
      BY <2>1, DivInt
    <3> QED BY <3>1 DEF Cut
  <2> QED BY <1>1, <1>2, <1>7, <2>2
<1> QED
  BY <1>1, <1>2, <1>7

LEMMA HeightAtEnd ==
  ASSUME search.start \in Pool, search.end \in Pool
  PROVE  IF <<search.start[1], search.start[2]>> = <<search.end[1], search.end[2]>>
         THEN Height(search.end[1], search.end[2]) = search.start[3]
         ELSE Height(search.end[1], search.end[2]) =
                IF search.end[3] >= Centre[3] THEN search.end[3] ELSE search.end[3] + 1
<1> DEFINE s == search.start
           e == search.end
           a == e[1] - s[1]
           b == e[2] - s[2]
           len2 == a * a + b * b
           at == IF len2 < 0 THEN 0 ELSE IF len2 > len2 THEN len2 ELSE len2
           z == (s[3] - Centre[3]) * len2 + at * (e[3] - s[3])
<1>1. /\ s[1] \in Int /\ s[2] \in Int /\ s[3] \in Int
      /\ e[1] \in Int /\ e[2] \in Int /\ e[3] \in Int /\ Centre[3] \in Int
  BY PoolCells
<1>2. Height(e[1], e[2]) =
        IF len2 = 0 THEN s[3] ELSE Cut(2 * z + len2, 2 * len2) + Centre[3]
  BY DEF Height
<1> HIDE DEF s, e
<1>3. a \in Int /\ b \in Int /\ (a = 0 /\ b = 0 <=> <<s[1], s[2]>> = <<e[1], e[2]>>)
  BY <1>1
<1> HIDE DEF a, b
<1>4. len2 \in Nat /\ (len2 = 0 <=> a = 0 /\ b = 0)
  <2>1. a * a \in Nat /\ b * b \in Nat /\ (a * a = 0 => a = 0) /\ (b * b = 0 => b = 0)
    BY <1>3, SquareTyped
  <2>2. a = 0 /\ b = 0 => a * a = 0 /\ b * b = 0
    OBVIOUS
  <2> QED BY <2>1, <2>2
<1> HIDE DEF len2
<1>5. CASE len2 = 0
  BY <1>2, <1>3, <1>4, <1>5 DEF s, e
<1>6. CASE len2 # 0
  <2> DEFINE q == e[3] - Centre[3]
  <2>1. at = len2 /\ len2 \in Nat \ {0} /\ q \in Int
    BY <1>1, <1>4, <1>6
  <2>2. z = q * len2
    BY <1>1, <2>1
  <2> HIDE DEF at, z, q
  <2>3. Cut(2 * z + len2, 2 * len2) = IF q >= 0 THEN q ELSE q + 1
    BY <2>1, <2>2, HalfAdded
  <2>4. Height(e[1], e[2]) = IF e[3] >= Centre[3] THEN e[3] ELSE e[3] + 1
    BY <1>1, <1>2, <1>6, <2>1, <2>3 DEF q
  <2> QED BY <1>3, <1>4, <1>6, <2>4 DEF s, e
<1> QED
  BY <1>5, <1>6

(* What following one step after another from a place gives.               *)
Follows(f, step, c, K) == \A n \in 0..K : f[n] = IF n = 0 THEN c ELSE step[f[n - 1]]

LEMMA FollowingExists ==
  ASSUME NEW S, NEW step, NEW c, NEW K, c \in S, K \in Nat, \A x \in S : step[x] \in S
  PROVE  \E f \in [0..K -> S] : Follows(f, step, c, K)
<1> DEFINE Solves(f, k) == f = [n \in 0..k |-> IF n = 0 THEN c ELSE step[f[n - 1]]]
           G == {k \in Nat : \E f \in [0..k -> S] : Solves(f, k)}
<1>1. 0 \in G
  <2> DEFINE f == [n \in 0..0 |-> c]
  <2>1. f \in [0..0 -> S] /\ Solves(f, 0)
    OBVIOUS
  <2> HIDE DEF f, Solves
  <2> QED BY <2>1
<1>2. ASSUME NEW k \in Nat, k \in G  PROVE k + 1 \in G
  <2>1. PICK g \in [0..k -> S] : Solves(g, k)
    BY <1>2
  <2> DEFINE f == [n \in 0..k + 1 |-> IF n = 0 THEN c ELSE step[g[n - 1]]]
  <2>2. \A n \in 0..k + 1 : n # 0 => n - 1 \in 0..k
    OBVIOUS
  <2>3. f \in [0..k + 1 -> S]
    <3>1. \A n \in 0..k + 1 : n # 0 => g[n - 1] \in S
      BY <2>1, <2>2
    <3> QED BY <3>1
  <2>4. \A n \in 0..k : f[n] = g[n]
    <3>1. \A n \in 0..k : g[n] = IF n = 0 THEN c ELSE step[g[n - 1]]
      BY <2>1
    <3> QED BY <3>1
  <2>5. \A n \in 0..k + 1 : f[n] = IF n = 0 THEN c ELSE step[f[n - 1]]
    <3>1. \A n \in 0..k + 1 : f[n] = IF n = 0 THEN c ELSE step[g[n - 1]]
      OBVIOUS
    <3> HIDE DEF f
    <3> QED BY <2>2, <2>4, <3>1
  <2>6. Solves(f, k + 1)
    <3> HIDE DEF f
    <3> QED BY <2>3, <2>5
  <2> HIDE DEF f, Solves
  <2> QED BY <2>3, <2>6
<1>3. K \in G
  <2> HIDE DEF G
  <2> QED BY <1>1, <1>2, NumberInduction
<1>4. PICK f \in [0..K -> S] : Solves(f, K)
  BY <1>3
<1>5. \A n \in 0..K : f[n] = IF n = 0 THEN c ELSE step[f[n - 1]]
  BY <1>4
<1> QED
  BY <1>5 DEF Follows

LEMMA Followed ==
  ASSUME NEW S, NEW step, NEW c, NEW K, NEW back, c \in S, K \in Nat, \A x \in S : step[x] \in S,
         back = [n \in 0..K |-> back[n]], Follows(back, step, c, K)
  PROVE  /\ back \in [0..K -> S] /\ back[0] = c
         /\ \A n \in 1..K : back[n] = step[back[n - 1]]
<1>1. \A n \in 0..K : back[n] = IF n = 0 THEN c ELSE step[back[n - 1]]
  BY DEF Follows
<1>2. DOMAIN back = 0..K /\ back = [n \in DOMAIN back |-> back[n]]
  <2>1. DOMAIN back = 0..K
    OBVIOUS
  <2> QED BY <2>1
<1>3. back[0] = c
  <2>1. 0 \in 0..K
    OBVIOUS
  <2> HIDE DEF Follows
  <2> QED BY <1>1, <2>1
<1>4. ASSUME NEW n \in 1..K  PROVE back[n] = step[back[n - 1]]
  <2>1. n \in 0..K /\ n # 0
    OBVIOUS
  <2> QED BY <1>1, <2>1
<1>5. \A n \in 0..K : back[n] \in S
  <2> DEFINE H == {n \in Nat : n \in 0..K => back[n] \in S}
  <2>1. 0 \in H
    BY <1>3
  <2>2. ASSUME NEW n \in Nat, n \in H  PROVE n + 1 \in H
    <3>1. SUFFICES ASSUME n + 1 \in 0..K  PROVE back[n + 1] \in S
      OBVIOUS
    <3>2. n \in 0..K /\ n + 1 \in 1..K /\ n + 1 - 1 = n
      BY <3>1
    <3>3. back[n] \in S
      BY <2>2, <3>2
    <3>4. back[n + 1] = step[back[n]]
      <4> DEFINE m == n + 1
      <4>1. m \in 1..K /\ m - 1 = n
        BY <3>2
      <4> HIDE DEF m
      <4>2. back[m] = step[back[m - 1]]
        BY <1>4, <4>1
      <4> QED BY <4>1, <4>2 DEF m
    <3> QED BY <3>3, <3>4
  <2>3. \A n \in Nat : n \in H
    <3> HIDE DEF H
    <3> QED BY <2>1, <2>2, NumberInduction
  <2>4. ASSUME NEW n \in 0..K  PROVE back[n] \in S
    <3>1. n \in Nat
      OBVIOUS
    <3>2. n \in H
      <4> HIDE DEF H
      <4> QED BY <2>3, <3>1
    <3> QED BY <3>2
  <2> QED BY <2>4
<1> QED
  BY <1>2, <1>3, <1>4, <1>5

(* From a node of the tree, the parents lead to the start: costs fall, so  *)
(* no node comes back, and the pool is finite.                             *)
LEMMA PathRetrieved ==
  ASSUME NodesTyped, NEW E \in SUBSET Pool, TreeOf(E), NEW c \in E \cup open,
         NEW p, p = RetrievePath(c)
  PROVE  /\ p[1] = search.start /\ p[Len(p)] = c
         /\ \A n \in 1..Len(p) - 1 : Enters(p[n], p[n + 1])
<1> DEFINE K == Cardinality(Pool)
           Tree == E \cup open
           S == Tree \cup {NoCell}
           back == CHOOSE f : f = [n \in 0..K |-> IF n = 0 THEN c ELSE CameFrom[f[n - 1]]]
           steps == CHOOSE n \in 0..K : back[n] # NoCell /\ back[n + 1] = NoCell
<1>1. /\ K \in Nat /\ IsFiniteSet(Pool) /\ NoCell \notin Pool
      /\ Tree \subseteq Pool /\ c \in Tree /\ E \subseteq Tree /\ NoCell \notin Tree
  BY PoolFinite DEF TreeOf
<1>2. ASSUME NEW x \in Tree
      PROVE  /\ x = search.start => CameFrom[x] = NoCell
             /\ x # search.start => /\ CameFrom[x] \in Tree /\ nodes[CameFrom[x]].g < nodes[x].g
                                    /\ Enters(CameFrom[x], x)
             /\ nodes[x].g \in Nat
  <2>1. x \in Pool /\ x # NoCell /\ CameFrom[x] = nodes[x].from
    BY <1>1 DEF CameFrom
  <2>2. GrownFrom(x, E) /\ nodes[x].g \in Nat
    BY DEF TreeOf
  <2> QED BY <2>1, <2>2 DEF GrownFrom, Steps
<1>3. CameFrom[NoCell] = NoCell
  BY DEF CameFrom
<1>4. \A x \in S : CameFrom[x] \in S
  <2> HIDE DEF Tree
  <2> QED BY <1>1, <1>2, <1>3
<1>5. /\ back \in [0..K -> S] /\ back[0] = c
      /\ \A n \in 1..K : back[n] = CameFrom[back[n - 1]]
  <2>1. c \in S
    BY <1>1
  <2> HIDE DEF Tree, S, K
  <2>2. \E f : f = [n \in 0..K |-> IF n = 0 THEN c ELSE CameFrom[f[n - 1]]]
    <3>0. K \in Nat /\ c \in S /\ \A x \in S : CameFrom[x] \in S
      BY <1>1, <1>4, <2>1
    <3>1. PICK f \in [0..K -> S] : Follows(f, CameFrom, c, K)
      BY <3>0, FollowingExists
    <3>2. f = [n \in 0..K |-> IF n = 0 THEN c ELSE CameFrom[f[n - 1]]]
      BY <3>1 DEF Follows
    <3> QED BY <3>2
  <2>3. back = [n \in 0..K |-> IF n = 0 THEN c ELSE CameFrom[back[n - 1]]]
    BY <2>2
  <2> HIDE DEF back
  <2>4. Follows(back, CameFrom, c, K) /\ back = [n \in 0..K |-> back[n]]
    <3>1. DOMAIN back = 0..K /\ \A n \in 0..K : back[n] = IF n = 0 THEN c ELSE CameFrom[back[n - 1]]
      BY <2>3
    <3>2. back = [n \in 0..K |-> back[n]]
      BY <2>3, <3>1
    <3> QED BY <3>1, <3>2 DEF Follows
  <2> QED BY <1>1, <1>4, <2>1, <2>4, Followed
<1>6. p = [k \in 1..steps + 1 |-> back[steps + 1 - k]]
  BY DEF RetrievePath
<1> HIDE DEF K, Tree, back
<1>7. ASSUME NEW n \in 0..K, n + 1 \in 0..K
      PROVE  /\ back[n + 1] = CameFrom[back[n]]
             /\ back[n] = NoCell => back[n + 1] = NoCell
             /\ back[n] \in Tree \/ back[n] = NoCell
  <2>1. n + 1 \in 1..K /\ n + 1 - 1 = n
    BY <1>1, <1>7
  <2>2. back[n + 1] = CameFrom[back[n]]
    <3>1. back[n + 1] = CameFrom[back[n + 1 - 1]]
      BY <1>5, <2>1
    <3> QED BY <2>1, <3>1
  <2> QED BY <1>3, <1>5, <2>2
<1>8. ASSUME NEW n \in 0..K, back[n] = NoCell, NEW m \in n..K  PROVE back[m] = NoCell
  <2> DEFINE G == {d \in Nat : n + d \in 0..K => back[n + d] = NoCell}
  <2>1. 0 \in G
    BY <1>8
  <2>2. ASSUME NEW d \in Nat, d \in G  PROVE d + 1 \in G
    <3>1. SUFFICES ASSUME n + (d + 1) \in 0..K  PROVE back[n + (d + 1)] = NoCell
      OBVIOUS
    <3>2. n + d \in 0..K /\ n + d + 1 \in 0..K /\ n + d + 1 = n + (d + 1)
      BY <1>1, <3>1
    <3> QED BY <1>7, <2>2, <3>2
  <2>3. \A d \in Nat : d \in G
    <3> HIDE DEF G
    <3> QED BY <2>1, <2>2, NumberInduction
  <2>4. m - n \in Nat /\ n + (m - n) = m /\ m \in 0..K
    BY <1>1
  <2>5. n + (m - n) \in 0..K => back[n + (m - n)] = NoCell
    BY <2>3, <2>4
  <2> QED BY <2>4, <2>5
<1>9. \E n \in 0..K : back[n] = NoCell
  <2>1. SUFFICES ASSUME \A n \in 0..K : back[n] # NoCell  PROVE FALSE
    OBVIOUS
  <2> DEFINE cost == [n \in 0..K |-> nodes[back[n]].g]
  <2>2. \A n \in 0..K : back[n] \in Tree /\ cost[n] \in Nat
    BY <1>2, <1>5, <2>1
  <2>3. ASSUME NEW n \in 0..K, n + 1 \in 0..K  PROVE cost[n + 1] < cost[n]
    <3>1. back[n + 1] = CameFrom[back[n]] /\ back[n] \in Tree
      BY <1>7, <2>2, <2>3
    <3>2. back[n] # search.start
      BY <1>2, <2>1, <2>3, <3>1
    <3> QED BY <1>2, <2>3, <3>1, <3>2
  <2> HIDE DEF cost
  <2>4. ASSUME NEW n \in 0..K, NEW m \in 0..K, n < m  PROVE cost[m] < cost[n]
    <3> DEFINE G == {d \in Nat : n + d \in 0..K => cost[n + d] + d <= cost[n]}
    <3>1. 0 \in G
      BY <2>2
    <3>2. ASSUME NEW d \in Nat, d \in G  PROVE d + 1 \in G
      <4>1. SUFFICES ASSUME n + (d + 1) \in 0..K  PROVE cost[n + (d + 1)] + (d + 1) <= cost[n]
        OBVIOUS
      <4>2. n + d \in 0..K /\ n + d + 1 \in 0..K /\ n + d + 1 = n + (d + 1)
        BY <1>1, <4>1
      <4>3. cost[n + (d + 1)] < cost[n + d] /\ cost[n + d] + d <= cost[n]
        BY <2>3, <3>2, <4>2
      <4> QED BY <2>2, <4>1, <4>2, <4>3
    <3>3. \A d \in Nat : d \in G
      <4> HIDE DEF G
      <4> QED BY <3>1, <3>2, NumberInduction
    <3>4. m - n \in Nat /\ m - n > 0 /\ n + (m - n) = m
      BY <1>1, <2>4
    <3>5. n + (m - n) \in 0..K => cost[n + (m - n)] + (m - n) <= cost[n]
      BY <3>3, <3>4
    <3>6. cost[m] + (m - n) <= cost[n]
      BY <3>4, <3>5
    <3> QED BY <2>2, <3>4, <3>6
  <2>5. back \in [0..K -> Pool]
    BY <1>1, <1>5, <2>2
  <2>6. IsFiniteSet(0..K) /\ Cardinality(0..K) = K + 1
    BY <1>1, FS_Interval
  <2>7. K < K + 1 /\ K = Cardinality(Pool)
    BY <1>1 DEF K
  <2>8. PICK n \in 0..K, m \in 0..K : n # m /\ back[n] = back[m]
    BY <1>1, <2>5, <2>6, <2>7, FS_PigeonHole
  <2>9. cost[n] = cost[m]
    BY <2>8 DEF cost
  <2>10. n < m \/ m < n
    BY <2>8
  <2> QED BY <2>2, <2>4, <2>9, <2>10
<1>10. \E n \in 0..K : back[n] # NoCell /\ back[n + 1] = NoCell
  <2> DEFINE T == {n \in 0..K : back[n] = NoCell}
  <2>1. T \subseteq Nat /\ T # {}
    BY <1>9
  <2>2. PICK m \in T : \A n \in T : m <= n
    <3> HIDE DEF T
    <3> QED BY <2>1, LeastOf
  <2>3. m # 0
    BY <1>1, <1>5, <2>2
  <2>4. m - 1 \in 0..K /\ m - 1 + 1 = m /\ ~ (m <= m - 1)
    BY <1>1, <2>2, <2>3
  <2>5. back[m - 1] # NoCell /\ back[m - 1 + 1] = NoCell
    BY <2>2, <2>4
  <2> QED BY <2>4, <2>5
<1>11. steps \in 0..K /\ back[steps] # NoCell /\ back[steps + 1] = NoCell
  BY <1>10
<1> HIDE DEF steps
<1>12. ASSUME NEW n \in 0..steps  PROVE back[n] \in Tree
  <2>1. n \in 0..K /\ steps \in n..K
    BY <1>1, <1>11
  <2> QED BY <1>5, <1>8, <1>11, <2>1
<1>13. steps + 1 \in 0..K
  <2>1. SUFFICES ASSUME steps = K  PROVE FALSE
    BY <1>1, <1>11
  <2>2. PICK n \in 0..K : back[n] = NoCell
    BY <1>9
  <2>3. K \in n..K
    BY <1>1
  <2> QED BY <1>8, <1>11, <2>1, <2>2, <2>3
<1>14. back[steps] = search.start
  <2>1. back[steps] \in Tree /\ CameFrom[back[steps]] = NoCell
    BY <1>1, <1>7, <1>11, <1>12, <1>13
  <2> QED BY <1>1, <1>2, <2>1
<1>15. ASSUME NEW n \in 0..steps, n + 1 \in 0..steps
       PROVE  Enters(back[n + 1], back[n])
  <2>1. n \in 0..K /\ n + 1 \in 0..K
    BY <1>1, <1>11, <1>15
  <2>2. back[n] \in Tree /\ back[n + 1] = CameFrom[back[n]] /\ back[n + 1] # NoCell
    BY <1>1, <1>7, <1>12, <1>15, <2>1
  <2> QED BY <1>2, <2>2
<1>16. Len(p) = steps + 1 /\ \A k \in 1..steps + 1 : p[k] = back[steps + 1 - k]
  <2>1. \A k \in 1..steps + 1 : back[steps + 1 - k] \in Tree
    <3>1. \A k \in 1..steps + 1 : steps + 1 - k \in 0..steps
      BY <1>1, <1>11
    <3> QED BY <1>12, <3>1
  <2>2. p \in [1..steps + 1 -> Tree] /\ steps + 1 \in Nat
    BY <1>6, <1>11, <2>1
  <2> QED BY <1>6, <2>2
<1>17. 1 \in 1..steps + 1 /\ steps + 1 \in 1..steps + 1
       /\ steps + 1 - 1 = steps /\ steps + 1 - (steps + 1) = 0
  BY <1>1, <1>11
<1>18. p[1] = search.start /\ p[Len(p)] = c
  BY <1>5, <1>14, <1>16, <1>17
<1>19. ASSUME NEW n \in 1..Len(p) - 1  PROVE Enters(p[n], p[n + 1])
  <2>1. /\ n \in 1..steps + 1 /\ n + 1 \in 1..steps + 1
        /\ steps + 1 - (n + 1) \in 0..steps /\ steps + 1 - (n + 1) + 1 \in 0..steps
        /\ steps + 1 - (n + 1) + 1 = steps + 1 - n
    BY <1>1, <1>11, <1>16
  <2>2. p[n] = back[steps + 1 - (n + 1) + 1] /\ p[n + 1] = back[steps + 1 - (n + 1)]
    BY <1>16, <2>1
  <2> QED BY <1>15, <2>1, <2>2
<1> QED
  BY <1>18, <1>19

LEMMA StarInvStart == StarInit => StarInv
<1> SUFFICES ASSUME StarInit  PROVE StarInv
  OBVIOUS
<1>1. SearchFields \subseteq DOMAIN search /\ search.status = "idle" /\ search.path = << >>
  BY DEF StarInit, SearchFields
<1>2. NodesTyped
  BY DEF StarInit, NodesTyped, NodeFields, NewNode
<1> QED
  BY <1>1, <1>2 DEF StarInv, Ongoing, SearchSound, NeverDownhill

(* A step that leaves the nodes alone and does not go on searching.        *)
LEMMA NotSearching ==
  ASSUME StarInv, UNCHANGED nodes, SearchFields \subseteq DOMAIN search',
         search'.status \notin {"searching", "success"}, search'.path = << >>,
         search'.status \in Ongoing => search'.start \in Pool /\ search'.end \in Pool
  PROVE  StarInv'
<1>1. NodesTyped'
  BY DEF StarInv, NodesTyped
<1>2. SearchSound' /\ NeverDownhill'
  BY DEF SearchSound, NeverDownhill
<1> QED
  BY <1>1, <1>2 DEF StarInv, Ongoing

(* What a request leaves in the search, whichever ends it asks for.        *)
LEMMA RequestEffect ==
  ASSUME AstarSearch
  PROVE  /\ UNCHANGED nodes /\ SearchFields \subseteq DOMAIN search' /\ search'.path = << >>
         /\ search'.status \in {"deadline_exceeded", "adjust start", "init_err"}
         /\ search'.status = "adjust start" => search'.start \in Pool /\ search'.end \in Pool
         /\ \/ rounds' = rounds /\ search'.status = "deadline_exceeded"
            \/ rounds' = rounds + 1
<1>1. PICK d \in Requests, expired \in BOOLEAN :
        LET start == Coord2Index(Opposite(d))
            end   == Coord2Index(d)
        IN  /\ search' = [status |-> IF expired THEN "deadline_exceeded"
                            ELSE IF {start, end} \subseteq Pool /\ d # <<0, 0, 0>>
                                 THEN "adjust start" ELSE "init_err",
                          start |-> start, end |-> end, line |-> d, expanded |-> 0, path |-> << >>]
            /\ rounds' = IF expired THEN rounds ELSE rounds + 1
  BY DEF AstarSearch
<1> DEFINE start == Coord2Index(Opposite(d))
           end == Coord2Index(d)
<1>2. /\ search' = [status |-> IF expired THEN "deadline_exceeded"
                      ELSE IF {start, end} \subseteq Pool /\ d # <<0, 0, 0>>
                           THEN "adjust start" ELSE "init_err",
                    start |-> start, end |-> end, line |-> d, expanded |-> 0, path |-> << >>]
      /\ rounds' = IF expired THEN rounds ELSE rounds + 1
  BY <1>1
<1> HIDE DEF start, end
<1>3. UNCHANGED nodes
  BY DEF AstarSearch
<1>4. SearchFields \subseteq DOMAIN search'
  BY <1>2 DEF SearchFields
<1> QED
  BY <1>2, <1>3, <1>4

LEMMA RequestStep == StarInv /\ AstarSearch => StarInv'
<1> SUFFICES ASSUME StarInv, AstarSearch  PROVE StarInv'
  OBVIOUS
<1> QED
  BY RequestEffect, NotSearching DEF Ongoing

LEMMA EndedStep ==
  ASSUME StarInv, NEW s \in Returned \ {"success"}, Ended(s), UNCHANGED nodes,
         search.status # "success"
  PROVE  StarInv'
<1>1. search' = [search EXCEPT !.status = s] /\ SearchFields \subseteq DOMAIN search
  BY DEF Ended, StarInv
<1>2. search'.status = s /\ search'.path = search.path /\ SearchFields \subseteq DOMAIN search'
  BY <1>1 DEF SearchFields
<1>3. search.path = << >>
  BY DEF StarInv, SearchSound
<1> QED
  BY <1>2, <1>3, NotSearching DEF Returned, Ongoing

LEMMA AdjustStartStep == StarInv /\ AdjustStart => StarInv'
<1> SUFFICES ASSUME StarInv, AdjustStart  PROVE StarInv'
  OBVIOUS
<1>1. /\ SearchFields \subseteq DOMAIN search /\ search.status = "adjust start"
      /\ search.path = << >> /\ search.start \in Pool /\ search.end \in Pool
      /\ UNCHANGED nodes
  BY DEF StarInv, SearchSound, AdjustStart, Ongoing
<1>2. \/ search' = [search EXCEPT !.status = "adjust end"]
      \/ \E b \in Pool : search' = [search EXCEPT !.start = b]
      \/ Ended("init_err")
  BY DEF AdjustStart, MoveEnd
<1>3. CASE search' = [search EXCEPT !.status = "adjust end"]
  <2>1. /\ SearchFields \subseteq DOMAIN search' /\ search'.status = "adjust end"
        /\ search'.path = search.path /\ search'.start = search.start
        /\ search'.end = search.end
    BY <1>1, <1>3 DEF SearchFields
  <2> QED BY <1>1, <2>1, NotSearching
<1>4. CASE \E b \in Pool : search' = [search EXCEPT !.start = b]
  <2>1. PICK b \in Pool : search' = [search EXCEPT !.start = b]
    BY <1>4
  <2>2. /\ SearchFields \subseteq DOMAIN search' /\ search'.status = "adjust start"
        /\ search'.path = search.path /\ search'.start = b /\ search'.end = search.end
    BY <1>1, <2>1 DEF SearchFields
  <2> QED BY <1>1, <2>2, NotSearching
<1>5. CASE Ended("init_err")
  BY <1>1, <1>5, EndedStep DEF Returned
<1> QED
  BY <1>2, <1>3, <1>4, <1>5

LEMMA AdjustEndStep == StarInv /\ AdjustEnd => StarInv'
<1> SUFFICES ASSUME StarInv, AdjustEnd  PROVE StarInv'
  OBVIOUS
<1>1. /\ SearchFields \subseteq DOMAIN search /\ search.status = "adjust end"
      /\ search.path = << >> /\ search.start \in Pool /\ search.end \in Pool
      /\ UNCHANGED nodes
  BY DEF StarInv, SearchSound, AdjustEnd, Ongoing
<1>2. \/ search' = [search EXCEPT !.status = "begin"]
      \/ \E b \in Pool : search' = [search EXCEPT !.end = b]
      \/ Ended("init_err")
  BY DEF AdjustEnd, MoveEnd
<1>3. CASE search' = [search EXCEPT !.status = "begin"]
  <2>1. /\ SearchFields \subseteq DOMAIN search' /\ search'.status = "begin"
        /\ search'.path = search.path /\ search'.start = search.start
        /\ search'.end = search.end
    BY <1>1, <1>3 DEF SearchFields
  <2> QED BY <1>1, <2>1, NotSearching
<1>4. CASE \E b \in Pool : search' = [search EXCEPT !.end = b]
  <2>1. PICK b \in Pool : search' = [search EXCEPT !.end = b]
    BY <1>4
  <2>2. /\ SearchFields \subseteq DOMAIN search' /\ search'.status = "adjust end"
        /\ search'.path = search.path /\ search'.start = search.start /\ search'.end = b
    BY <1>1, <2>1 DEF SearchFields
  <2> QED BY <1>1, <2>2, NotSearching
<1>5. CASE Ended("init_err")
  BY <1>1, <1>5, EndedStep DEF Returned
<1> QED
  BY <1>2, <1>3, <1>4, <1>5

LEMMA BeginStep == StarInv /\ Begin => StarInv'
<1> SUFFICES ASSUME StarInv, Begin  PROVE StarInv'
  OBVIOUS
<1> DEFINE s == search.start
           n == [rounds |-> rounds, state |-> "open", g |-> 0,
                 f |-> Total(0, search.start, search.end), from |-> NoCell]
<1>1. /\ SearchFields \subseteq DOMAIN search /\ search.path = << >> /\ s \in Pool
      /\ search.end \in Pool /\ DOMAIN nodes = Pool /\ \A c \in Pool : NodeFields \subseteq DOMAIN nodes[c]
  BY DEF StarInv, SearchSound, Begin, Ongoing, NodesTyped
<1>2. /\ nodes' = [nodes EXCEPT ![s] = n] /\ open' = {s}
      /\ search' = [search EXCEPT !.status = "searching"] /\ rounds' = rounds
  BY DEF Begin, Ended
<1>3. /\ SearchFields \subseteq DOMAIN search' /\ search'.path = << >>
      /\ search'.status = "searching" /\ search'.start = s /\ search'.end = search.end
  BY <1>1, <1>2 DEF SearchFields
<1>4. n.rounds = rounds /\ n.g = 0 /\ n.from = NoCell /\ NodeFields \subseteq DOMAIN n
  BY DEF NodeFields
<1> HIDE DEF n
<1>5. /\ DOMAIN nodes' = Pool /\ nodes'[s] = n
      /\ \A c \in Pool : c # s => nodes'[c] = nodes[c]
  BY <1>1, <1>2
<1>6. NodesTyped'
  <2>1. \A c \in Pool : NodeFields \subseteq DOMAIN nodes'[c]
    BY <1>1, <1>4, <1>5
  <2> QED BY <1>5, <2>1 DEF NodesTyped
<1>7. TreeOf({})'
  <2> HIDE DEF s
  <2>2. \A c \in ({} \cup open)' : c = s
    BY <1>2
  <2>3. nodes'[s].rounds = rounds' /\ nodes'[s].g \in Nat
    BY <1>2, <1>4, <1>5
  <2>4. \A c \in ({} \cup open)' : nodes'[c].rounds = rounds' /\ nodes'[c].g \in Nat
    BY <2>2, <2>3
  <2>5. \A c \in ({} \cup open)' : GrownFrom(c, {})'
    BY <1>3, <1>4, <1>5, <2>2 DEF GrownFrom
  <2>6. open' \subseteq Pool /\ s \in ({} \cup open)'
    BY <1>1, <1>2
  <2>7. search'.start = s /\ open' = {s}
    BY <1>2, <1>3
  <2> QED BY <2>4, <2>5, <2>6, <2>7 DEF TreeOf
<1>8. SearchSound' /\ NeverDownhill'
  BY <1>3 DEF SearchSound, NeverDownhill
<1> QED
  BY <1>1, <1>3, <1>6, <1>7, <1>8 DEF StarInv

(* A neighbour is in another column, and where the plane is there.         *)
LEMMA BesideIsElsewhere ==
  ASSUME NEW c, c[1] \in Int, c[2] \in Int, NEW n, n \in Neighbors(c)
  PROVE  /\ n[1] \in Int /\ n[2] \in Int /\ n = OnPlane(n[1], n[2])
         /\ c[1] # n[1] \/ c[2] # n[2]
<1>1. PICK h \in SearchHeadings : n = OnPlane(c[1] + h[1], c[2] + h[2])
  BY DEF Neighbors
<1>2. h[1] \in Int /\ h[2] \in Int /\ (h[1] # 0 \/ h[2] # 0)
  BY DEF SearchHeadings
<1>3. n[1] = c[1] + h[1] /\ n[2] = c[2] + h[2]
  BY <1>1 DEF OnPlane
<1> QED
  BY <1>1, <1>2, <1>3

(* The node of a neighbour is left alone, or only marked, or reached from  *)
(* the cell that is expanded, at a greater cost than that cell has.        *)
LEMMA VisitedKeepsTree ==
  ASSUME NodesTyped, NEW E \in SUBSET Pool, TreeOf(E), NEW c \in open,
         NEW n \in Pool, n \in Neighbors(c)
  PROVE  /\ NodeFields \subseteq DOMAIN Visited(c, n)
         /\ n \in E => Visited(c, n) = nodes[n]
         /\ n \in open => \/ /\ Visited(c, n).rounds = rounds
                             /\ Visited(c, n).g = nodes[n].g
                             /\ Visited(c, n).from = nodes[n].from
                          \/ Visited(c, n) = Reached(c, n) /\ Enters(c, n)
         /\ Inner(n) /\ ~Explored(n) /\ Admits(c, n) =>
              Visited(c, n) = Reached(c, n) /\ Enters(c, n)
         /\ Reached(c, n).rounds = rounds /\ Reached(c, n).from = c
         /\ Reached(c, n).g \in Nat /\ nodes[c].g < Reached(c, n).g
         /\ n # c
<1>1. c \in Pool /\ nodes[c].g \in Nat
  BY DEF TreeOf
<1>2. /\ c[1] \in Int /\ c[2] \in Int /\ c[3] \in Int
      /\ n[1] \in Int /\ n[2] \in Int /\ n[3] \in Int
  BY <1>1, PoolCells
<1>3. c[1] # n[1] \/ c[2] # n[2]
  BY <1>2, BesideIsElsewhere
<1>4. n # c
  BY <1>3
<1>5. Admits(c, n) => Enters(c, n)
  BY DEF Admits, Enters
<1>6. /\ Reached(c, n).rounds = rounds /\ Reached(c, n).from = c
      /\ Reached(c, n).g = nodes[c].g + DiagHeu(c, n)
      /\ NodeFields \subseteq DOMAIN Reached(c, n)
  BY DEF Reached, NodeFields
<1>7. DiagHeu(c, n) \in Nat \ {0}
  <2>1. /\ Size2(c[1] - n[1]) \in Nat /\ Size2(c[2] - n[2]) \in Nat
        /\ Size2(c[3] - n[3]) \in Nat
        /\ Size2(c[1] - n[1]) # 0 \/ Size2(c[2] - n[2]) # 0
    BY <1>2, <1>3 DEF Size2
  <2>2. \A a, b, d \in Nat : \A m \in {a, b, d} :
          (a # 0 \/ b # 0) => 2 * (a + b + d) + 3 * m \in Nat \ {0}
    OBVIOUS
  <2> QED BY <2>1, <2>2 DEF DiagHeu
<1>8. Reached(c, n).g \in Nat /\ nodes[c].g < Reached(c, n).g
  BY <1>1, <1>6, <1>7
<1> DEFINE marked == [nodes[n] EXCEPT !.rounds = rounds]
<1>9. NodeFields \subseteq DOMAIN nodes[n]
  BY DEF NodesTyped
<1>10. /\ NodeFields \subseteq DOMAIN marked /\ marked.rounds = rounds
       /\ marked.g = nodes[n].g /\ marked.from = nodes[n].from
  BY <1>9 DEF NodeFields
<1>11. /\ n \in E => Explored(n) /\ nodes[n].state = "closed"
       /\ n \in open => nodes[n].rounds = rounds
  BY DEF TreeOf, Explored
<1>12. Visited(c, n) \in {nodes[n], marked, Reached(c, n)}
  BY DEF Visited
<1>13. Visited(c, n) = Reached(c, n) => Visited(c, n) = nodes[n] \/ Enters(c, n)
       \/ Visited(c, n) = marked
  BY <1>5 DEF Visited
<1>14. n \in E => Visited(c, n) = nodes[n]
  BY <1>11 DEF Visited
<1>15. Inner(n) /\ ~Explored(n) /\ Admits(c, n) => Visited(c, n) = Reached(c, n)
  BY DEF Visited
<1> HIDE DEF marked
<1>16. NodeFields \subseteq DOMAIN Visited(c, n)
  BY <1>6, <1>9, <1>10, <1>12
<1>17. n \in open => \/ /\ Visited(c, n).rounds = rounds
                        /\ Visited(c, n).g = nodes[n].g
                        /\ Visited(c, n).from = nodes[n].from
                     \/ Visited(c, n) = Reached(c, n) /\ Enters(c, n)
  BY <1>10, <1>11, <1>12, <1>13
<1> QED
  BY <1>4, <1>5, <1>6, <1>8, <1>14, <1>15, <1>16, <1>17

(* Where a step leads depends on the map and on the ends of the search.    *)
LEMMA SameGround ==
  ASSUME UNCHANGED <<world, offset>>, search'.start = search.start, search'.end = search.end
  PROVE  /\ \A x, y : Height(x, y)' = Height(x, y) /\ OnPlane(x, y)' = OnPlane(x, y)
         /\ \A c : Neighbors(c)' = Neighbors(c)
         /\ \A c, h : CheckOccupancy(c, h)' = CheckOccupancy(c, h)
         /\ \A b, c : Enters(b, c)' = Enters(b, c)
         /\ Steps' = Steps
<1>1. \A x, y : Height(x, y)' = Height(x, y)
  BY DEF Height
<1>2. \A x, y : OnPlane(x, y)' = OnPlane(x, y)
  BY <1>1 DEF OnPlane
<1>3. \A c : Neighbors(c)' = Neighbors(c)
  BY <1>2 DEF Neighbors
<1>4. \A c, h : CheckOccupancy(c, h)' = CheckOccupancy(c, h)
  BY DEF CheckOccupancy, Reading
<1>5. \A b, c : Enters(b, c)' = Enters(b, c)
  BY <1>3, <1>4 DEF Enters
<1>6. Steps' = Steps
  BY <1>5 DEF Steps
<1> QED
  BY <1>1, <1>2, <1>3, <1>4, <1>5, <1>6

(* Expanding a cell moves it from the open nodes to the closed ones and    *)
(* hangs its new and its cheaper neighbours below it.                      *)
LEMMA TreeGrows ==
  ASSUME NodesTyped, NEW E \in SUBSET Pool, TreeOf(E), NEW c \in open,
         UNCHANGED <<world, offset, rounds>>,
         search'.start = search.start, search'.end = search.end,
         nodes' = [n \in Pool |->
                    IF n = c THEN [nodes[c] EXCEPT !.state = "closed"]
                    ELSE IF n \in Neighbors(c) THEN Visited(c, n) ELSE nodes[n]],
         open' = (open \ {c}) \cup
                   {n \in Neighbors(c) \cap Pool : Inner(n) /\ ~Explored(n) /\ Admits(c, n)}
  PROVE  NodesTyped' /\ TreeOf(E \cup {c})'
<1> DEFINE new == {n \in Neighbors(c) \cap Pool : Inner(n) /\ ~Explored(n) /\ Admits(c, n)}
           Tree == E \cup open
           Around == Neighbors(c) \cap Pool
           start == search.start
<1>1. /\ E \subseteq Pool /\ open \subseteq Pool /\ E \cap open = {} /\ start \in Tree
      /\ start \in open => open = {start}
      /\ \A n \in Tree : nodes[n].rounds = rounds /\ nodes[n].g \in Nat /\ GrownFrom(n, E)
      /\ \A n \in E : nodes[n].state = "closed"
      /\ c \in Pool /\ c \in Tree /\ c \notin E
  BY DEF TreeOf
<1>2. \A n \in Tree : n # start => nodes[n].from \in E
  BY <1>1 DEF GrownFrom
<1>3. ASSUME NEW n \in Around
      PROVE  /\ NodeFields \subseteq DOMAIN Visited(c, n)
             /\ n \in E => Visited(c, n) = nodes[n]
             /\ n \in open => \/ /\ Visited(c, n).rounds = rounds
                                 /\ Visited(c, n).g = nodes[n].g
                                 /\ Visited(c, n).from = nodes[n].from
                              \/ Visited(c, n) = Reached(c, n) /\ Enters(c, n)
             /\ n \in new => Visited(c, n) = Reached(c, n) /\ Enters(c, n)
             /\ Reached(c, n).rounds = rounds /\ Reached(c, n).from = c
             /\ Reached(c, n).g \in Nat /\ nodes[c].g < Reached(c, n).g
             /\ n # c
  <2>1. n \in Pool /\ n \in Neighbors(c)
    OBVIOUS
  <2>2. n \in new => Inner(n) /\ ~Explored(n) /\ Admits(c, n)
    OBVIOUS
  <2> HIDE DEF new, Around
  <2> QED BY <2>1, <2>2, VisitedKeepsTree
<1>4. new \subseteq Around /\ new \cap Tree = {}
  BY <1>1 DEF Explored
<1>5. open' = (open \ {c}) \cup new /\ new \subseteq Pool
  OBVIOUS
<1>6. /\ nodes'[c] = [nodes[c] EXCEPT !.state = "closed"]
      /\ \A n \in Around : n # c => nodes'[n] = Visited(c, n)
      /\ \A n \in Pool : n # c /\ n \notin Around => nodes'[n] = nodes[n]
      /\ DOMAIN nodes' = Pool
  BY <1>1
<1> HIDE DEF new, Around, Tree, start
<1>7. /\ NodeFields \subseteq DOMAIN nodes'[c] /\ nodes'[c].state = "closed"
      /\ nodes'[c].rounds = nodes[c].rounds /\ nodes'[c].g = nodes[c].g
      /\ nodes'[c].from = nodes[c].from
  <2>1. NodeFields \subseteq DOMAIN nodes[c]
    BY <1>1 DEF NodesTyped
  <2> QED BY <1>6, <2>1 DEF NodeFields
<1>8. NodesTyped'
  <2>1. ASSUME NEW n \in Pool  PROVE NodeFields \subseteq DOMAIN nodes'[n]
    <3>1. CASE n = c
      BY <1>7, <3>1
    <3>2. CASE n # c /\ n \in Around
      BY <1>3, <1>6, <3>2
    <3>3. CASE n # c /\ n \notin Around
      BY <1>6, <3>3 DEF NodesTyped
    <3> QED BY <3>1, <3>2, <3>3
  <2> QED BY <1>6, <2>1 DEF NodesTyped
<1>9. \A n \in E : nodes'[n] = nodes[n]
  BY <1>1, <1>3, <1>6
<1>10. \A n \in E \cup {c} : nodes'[n].g = nodes[n].g
  BY <1>7, <1>9
<1>11. Steps' = Steps
  BY SameGround
<1>12. \A n \in Pool : Enters(c, n) => <<c, n>> \in Steps
  BY <1>1 DEF Steps
<1>13. c \notin new /\ start \notin new /\ \A n \in open \ {c} : n # start
  BY <1>1, <1>4
<1>14. ASSUME NEW n \in E \cup {c}
       PROVE  /\ nodes'[n].rounds = rounds /\ nodes'[n].state = "closed"
              /\ nodes'[n].g \in Nat
              /\ IF n = start THEN nodes'[n].from = NoCell
                 ELSE /\ nodes'[n].from \in E \cup {c}
                      /\ nodes'[nodes'[n].from].g < nodes'[n].g
                      /\ <<nodes'[n].from, n>> \in Steps
  <2>1. nodes'[n].rounds = nodes[n].rounds /\ nodes'[n].from = nodes[n].from
        /\ nodes'[n].state = "closed"
    BY <1>1, <1>7, <1>9
  <2>2. n \in Tree
    BY <1>1 DEF Tree
  <2>3. nodes[n].rounds = rounds /\ nodes[n].g \in Nat /\ GrownFrom(n, E)
    BY <1>1, <2>2
  <2> QED BY <1>10, <2>1, <2>3 DEF GrownFrom, start
<1>15. ASSUME NEW n \in Around, nodes'[n] = Reached(c, n), Enters(c, n)
       PROVE  /\ nodes'[n].rounds = rounds /\ nodes'[n].g \in Nat
              /\ nodes'[n].from \in E \cup {c}
              /\ nodes'[nodes'[n].from].g < nodes'[n].g
              /\ <<nodes'[n].from, n>> \in Steps
  <2>1. nodes'[n].from = c /\ nodes'[c].g = nodes[c].g
    BY <1>3, <1>7, <1>15
  <2>2. n \in Pool
    BY DEF Around
  <2> QED BY <1>3, <1>12, <1>15, <2>1, <2>2
<1>16. ASSUME NEW n \in open \ {c}
       PROVE  /\ nodes'[n].rounds = rounds /\ nodes'[n].g \in Nat
              /\ nodes'[n].from \in E \cup {c}
              /\ nodes'[nodes'[n].from].g < nodes'[n].g
              /\ <<nodes'[n].from, n>> \in Steps
  <2>1. n \in Tree /\ n # start /\ n \in Pool
    BY <1>1, <1>13 DEF Tree
  <2>2. CASE /\ nodes'[n].rounds = rounds /\ nodes'[n].g = nodes[n].g
             /\ nodes'[n].from = nodes[n].from
    <3>1. nodes[n].g \in Nat /\ GrownFrom(n, E)
      BY <1>1, <2>1
    <3>2. nodes[n].from \in E /\ nodes[nodes[n].from].g < nodes[n].g
          /\ <<nodes[n].from, n>> \in Steps
      BY <2>1, <3>1 DEF GrownFrom, start
    <3> QED BY <1>10, <2>2, <3>1, <3>2
  <2>3. CASE n \in Around /\ nodes'[n] = Reached(c, n) /\ Enters(c, n)
    BY <1>15, <2>3
  <2>4. n \notin Around => nodes'[n] = nodes[n] /\ nodes[n].rounds = rounds
    BY <1>1, <1>6, <2>1
  <2>5. n \in Around => nodes'[n] = Visited(c, n)
    BY <1>6
  <2> QED BY <1>3, <2>2, <2>3, <2>4, <2>5
<1>17. ASSUME NEW n \in new
       PROVE  /\ nodes'[n].rounds = rounds /\ nodes'[n].g \in Nat
              /\ nodes'[n].from \in E \cup {c}
              /\ nodes'[nodes'[n].from].g < nodes'[n].g
              /\ <<nodes'[n].from, n>> \in Steps
  <2>1. n \in Around /\ n # c
    BY <1>4, <1>13
  <2>2. nodes'[n] = Reached(c, n) /\ Enters(c, n)
    BY <1>3, <1>6, <2>1
  <2> QED BY <1>15, <2>1, <2>2
<1>18. \A n \in (E \cup {c}) \cup open' : GrownFrom(n, E \cup {c})'
  <2>1. ASSUME NEW n \in E \cup {c}  PROVE GrownFrom(n, E \cup {c})'
    BY <1>11, <1>14 DEF GrownFrom, start
  <2>2. ASSUME NEW n \in open \ {c}  PROVE GrownFrom(n, E \cup {c})'
    BY <1>11, <1>13, <1>16 DEF GrownFrom, start
  <2>3. ASSUME NEW n \in new  PROVE GrownFrom(n, E \cup {c})'
    BY <1>11, <1>13, <1>17 DEF GrownFrom, start
  <2> QED BY <1>5, <2>1, <2>2, <2>3
<1>19. \A n \in (E \cup {c}) \cup open' : nodes'[n].rounds = rounds' /\ nodes'[n].g \in Nat
  BY <1>5, <1>14, <1>16, <1>17
<1>20. /\ E \cup {c} \subseteq Pool /\ open' \subseteq Pool /\ (E \cup {c}) \cap open' = {}
       /\ start \in (E \cup {c}) \cup open'
       /\ start \in open' => open' = {start}
  BY <1>1, <1>4, <1>5, <1>13 DEF Tree
<1>21. \A n \in E \cup {c} : nodes'[n].state = "closed"
  BY <1>14
<1>22. TreeOf(E \cup {c})'
  BY <1>18, <1>19, <1>20, <1>21 DEF TreeOf, start
<1> QED
  BY <1>8, <1>22

LEMMA ExpandStep == StarInv /\ Expand => StarInv'
<1> SUFFICES ASSUME StarInv, Expand  PROVE StarInv'
  OBVIOUS
<1>1. /\ SearchFields \subseteq DOMAIN search /\ NodesTyped /\ search.status = "searching"
      /\ search.path = << >> /\ search.start \in Pool /\ search.end \in Pool
      /\ UNCHANGED <<world, offset, rounds>>
  BY DEF StarInv, SearchSound, Expand, Ongoing
<1>2. PICK E \in SUBSET Pool : TreeOf(E)
  BY <1>1 DEF StarInv
<1>3. PICK c \in open :
        IF c = search.end
        THEN /\ search' = [search EXCEPT !.status = "success", !.path = RetrievePath(c)]
             /\ open' = open \ {c} /\ UNCHANGED <<nodes, lowered>>
        ELSE /\ nodes' = [n \in Pool |->
                  IF n = c THEN [nodes[c] EXCEPT !.state = "closed"]
                  ELSE IF n \in Neighbors(c) THEN Visited(c, n) ELSE nodes[n]]
             /\ open' = (open \ {c}) \cup
                  {n \in Neighbors(c) \cap Pool : Inner(n) /\ ~Explored(n) /\ Admits(c, n)}
             /\ search' = [search EXCEPT !.expanded = @ + 1]
  BY DEF Expand
<1>4. CASE c = search.end
  <2> DEFINE p == RetrievePath(c)
  <2>1. /\ p[1] = search.start /\ p[Len(p)] = c
        /\ \A n \in 1..Len(p) - 1 : Enters(p[n], p[n + 1])
    BY <1>1, <1>2, PathRetrieved
  <2> HIDE DEF p
  <2>2. search' = [search EXCEPT !.status = "success", !.path = p] /\ nodes' = nodes
    BY <1>3, <1>4 DEF p
  <2>3. /\ SearchFields \subseteq DOMAIN search' /\ search'.status = "success"
        /\ search'.path = p /\ search'.start = search.start /\ search'.end = search.end
    BY <1>1, <2>2 DEF SearchFields
  <2>4. SearchSound'
    <3>1. \A b, d : Enters(b, d)' = Enters(b, d)
      BY <1>1, <2>3, SameGround
    <3> QED BY <1>4, <2>1, <2>3, <3>1 DEF SearchSound
  <2>5. NodesTyped'
    BY <1>1, <2>2 DEF NodesTyped
  <2>6. NeverDownhill'
    <3>1. SUFFICES ASSUME search.end[3] < Centre[3], search.start # c  PROVE FALSE
      BY <1>4, <2>3 DEF NeverDownhill, Centre
    <3>2. GrownFrom(c, E) /\ E \subseteq Pool
      BY <1>2 DEF TreeOf
    <3>3. nodes[c].from \in Pool /\ c \in Neighbors(nodes[c].from)
      BY <3>1, <3>2 DEF GrownFrom, Steps, Enters
    <3>4. c = OnPlane(c[1], c[2])
      BY <3>3, PoolCells, BesideIsElsewhere
    <3>5. c[3] = Height(c[1], c[2]) /\ c \in Pool
      BY <1>1, <1>4, <3>4 DEF OnPlane
    <3>6. /\ c[3] \in Int /\ Centre[3] \in Int /\ c = <<c[1], c[2], c[3]>>
          /\ search.start = <<search.start[1], search.start[2], search.start[3]>>
      BY <1>1, <3>5, PoolCells
    <3> QED BY <1>1, <1>4, <3>1, <3>5, <3>6, HeightAtEnd
  <2> QED BY <2>3, <2>4, <2>5, <2>6 DEF StarInv, Ongoing
<1>5. CASE c # search.end
  <2>1. /\ SearchFields \subseteq DOMAIN search' /\ search'.status = "searching"
        /\ search'.path = << >> /\ search'.start = search.start
        /\ search'.end = search.end
    BY <1>1, <1>3, <1>5 DEF SearchFields
  <2>2. NodesTyped' /\ TreeOf(E \cup {c})'
    BY <1>1, <1>2, <1>3, <1>5, <2>1, TreeGrows
  <2>3. E \cup {c} \in SUBSET Pool
    BY <1>2 DEF TreeOf
  <2>4. SearchSound' /\ NeverDownhill'
    BY <2>1 DEF SearchSound, NeverDownhill
  <2>5. \E F \in SUBSET Pool : TreeOf(F)'
    BY <2>2, <2>3
  <2> QED BY <1>1, <2>1, <2>2, <2>4, <2>5 DEF StarInv
<1> QED
  BY <1>4, <1>5

LEMMA StarInvStep == StarInv /\ [StarNext]_starVars => StarInv'
<1>1. ASSUME StarInv, UNCHANGED starVars  PROVE StarInv'
  <2>1. /\ world' = world /\ offset' = offset /\ nodes' = nodes /\ open' = open
        /\ search' = search /\ rounds' = rounds
    BY <1>1 DEF starVars
  <2>2. SearchSound' /\ NeverDownhill'
    <3>1. \A b, c : Enters(b, c)' = Enters(b, c)
      BY <2>1, SameGround
    <3>2. SearchSound'
      BY <1>1, <2>1, <3>1 DEF StarInv, SearchSound
    <3>3. NeverDownhill'
      BY <1>1, <2>1 DEF StarInv, NeverDownhill, Centre
    <3> QED BY <3>2, <3>3
  <2>3. Steps' = Steps
    BY <2>1, SameGround
  <2>4. ASSUME NEW E \in SUBSET Pool, TreeOf(E)  PROVE TreeOf(E)'
    BY <2>1, <2>3, <2>4 DEF TreeOf, GrownFrom
  <2>5. NodesTyped'
    BY <1>1, <2>1 DEF StarInv, NodesTyped
  <2> QED BY <1>1, <2>1, <2>2, <2>4, <2>5 DEF StarInv, Ongoing
<1>2. ASSUME StarInv, ResourceLimit \/ DeadlinePasses \/ Exhausted  PROVE StarInv'
  <2>1. /\ UNCHANGED nodes /\ search.status # "success"
        /\ \/ Ended("resource_limit")
           \/ Ended("deadline_exceeded")
           \/ Ended("search_err")
    BY <1>2 DEF ResourceLimit, DeadlinePasses, Exhausted
  <2> QED BY <1>2, <2>1, EndedStep DEF Returned
<1> QED
  BY <1>1, <1>2, RequestStep, AdjustStartStep, AdjustEndStep, BeginStep, ExpandStep
     DEF StarNext

(* A search returns a path only with success, and that path leads from the *)
(* adjusted start to the adjusted end over neighbouring cells of the       *)
(* plane, each free for the heading it is entered with, for every map,     *)
(* pool and expansion limit, in whatever order the queue serves the open   *)
(* nodes and whatever earlier searches left in the pool                    *)
(* (dyn_a_star.cpp:116-358).                                               *)
THEOREM SearchIsSound == StarSpec => []SearchSound
<1>1. StarInv => SearchSound
  BY DEF StarInv
<1> QED
  BY <1>1, StarInvStart, StarInvStep, PTL DEF StarSpec

(* An end below the centre of the pool, as on a descent of three steps or  *)
(* more, is found only where the search begins, whatever the map holds:    *)
(* the plane next to it is rounded towards zero to one step above it, and  *)
(* the goal is compared index by index (dyn_a_star.cpp:241-242, 291).      *)
THEOREM NoPathDownhill == StarSpec => []NeverDownhill
<1>1. StarInv => NeverDownhill
  BY DEF StarInv
<1> QED
  BY <1>1, StarInvStart, StarInvStep, PTL DEF StarSpec

(* Where the heading does not matter, the cells a search has closed are    *)
(* left over open cells only, and a free cell that carries the search's    *)
(* number is closed or open.                                               *)
Beginning == {"adjust start", "adjust end", "begin"}

SweptBy(E) ==
  /\ search.end \notin E
  /\ \A c \in E \cup open : c # search.start => Inner(c)
  /\ \A c \in E : \A n \in Neighbors(c) : Inner(n) /\ Enters(c, n) => n \in E \cup open
  /\ \A n \in Pool : Explored(n) /\ Reading(n) = 0 => n \in E \cup open

RoundsTyped ==
  /\ rounds \in Nat
  /\ \A c \in Pool : nodes[c].rounds \in 0..rounds
  /\ search.status \in Beginning => \A c \in Pool : nodes[c].rounds # rounds

CutInv ==
  /\ StarInv
  /\ RoundsTyped
  /\ search.status = "searching" /\ offset = 0 => \E E \in SUBSET Pool : TreeOf(E) /\ SweptBy(E)
  /\ FailsOnlyWhenCutOff

(* Before the first search there is nothing open or closed.                *)
LEMMA CutInvStart == StarInit => CutInv
<1> SUFFICES ASSUME StarInit  PROVE CutInv
  OBVIOUS
<1>1. search.status = "idle" /\ rounds = 0 /\ nodes = [c \in Pool |-> NewNode]
  BY DEF StarInit
<1>2. RoundsTyped
  <2>1. \A c \in Pool : nodes[c].rounds = 0
    BY <1>1 DEF NewNode
  <2> QED BY <1>1, <2>1 DEF RoundsTyped, Beginning
<1> QED
  BY <1>1, <1>2, StarInvStart DEF CutInv, FailsOnlyWhenCutOff

(* A step that leaves the nodes alone, does not go on searching and does   *)
(* not fail for want of a path.                                            *)
LEMMA NotCutting ==
  ASSUME CutInv, StarInv', UNCHANGED nodes, search'.status \notin {"searching", "search_err"},
         \/ /\ rounds' = rounds
            /\ search'.status \in Beginning => search.status \in Beginning
         \/ rounds' = rounds + 1
  PROVE  CutInv'
<1>1. /\ rounds \in Nat /\ nodes' = nodes /\ \A c \in Pool : nodes[c].rounds \in 0..rounds
      /\ search.status \in Beginning => \A c \in Pool : nodes[c].rounds # rounds
  BY DEF CutInv, RoundsTyped
<1>2. /\ rounds' \in Nat /\ \A k \in 0..rounds : k \in 0..rounds'
      /\ rounds' = rounds + 1 => \A k \in 0..rounds : k # rounds'
  BY <1>1
<1>3. \A c \in Pool : nodes'[c].rounds \in 0..rounds'
  BY <1>1, <1>2
<1>4. search'.status \in Beginning => \A c \in Pool : nodes'[c].rounds # rounds'
  BY <1>1, <1>2
<1>5. RoundsTyped'
  BY <1>2, <1>3, <1>4 DEF RoundsTyped
<1> QED
  BY <1>5 DEF CutInv, FailsOnlyWhenCutOff

(* A request opens a new round, in which no cell carries its number yet.   *)
LEMMA RequestCuts == CutInv /\ StarInv' /\ AstarSearch => CutInv'
<1> SUFFICES ASSUME CutInv, StarInv', AstarSearch  PROVE CutInv'
  OBVIOUS
<1> QED
  BY RequestEffect, NotCutting DEF Beginning

(* The adjustment of an end, a limit and a deadline.                       *)
LEMMA AdjustingCuts ==
  CutInv /\ StarInv' /\ (AdjustStart \/ AdjustEnd \/ ResourceLimit \/ DeadlinePasses) => CutInv'
<1> SUFFICES ASSUME CutInv, StarInv', AdjustStart \/ AdjustEnd \/ ResourceLimit \/ DeadlinePasses
             PROVE  CutInv'
  OBVIOUS
<1>1. SearchFields \subseteq DOMAIN search
  BY DEF CutInv, StarInv
<1>2. UNCHANGED nodes /\ rounds' = rounds
  BY DEF AdjustStart, AdjustEnd, ResourceLimit, DeadlinePasses
<1>3. CASE AdjustStart
  <2>1. \/ search' = [search EXCEPT !.status = "adjust end"]
        \/ \E b \in Pool : search' = [search EXCEPT !.start = b]
        \/ search' = [search EXCEPT !.status = "init_err"]
    BY <1>3 DEF AdjustStart, MoveEnd, Ended
  <2>2. search.status = "adjust start"
    BY <1>3 DEF AdjustStart
  <2>3. search'.status \in {"adjust start", "adjust end", "init_err"}
    BY <1>1, <2>1, <2>2 DEF SearchFields
  <2> QED BY <1>2, <2>2, <2>3, NotCutting DEF Beginning
<1>4. CASE AdjustEnd
  <2>1. \/ search' = [search EXCEPT !.status = "begin"]
        \/ \E b \in Pool : search' = [search EXCEPT !.end = b]
        \/ search' = [search EXCEPT !.status = "init_err"]
    BY <1>4 DEF AdjustEnd, MoveEnd, Ended
  <2>2. search.status = "adjust end"
    BY <1>4 DEF AdjustEnd
  <2>3. search'.status \in {"adjust end", "begin", "init_err"}
    BY <1>1, <2>1, <2>2 DEF SearchFields
  <2> QED BY <1>2, <2>2, <2>3, NotCutting DEF Beginning
<1>5. CASE ResourceLimit \/ DeadlinePasses
  <2>1. \/ search' = [search EXCEPT !.status = "resource_limit"]
        \/ search' = [search EXCEPT !.status = "deadline_exceeded"]
    BY <1>5 DEF ResourceLimit, DeadlinePasses, Ended
  <2>2. search'.status \in {"resource_limit", "deadline_exceeded"}
    BY <1>1, <2>1 DEF SearchFields
  <2> QED BY <1>2, <2>2, NotCutting DEF Beginning
<1> QED
  BY <1>3, <1>4, <1>5

(* The search begins with the start as the one open cell.                  *)
LEMMA BeginCuts == CutInv /\ StarInv' /\ Begin => CutInv'
<1> SUFFICES ASSUME CutInv, StarInv', Begin  PROVE CutInv'
  OBVIOUS
<1> DEFINE s == search.start
           n == [rounds |-> rounds, state |-> "open", g |-> 0,
                 f |-> Total(0, search.start, search.end), from |-> NoCell]
<1>1. /\ SearchFields \subseteq DOMAIN search /\ s \in Pool /\ DOMAIN nodes = Pool
      /\ rounds \in Nat /\ \A c \in Pool : nodes[c].rounds \in 0..rounds
      /\ \A c \in Pool : nodes[c].rounds # rounds
  BY DEF CutInv, StarInv, RoundsTyped, Begin, Ongoing, NodesTyped, Beginning
<1>2. /\ nodes' = [nodes EXCEPT ![s] = n] /\ open' = {s} /\ world' = world
      /\ search' = [search EXCEPT !.status = "searching"] /\ rounds' = rounds
  BY DEF Begin, Ended
<1>3. search'.status = "searching" /\ search'.start = s /\ search'.end = search.end
  BY <1>1, <1>2 DEF SearchFields
<1>4. n.rounds = rounds
  OBVIOUS
<1> HIDE DEF n, s
<1>5. nodes'[s] = n /\ \A c \in Pool : c # s => nodes'[c] = nodes[c]
  BY <1>1, <1>2
<1>6. \A c \in Pool : c # s => nodes'[c].rounds # rounds'
  BY <1>1, <1>2, <1>5
<1>7. \A c \in Pool : nodes'[c].rounds \in 0..rounds'
  BY <1>1, <1>2, <1>4, <1>5
<1>8. RoundsTyped'
  BY <1>1, <1>2, <1>3, <1>7 DEF RoundsTyped, Beginning
<1>9. PICK E \in SUBSET Pool : TreeOf(E)'
  BY <1>3 DEF StarInv
<1>10. E = {}
  <2>1. ASSUME NEW c \in E  PROVE FALSE
    <3>1. c \in Pool /\ nodes'[c].rounds = rounds' /\ E \cap open' = {}
      BY <1>9 DEF TreeOf
    <3>2. c = s
      BY <1>6, <3>1
    <3> QED BY <1>2, <3>1, <3>2
  <2> QED BY <2>1
<1>11. \A c \in Pool : Explored(c)' => c = s
  BY <1>6 DEF Explored
<1>12. SweptBy({})'
  BY <1>2, <1>3, <1>11 DEF SweptBy
<1> QED
  BY <1>3, <1>8, <1>9, <1>10, <1>12 DEF CutInv, FailsOnlyWhenCutOff

(* Where the heading does not matter, a cell is read where it is.          *)
LEMMA ReadInPlace ==
  ASSUME offset = 0, search.start \in Pool, search.end \in Pool,
         NEW c \in Pool, NEW n, n \in Neighbors(c)
  PROVE  /\ Inner(n) => n \in Pool
         /\ \A h : h[1] \in Int /\ h[2] \in Int => CheckOccupancy(n, h) = Reading(n)
         /\ Enters(c, n) <=> Reading(n) = 0
         /\ Admits(c, n) <=> Reading(n) = 0
<1>1. c[1] \in Int /\ c[2] \in Int /\ \A i \in 1..3 : PoolSize[i] \in Nat \ {0}
  BY PoolCells
<1>2. n[1] \in Int /\ n[2] \in Int /\ n = OnPlane(n[1], n[2])
  BY <1>1, BesideIsElsewhere
<1>3. Height(n[1], n[2]) \in Int
  BY <1>2, HeightTyped
<1>4. n[3] \in Int /\ n = <<n[1], n[2], n[3]>>
  BY <1>2, <1>3 DEF OnPlane
<1>5. Inner(n) => n \in Pool
  <2>1. \A k \in Int, m \in Nat : 1 <= k /\ k < m - 1 => k \in 0..m - 1
    OBVIOUS
  <2>2. Inner(n) => \A i \in 1..3 : 1 <= n[i] /\ n[i] < PoolSize[i] - 1
    BY DEF Inner
  <2>3. 1 \in 1..3 /\ 2 \in 1..3 /\ 3 \in 1..3
    OBVIOUS
  <2>4. Inner(n) => /\ n[1] \in 0..PoolSize[1] - 1
                    /\ n[2] \in 0..PoolSize[2] - 1
                    /\ n[3] \in 0..PoolSize[3] - 1
    BY <1>1, <1>2, <1>4, <2>1, <2>2, <2>3
  <2> QED BY <1>4, <2>4 DEF Pool
<1>6. ASSUME NEW h, h[1] \in Int, h[2] \in Int  PROVE CheckOccupancy(n, h) = Reading(n)
  <2>1. \A x, y \in Int : x + 0 * y = x
    OBVIOUS
  <2>2. n[1] + 0 * h[1] = n[1] /\ n[2] + 0 * h[2] = n[2]
    BY <1>2, <1>6, <2>1
  <2>3. -offset = 0
    <3>1. \A k \in Int : -k = 0 - k
      OBVIOUS
    <3>2. offset \in Int /\ 0 - offset = 0
      OBVIOUS
    <3> QED BY <3>1, <3>2
  <2>4. Shift(n, h, offset) = n /\ Shift(n, h, -offset) = n
    BY <1>4, <2>2, <2>3 DEF Shift
  <2> QED BY <2>4 DEF CheckOccupancy
<1>7. Heading(c, n)[1] \in Int /\ Heading(c, n)[2] \in Int
  BY <1>1, <1>2 DEF Heading
<1> QED
  BY <1>5, <1>6, <1>7 DEF Admits, Enters

(* The cell taken is closed, and what it leads to is open or closed.       *)
LEMMA ExpandCuts == CutInv /\ StarInv' /\ Expand => CutInv'
<1> SUFFICES ASSUME CutInv, StarInv', Expand  PROVE CutInv'
  OBVIOUS
<1>1. /\ SearchFields \subseteq DOMAIN search /\ NodesTyped /\ search.status = "searching"
      /\ rounds \in Nat /\ \A n \in Pool : nodes[n].rounds \in 0..rounds
      /\ search.start \in Pool /\ search.end \in Pool
      /\ UNCHANGED <<world, offset, rounds>>
  BY DEF CutInv, StarInv, RoundsTyped, Expand, Ongoing
<1>2. PICK c \in open :
        IF c = search.end
        THEN /\ search' = [search EXCEPT !.status = "success", !.path = RetrievePath(c)]
             /\ open' = open \ {c} /\ UNCHANGED <<nodes, lowered>>
        ELSE /\ nodes' = [n \in Pool |->
                  IF n = c THEN [nodes[c] EXCEPT !.state = "closed"]
                  ELSE IF n \in Neighbors(c) THEN Visited(c, n) ELSE nodes[n]]
             /\ open' = (open \ {c}) \cup
                  {n \in Neighbors(c) \cap Pool : Inner(n) /\ ~Explored(n) /\ Admits(c, n)}
             /\ search' = [search EXCEPT !.expanded = @ + 1]
  BY DEF Expand
<1>3. CASE c = search.end
  <2> DEFINE p == RetrievePath(c)
  <2>1. search' = [search EXCEPT !.status = "success", !.path = p] /\ nodes' = nodes
    BY <1>2, <1>3
  <2> HIDE DEF p
  <2>2. search'.status = "success"
    BY <1>1, <2>1 DEF SearchFields
  <2> QED BY <1>1, <2>1, <2>2, NotCutting DEF Beginning
<1>4. CASE c # search.end
  <2> DEFINE new == {n \in Neighbors(c) \cap Pool : Inner(n) /\ ~Explored(n) /\ Admits(c, n)}
  <2>1. /\ search'.status = "searching" /\ search'.start = search.start
        /\ search'.end = search.end
    BY <1>1, <1>2, <1>4 DEF SearchFields
  <2>2. /\ nodes' = [n \in Pool |->
                  IF n = c THEN [nodes[c] EXCEPT !.state = "closed"]
                  ELSE IF n \in Neighbors(c) THEN Visited(c, n) ELSE nodes[n]]
        /\ open' = (open \ {c}) \cup new
    BY <1>2, <1>4
  <2>3. \A n \in Pool : \A k : [nodes[n] EXCEPT !.state = k].rounds = nodes[n].rounds
                          /\ [nodes[n] EXCEPT !.rounds = rounds].rounds = rounds
    BY <1>1 DEF NodesTyped, NodeFields
  <2>4. ASSUME NEW n \in Pool
        PROVE  /\ nodes'[n].rounds \in {nodes[n].rounds, rounds}
               /\ n # c /\ nodes'[n].rounds = rounds =>
                    \/ nodes[n].rounds = rounds
                    \/ n \in Neighbors(c) /\ (n \in new \/ ~Admits(c, n))
    <3>1. CASE n = c
      BY <2>2, <2>3, <3>1
    <3>2. CASE n # c /\ n \notin Neighbors(c)
      BY <2>2, <3>2
    <3>3. CASE n # c /\ n \in Neighbors(c)
      <4>1. nodes'[n] = Visited(c, n)
        BY <2>2, <3>3
      <4>2. Reached(c, n).rounds = rounds
        BY DEF Reached
      <4>3. \/ Visited(c, n).rounds = nodes[n].rounds
            \/ Visited(c, n).rounds = rounds /\ ~Admits(c, n)
            \/ Visited(c, n).rounds = rounds /\ Admits(c, n) /\ Inner(n)
        BY <2>3, <4>2 DEF Visited
      <4> QED BY <3>3, <4>1, <4>3 DEF Explored
    <3> QED BY <3>1, <3>2, <3>3
  <2>5. RoundsTyped'
    <3>1. \A n \in Pool : nodes'[n].rounds \in 0..rounds
      BY <1>1, <2>4
    <3> QED BY <1>1, <2>1, <3>1 DEF RoundsTyped, Beginning
  <2>6. ASSUME offset = 0  PROVE \E E \in SUBSET Pool : TreeOf(E)' /\ SweptBy(E)'
    <3>1. PICK E \in SUBSET Pool : TreeOf(E) /\ SweptBy(E)
      BY <1>1, <2>6 DEF CutInv
    <3>2. TreeOf(E \cup {c})' /\ c \in Pool
      <4>1. c \in Pool
        BY <3>1 DEF TreeOf
      <4> QED BY <1>1, <2>1, <2>2, <3>1, <4>1, TreeGrows
    <3>3. new \subseteq Neighbors(c) /\ \A n \in new : Inner(n)
      OBVIOUS
    <3>4. \A n \in Neighbors(c) \cap Pool :
            Inner(n) /\ ~Explored(n) /\ Admits(c, n) => n \in new
      OBVIOUS
    <3> HIDE DEF new
    <3>5. E \cup open \subseteq (E \cup {c}) \cup open'
      BY <2>2
    <3>6. /\ search.end \notin E
          /\ \A n \in E \cup open : n # search.start => Inner(n)
          /\ \A b \in E : \A n \in Neighbors(b) : Inner(n) /\ Enters(b, n) => n \in E \cup open
          /\ \A n \in Pool : Explored(n) /\ Reading(n) = 0 => n \in E \cup open
      BY <3>1 DEF SweptBy
    <3>7. ASSUME NEW n \in Neighbors(c), Inner(n), Enters(c, n)
          PROVE  n \in (E \cup {c}) \cup open'
      <4>1. n \in Pool /\ Reading(n) = 0 /\ Admits(c, n)
        BY <1>1, <2>6, <3>2, <3>7, ReadInPlace
      <4> QED BY <2>2, <3>4, <3>5, <3>6, <3>7, <4>1
    <3>8. ASSUME NEW n \in Pool, nodes'[n].rounds = rounds, Reading(n) = 0
          PROVE  n \in (E \cup {c}) \cup open'
      <4>1. n # c /\ n \in Neighbors(c) => Admits(c, n)
        BY <1>1, <2>6, <3>2, <3>8, ReadInPlace
      <4>2. n = c \/ nodes[n].rounds = rounds \/ n \in new
        BY <2>4, <3>8, <4>1
      <4>3. nodes[n].rounds = rounds => n \in E \cup open
        BY <3>6, <3>8 DEF Explored
      <4> QED BY <2>2, <3>5, <4>2, <4>3
    <3>9. /\ \A n : Reading(n)' = Reading(n)
          /\ \A b, n : Enters(b, n)' = Enters(b, n)
          /\ \A b : Neighbors(b)' = Neighbors(b)
      <4>1. \A n : Reading(n)' = Reading(n)
        BY <1>1 DEF Reading
      <4> QED BY <1>1, <2>1, <4>1, SameGround
    <3>10. SweptBy(E \cup {c})'
      <4>1. search'.end \notin E \cup {c}
        BY <1>4, <2>1, <3>6
      <4>2. \A n \in (E \cup {c}) \cup open' : n # search'.start => Inner(n)
        BY <2>1, <2>2, <3>3, <3>6
      <4>3. \A b \in E \cup {c} : \A n \in Neighbors(b)' :
              Inner(n) /\ Enters(b, n)' => n \in (E \cup {c}) \cup open'
        BY <3>5, <3>6, <3>7, <3>9
      <4>4. \A n \in Pool : Explored(n)' /\ Reading(n)' = 0 => n \in (E \cup {c}) \cup open'
        BY <1>1, <3>8, <3>9 DEF Explored
      <4> QED BY <4>1, <4>2, <4>3, <4>4 DEF SweptBy
    <3> QED BY <3>1, <3>2, <3>10
  <2>7. offset' = 0 => offset = 0
    BY <1>1
  <2> QED BY <2>1, <2>5, <2>6, <2>7 DEF CutInv, FailsOnlyWhenCutOff
<1> QED
  BY <1>3, <1>4

(* Where the plane meets the end, a step over the ground is a step of the  *)
(* search.                                                                 *)
LEMMA FootingsMeetPlane ==
  ASSUME search.start \in Pool, search.end \in Pool, PlaneMeetsEnd
  PROVE  \A x, y : Footing(x, y) = OnPlane(x, y)
<1> DEFINE e == search.end
<1>1. e = <<e[1], e[2], e[3]>>
  BY PoolCells
<1>2. Height(e[1], e[2]) = e[3]
  BY HeightAtEnd DEF PlaneMeetsEnd
<1>3. OnPlane(e[1], e[2]) = e
  BY <1>1, <1>2 DEF OnPlane
<1>4. ASSUME NEW x, NEW y, <<x, y>> = <<e[1], e[2]>>  PROVE OnPlane(x, y) = e
  <2>1. x = e[1] /\ y = e[2]
    BY <1>4
  <2> QED BY <1>3, <2>1
<1> QED
  BY <1>4 DEF Footing

LEMMA SameCut ==
  ASSUME UNCHANGED <<world, offset>>, search'.start = search.start, search'.end = search.end
  PROVE  CutOff' = CutOff /\ PlaneMeetsEnd' = PlaneMeetsEnd
<1>1. \A x, y : Footing(x, y)' = Footing(x, y)
  BY SameGround DEF Footing
<1>2. \A b : StepsOver(b)' = StepsOver(b)
  BY <1>1 DEF StepsOver
<1>3. CutOff' = CutOff
  <2> DEFINE F == {Footing(c[1], c[2]) : c \in Pool}
             Closed(S) == \A b \in S \cup {search.start} : \A c \in StepsOver(b) :
               Inner(c) /\ CheckOccupancy(c, Heading(b, c)) = 0 => c \in S \cup {search.start}
  <2>1. F' = F
    BY <1>1
  <2>2. \A S : Closed(S)' = Closed(S)
    BY <1>2, SameGround
  <2>3. CutOff = \E S \in SUBSET {c \in F : Inner(c) /\ c # search.end} : Closed(S)
    BY DEF CutOff
  <2>4. CutOff' = \E S \in SUBSET {c \in F' : Inner(c) /\ c # search'.end} : Closed(S)'
    BY DEF CutOff
  <2> HIDE DEF F, Closed
  <2> QED BY <2>1, <2>2, <2>3, <2>4
<1> QED
  BY <1>3 DEF PlaneMeetsEnd

(* A search that has nothing open left has closed all the start leads to.  *)
LEMMA ExhaustedCuts == CutInv /\ StarInv' /\ Exhausted => CutInv'
<1> SUFFICES ASSUME CutInv, StarInv', Exhausted  PROVE CutInv'
  OBVIOUS
<1>1. /\ SearchFields \subseteq DOMAIN search /\ search.status = "searching" /\ open = {}
      /\ search.start \in Pool /\ search.end \in Pool
      /\ search' = [search EXCEPT !.status = "search_err"]
      /\ UNCHANGED <<world, offset, nodes, rounds>>
  BY DEF CutInv, StarInv, Exhausted, Ended, Ongoing
<1>2. /\ search'.status = "search_err" /\ search'.start = search.start
      /\ search'.end = search.end
  BY <1>1 DEF SearchFields
<1>3. RoundsTyped'
  BY <1>1, <1>2 DEF CutInv, RoundsTyped, Beginning
<1>4. ASSUME offset = 0, PlaneMeetsEnd  PROVE CutOff
  <2>1. PICK E \in SUBSET Pool : TreeOf(E) /\ SweptBy(E)
    BY <1>1, <1>4 DEF CutInv
  <2> DEFINE S == E \ {search.start}
             footings == {Footing(c[1], c[2]) : c \in Pool}
  <2>2. search.start \in E /\ S \cup {search.start} = E /\ S \subseteq E
    BY <1>1, <2>1 DEF TreeOf
  <2>3. \A x, y : Footing(x, y) = OnPlane(x, y)
    BY <1>1, <1>4, FootingsMeetPlane
  <2>4. ASSUME NEW c \in S  PROVE c \in footings /\ Inner(c) /\ c # search.end
    <3>1. c \in Pool /\ Inner(c) /\ c # search.end
      BY <2>1 DEF SweptBy
    <3>2. GrownFrom(c, E) /\ c # search.start
      BY <2>1 DEF TreeOf
    <3>3. nodes[c].from \in Pool /\ c \in Neighbors(nodes[c].from)
      BY <3>2 DEF GrownFrom, Steps, Enters
    <3>4. c = Footing(c[1], c[2])
      BY <2>3, <3>3, PoolCells, BesideIsElsewhere
    <3> QED BY <3>1, <3>4
  <2>5. ASSUME NEW b \in E, NEW c \in StepsOver(b),
               Inner(c), CheckOccupancy(c, Heading(b, c)) = 0
        PROVE  c \in E
    <3>1. c \in Neighbors(b)
      BY <2>3 DEF StepsOver, Neighbors
    <3>2. Enters(b, c)
      BY <2>5, <3>1 DEF Enters
    <3> QED BY <1>1, <2>1, <2>5, <3>1, <3>2 DEF SweptBy
  <2> HIDE DEF S
  <2>6. S \in SUBSET {c \in footings : Inner(c) /\ c # search.end}
    BY <2>4
  <2> QED BY <2>2, <2>5, <2>6 DEF CutOff
<1>5. CutOff' = CutOff /\ PlaneMeetsEnd' = PlaneMeetsEnd
  BY <1>1, <1>2, SameCut
<1>6. FailsOnlyWhenCutOff'
  BY <1>1, <1>4, <1>5 DEF FailsOnlyWhenCutOff
<1> QED
  BY <1>2, <1>3, <1>6 DEF CutInv

(* Every step of a search and between two searches.                        *)
LEMMA CutInvStep == CutInv /\ [StarNext]_starVars => CutInv'
<1> SUFFICES ASSUME CutInv, [StarNext]_starVars  PROVE CutInv'
  OBVIOUS
<1>1. StarInv'
  BY StarInvStep DEF CutInv
<1>2. CASE UNCHANGED starVars
  <2>1. /\ world' = world /\ offset' = offset /\ nodes' = nodes /\ open' = open
        /\ search' = search /\ rounds' = rounds
    BY <1>2 DEF starVars
  <2>2. RoundsTyped'
    BY <2>1 DEF CutInv, RoundsTyped
  <2>3. FailsOnlyWhenCutOff'
    BY <2>1, SameCut DEF CutInv, FailsOnlyWhenCutOff
  <2>4. ASSUME search.status = "searching", offset = 0
        PROVE  \E E \in SUBSET Pool : TreeOf(E)' /\ SweptBy(E)'
    <3>1. PICK E \in SUBSET Pool : TreeOf(E) /\ SweptBy(E)
      BY <2>4 DEF CutInv
    <3>2. /\ Steps' = Steps
          /\ \A b, c : Enters(b, c)' = Enters(b, c)
          /\ \A c : Neighbors(c)' = Neighbors(c)
      BY <2>1, SameGround
    <3>3. TreeOf(E)'
      BY <2>1, <3>1, <3>2 DEF TreeOf, GrownFrom
    <3>4. SweptBy(E)'
      BY <2>1, <3>1, <3>2 DEF SweptBy, Explored, Reading
    <3> QED BY <3>3, <3>4
  <2> QED BY <1>1, <2>1, <2>2, <2>3, <2>4 DEF CutInv
<1> QED
  BY <1>1, <1>2, RequestCuts, AdjustingCuts, BeginCuts, ExpandCuts, ExhaustedCuts DEF StarNext

(* Without a body offset, and where the plane meets the end - the ends in  *)
(* different columns, the end not below the centre -, a search fails for   *)
(* want of a path only when no sequence of steps over the ground leads     *)
(* from start to end, for every map, pool and limit and whatever earlier   *)
(* searches left in the pool: the marks of an earlier round exclude        *)
(* nothing (dyn_a_star.cpp:232-358).                                       *)
THEOREM FailureIsHonest == StarSpec => []FailsOnlyWhenCutOff
<1>1. CutInv => FailsOnlyWhenCutOff
  BY DEF CutInv
<1> QED
  BY <1>1, CutInvStart, CutInvStep, PTL DEF StarSpec

-----------------------------------------------------------------------------
(* The map.                                                                *)
(*                                                                         *)
(* Cells are triples of integers and functions on the axes alike.          *)
LEMMA FunctionIsCell ==
  ASSUME NEW f \in [Axis -> Int]
  PROVE  f \in Cell3
BY DEF Cell3, Axis

LEMMA SameCell ==
  ASSUME NEW f \in Cell3, NEW g \in Cell3, \A i \in Axis : f[i] = g[i]
  PROVE  f = g
BY DEF Cell3, Axis

LEMMA CellIsFunction ==
  ASSUME NEW f \in Cell3
  PROVE  f \in [Axis -> Int]
BY DEF Cell3, Axis

(* The sides of the window, and the address of a cell within them.         *)
LEMMA SizeTyped ==
  ASSUME NEW i \in Axis
  PROVE  Size[i] \in Nat \ {0} /\ Size[i] \div 2 \in Nat
<1>1. Size[i] \in Nat \ {0}
  BY GridAssumption
<1>2. \A k \in Nat : k \div 2 \in Nat
  OBVIOUS
<1> QED
  BY <1>1, <1>2

LEMMA AddressTyped ==
  ASSUME NEW f \in Cell3
  PROVE  ToAddress(f) \in Addr /\ \A i \in Axis : ToAddress(f)[i] = f[i] % Size[i]
<1>1. \A i \in Axis : f[i] % Size[i] \in 0..Size[i] - 1
  <2>1. \A x \in Int, n \in Nat \ {0} : x % n \in 0..n - 1
    BY ModBounds
  <2> QED BY <2>1, SizeTyped, CellIsFunction
<1> DEFINE a == ToAddress(f)
<1>2. a = [i \in Axis |-> f[i] % Size[i]]
  BY DEF ToAddress
<1> HIDE DEF a
<1>3. DOMAIN a = Axis /\ \A i \in Axis : a[i] \in 0..Size[i] - 1
  BY <1>1, <1>2
<1>4. a \in (0..Size[1] - 1) \X (0..Size[2] - 1) \X (0..Size[3] - 1)
  <2>1. a[1] \in 0..Size[1] - 1 /\ a[2] \in 0..Size[2] - 1 /\ a[3] \in 0..Size[3] - 1
    BY <1>3 DEF Axis
  <2>2. a = <<a[1], a[2], a[3]>>
    BY <1>2, <1>3 DEF Axis
  <2> HIDE DEF a
  <2> QED BY <2>1, <2>2
<1> QED
  BY <1>2, <1>4 DEF Addr, a

(* The number of a window from low on that an address stands for.          *)
WrappedTo(low, n, a) == low + ((a - low) % n)

LEMMA Wrapped ==
  ASSUME NEW n, NEW low, NEW a, NEW c, n \in Nat \ {0}, low \in Int, a \in 0..n - 1,
         c = WrappedTo(low, n, a)
  PROVE  c \in Int /\ low <= c /\ c <= low + n - 1 /\ c % n = a
<1> DEFINE d == a - low
           q == d \div n
           k == d % n
           m == n * (-q)
           nq == n * q
<1>1. d \in Int /\ low + d = a /\ c = low + k
  BY DEF WrappedTo
<1> HIDE DEF d
<1>2. k \in 0..n - 1 /\ q \in Int /\ d = nq + k
  BY <1>1, ModBounds
<1> HIDE DEF k, q
<1>3. nq \in Int /\ m = -nq
  BY <1>2
<1> HIDE DEF m, nq
<1>4. c = m + a /\ c \in Int
  BY <1>1, <1>2, <1>3
<1>5. (m + a) % n = a
  <2>1. -q \in Int
    BY <1>2
  <2> QED BY <2>1, ModUnique DEF m
<1> QED
  BY <1>1, <1>2, <1>4, <1>5

(* The cell of the window at an address, and the only one there.           *)
LEMMA CellAtAddress ==
  ASSUME NEW g, g.origin \in Cell3, NEW a \in Addr, NEW c, c = HashIdToGlobalIndex(g, a)
  PROVE  /\ c \in Cell3 /\ ToAddress(c) = a
         /\ \A i \in Axis : MinIdx(g.origin)[i] \in Int /\ MinIdx(g.origin)[i] <= c[i]
                         /\ c[i] <= MinIdx(g.origin)[i] + Size[i] - 1
<1> DEFINE low == MinIdx(g.origin)
<1>1. ASSUME NEW i \in Axis
      PROVE  /\ low[i] = g.origin[i] - Size[i] \div 2 /\ low[i] \in Int /\ a[i] \in 0..Size[i] - 1
             /\ c[i] = low[i] + ((a[i] - low[i]) % Size[i])
  <2>1. g.origin[i] \in Int
    BY CellIsFunction
  <2>2. low[i] = g.origin[i] - Size[i] \div 2
    BY DEF MinIdx
  <2>3. a[i] \in 0..Size[i] - 1
    BY DEF Addr, Axis
  <2>4. c[i] = low[i] + ((a[i] - low[i]) % Size[i])
    BY DEF HashIdToGlobalIndex
  <2> QED BY <2>1, <2>2, <2>3, <2>4, SizeTyped
<1>2. c = [i \in Axis |-> c[i]]
  BY DEF HashIdToGlobalIndex
<1> HIDE DEF low
<1>3. ASSUME NEW i \in Axis
      PROVE  c[i] \in Int /\ low[i] <= c[i] /\ c[i] <= low[i] + Size[i] - 1 /\ c[i] % Size[i] = a[i]
  <2> DEFINE n == Size[i]
             b == a[i]
  <2>1. n \in Nat \ {0} /\ low[i] \in Int /\ b \in 0..n - 1
    BY <1>1, SizeTyped
  <2>2. c[i] = low[i] + ((b - low[i]) % n)
    BY <1>1
  <2> DEFINE lo == low[i]
             ci == c[i]
  <2>3. n \in Nat \ {0} /\ lo \in Int /\ b \in 0..n - 1 /\ ci = WrappedTo(lo, n, b)
    BY <2>1, <2>2 DEF WrappedTo
  <2> HIDE DEF n, b, lo, ci
  <2>4. ci \in Int /\ lo <= ci /\ ci <= lo + n - 1 /\ ci % n = b
    BY <2>3, Wrapped
  <2> QED BY <2>4 DEF n, b, lo, ci
<1>4. c \in Cell3
  <2>1. c \in [Axis -> Int]
    BY <1>2, <1>3
  <2> QED BY <2>1, FunctionIsCell
<1>5. ToAddress(c) = a
  <2>1. \A i \in Axis : ToAddress(c)[i] = a[i]
    BY <1>3, <1>4, AddressTyped
  <2>2. ToAddress(c) \in Cell3 /\ a \in Cell3
    <3>1. Addr \subseteq Cell3
      BY DEF Addr, Cell3
    <3> QED BY <1>4, <3>1, AddressTyped
  <2> QED BY <2>1, <2>2, SameCell
<1> QED
  BY <1>1, <1>3, <1>4, <1>5 DEF low

(* The states of the ring buffer.                                          *)
Grids == [origin : Cell3, occ : [Addr -> Unknown..LogMax], cnt : [Addr -> Nat]]

LEMMA InflationTyped ==
  ASSUME NEW g \in Grids, NEW c, NEW delta \in {-1, 1}, NEW ignored, NEW h,
         h = UpdateInflation(g, c, delta, ignored)
  PROVE  h \in Grids /\ h.origin = g.origin /\ h.occ = g.occ
<1> DEFINE reached == {ToAddress(p) : p \in {q \in {Plus(c, d) : d \in InflateOffsets} : IsInMap(g, q)}}
           cnt == [a \in Addr |-> IF a \in reached \ ignored
                                  THEN Max2(0, g.cnt[a] + delta) ELSE g.cnt[a]]
<1>1. h = [g EXCEPT !.cnt = cnt]
  BY DEF UpdateInflation
<1>2. \A k \in Nat : Max2(0, k + delta) \in Nat
  BY DEF Max2
<1> HIDE DEF reached
<1>3. cnt \in [Addr -> Nat]
  BY <1>2 DEF Grids
<1> HIDE DEF cnt
<1> QED
  BY <1>1, <1>3 DEF Grids

(* The buffer is finite.                                                   *)
LEMMA AddrFinite == IsFiniteSet(Addr)
<1>1. ASSUME NEW i \in Axis  PROVE IsFiniteSet(0..Size[i] - 1)
  <2>1. 0 \in Int /\ Size[i] - 1 \in Int
    BY SizeTyped
  <2> QED BY <2>1, FS_Interval
<1>2. IsFiniteSet(0..Size[1] - 1) /\ IsFiniteSet(0..Size[2] - 1) /\ IsFiniteSet(0..Size[3] - 1)
  BY <1>1 DEF Axis
<1> DEFINE A == 0..Size[1] - 1
           B == 0..Size[2] - 1
           C == 0..Size[3] - 1
           f == [a \in Addr |-> <<<<a[1], a[2]>>, a[3]>>]
<1>3. IsFiniteSet(A \X B)
  BY <1>2, FS_Product
<1>4. IsFiniteSet((A \X B) \X C)
  BY <1>2, <1>3, FS_Product
<1>5. Addr = A \X B \X C
  BY DEF Addr
<1> HIDE DEF A, B, C
<1>6. f \in Injection(Addr, (A \X B) \X C)
  <2>1. f \in [Addr -> (A \X B) \X C]
    BY <1>5
  <2>2. ASSUME NEW a \in Addr, NEW b \in Addr, f[a] = f[b]  PROVE a = b
    <3>1. a = <<a[1], a[2], a[3]>> /\ b = <<b[1], b[2], b[3]>>
      BY <1>5
    <3>2. <<<<a[1], a[2]>>, a[3]>> = <<<<b[1], b[2]>>, b[3]>>
      BY <2>2
    <3>3. a[1] = b[1] /\ a[2] = b[2] /\ a[3] = b[3]
      BY <3>2
    <3> QED BY <3>1, <3>3
  <2> QED BY <2>1, <2>2 DEF Injection, IsInjective
<1> HIDE DEF f
<1> QED
  BY <1>4, <1>6, FS_Injection

(* The window is a box of the sides from its lower corner on.              *)
LEMMA InMapBounds ==
  ASSUME NEW g, g.origin \in Cell3, NEW c
  PROVE  IsInMap(g, c) <=> \A i \in Axis : /\ MinIdx(g.origin)[i] <= c[i]
                                           /\ c[i] <= MinIdx(g.origin)[i] + Size[i] - 1
<1>1. \A i \in Axis : MaxIdx(g.origin)[i] = MinIdx(g.origin)[i] + Size[i] - 1
  BY DEF MaxIdx
<1> QED
  BY <1>1 DEF IsInMap

(* Addresses and the cells of the window correspond.                       *)
LEMMA WindowCells ==
  ASSUME NEW g, g.origin \in Cell3
  PROVE  /\ \A a \in Addr : LET c == HashIdToGlobalIndex(g, a)
                            IN  c \in Cell3 /\ ToAddress(c) = a /\ IsInMap(g, c)
         /\ \A c \in Cell3 : IsInMap(g, c) => /\ ToAddress(c) \in Addr
                                              /\ HashIdToGlobalIndex(g, ToAddress(c)) = c
<1>1. ASSUME NEW a \in Addr, NEW c, c = HashIdToGlobalIndex(g, a)
      PROVE  c \in Cell3 /\ ToAddress(c) = a /\ IsInMap(g, c)
             /\ \A i \in Axis : MinIdx(g.origin)[i] \in Int
  <2>1. /\ c \in Cell3 /\ ToAddress(c) = a
        /\ \A i \in Axis : MinIdx(g.origin)[i] \in Int /\ MinIdx(g.origin)[i] <= c[i]
                         /\ c[i] <= MinIdx(g.origin)[i] + Size[i] - 1
    BY <1>1, CellAtAddress
  <2> QED BY <2>1, InMapBounds
<1>2. ASSUME NEW c \in Cell3, IsInMap(g, c)
      PROVE  ToAddress(c) \in Addr /\ HashIdToGlobalIndex(g, ToAddress(c)) = c
  <2> DEFINE a == ToAddress(c)
             d == HashIdToGlobalIndex(g, a)
             low == MinIdx(g.origin)
  <2>1. a \in Addr
    BY AddressTyped
  <2>2. d \in Cell3 /\ ToAddress(d) = a /\ IsInMap(g, d) /\ \A i \in Axis : low[i] \in Int
    BY <1>1, <2>1
  <2> HIDE DEF a, d
  <2>3. ASSUME NEW i \in Axis  PROVE d[i] = c[i]
    <3> DEFINE n == Size[i]
               lo == low[i]
               x == d[i]
               y == c[i]
    <3>1. n \in Nat \ {0} /\ lo \in Int /\ x \in Int /\ y \in Int
      BY <2>2, SizeTyped, CellIsFunction
    <3>2. lo <= x /\ x <= lo + n - 1 /\ lo <= y /\ y <= lo + n - 1
      BY <1>2, <2>2, InMapBounds
    <3>3. x % n = y % n
      <4>1. ToAddress(d)[i] = x % n
        BY <2>2, AddressTyped
      <4>2. ToAddress(c)[i] = y % n
        BY AddressTyped
      <4> QED BY <2>2, <4>1, <4>2 DEF a
    <3> HIDE DEF n, lo, x, y
    <3>4. x \in lo..lo + n - 1 /\ y \in lo..lo + n - 1
      BY <3>1, <3>2
    <3>5. x = y
      BY <3>1, <3>3, <3>4, ModEqual
    <3> QED BY <3>5 DEF x, y
  <2>4. d = c
    BY <2>2, <2>3, SameCell
  <2> QED BY <2>1, <2>4 DEF a, d
<1> QED
  BY <1>1, <1>2

(* The offsets of the inflation are differences of cells.                  *)
LEMMA OffsetsTyped == InflateOffsets \subseteq Cell3
<1>1. Radius2 \in Int /\ ZDown \in Int /\ ZUp \in Int
  <2>1. {Radius2, ZUp, ZDown, MaxPoints} \subseteq Nat
    BY GridAssumption
  <2> QED BY <2>1
<1>2. -Radius2..Radius2 \subseteq Int /\ -ZDown..ZUp \subseteq Int
  BY <1>1
<1> QED
  BY <1>2 DEF InflateOffsets, Cell3

LEMMA PlusTyped ==
  ASSUME NEW c \in Cell3, NEW d \in Cell3
  PROVE  /\ Plus(c, d) \in Cell3 /\ Difference(c, d) \in Cell3
         /\ Difference(Plus(c, d), c) = d /\ Plus(c, Difference(d, c)) = d
<1>1. c \in [Axis -> Int] /\ d \in [Axis -> Int]
  BY CellIsFunction
<1>2. ASSUME NEW x \in Cell3, NEW y \in Cell3
      PROVE  /\ Plus(x, y) \in Cell3 /\ \A i \in Axis : Plus(x, y)[i] = x[i] + y[i]
             /\ Difference(x, y) \in Cell3 /\ \A i \in Axis : Difference(x, y)[i] = x[i] - y[i]
  <2>1. x \in [Axis -> Int] /\ y \in [Axis -> Int]
    BY CellIsFunction
  <2>2. Plus(x, y) \in [Axis -> Int] /\ \A i \in Axis : Plus(x, y)[i] = x[i] + y[i]
    BY <2>1 DEF Plus
  <2>3. Difference(x, y) \in [Axis -> Int] /\ \A i \in Axis : Difference(x, y)[i] = x[i] - y[i]
    BY <2>1 DEF Difference
  <2> QED BY <2>2, <2>3, FunctionIsCell
<1>3. Difference(Plus(c, d), c) = d
  <2>1. \A i \in Axis : Difference(Plus(c, d), c)[i] = d[i]
    <3>1. ASSUME NEW i \in Axis  PROVE Difference(Plus(c, d), c)[i] = d[i]
      <4>1. Difference(Plus(c, d), c)[i] = Plus(c, d)[i] - c[i] /\ Plus(c, d)[i] = c[i] + d[i]
        BY <1>2
      <4> QED BY <1>1, <4>1
    <3> QED BY <3>1
  <2> QED BY <1>2, <2>1, SameCell
<1>4. Plus(c, Difference(d, c)) = d
  <2>1. \A i \in Axis : Plus(c, Difference(d, c))[i] = d[i]
    <3>1. ASSUME NEW i \in Axis  PROVE Plus(c, Difference(d, c))[i] = d[i]
      <4>1. Plus(c, Difference(d, c))[i] = c[i] + Difference(d, c)[i]
            /\ Difference(d, c)[i] = d[i] - c[i]
        BY <1>2
      <4> QED BY <1>1, <4>1
    <3> QED BY <3>1
  <2> QED BY <1>2, <2>1, SameCell
<1> QED
  BY <1>2, <1>3, <1>4

(* The addresses that the inflation of a cell reaches.                     *)
ReachedFrom(g, c) == {ToAddress(p) : p \in {q \in {Plus(c, d) : d \in InflateOffsets} : IsInMap(g, q)}}

LEMMA ReachedCells ==
  ASSUME NEW g, g.origin \in Cell3, NEW a \in Addr, NEW c \in Cell3
  PROVE  a \in ReachedFrom(g, c) <=> Difference(HashIdToGlobalIndex(g, a), c) \in InflateOffsets
<1> DEFINE q == HashIdToGlobalIndex(g, a)
<1>1. q \in Cell3 /\ ToAddress(q) = a /\ IsInMap(g, q)
  BY WindowCells
<1> HIDE DEF q
<1>2. ASSUME a \in ReachedFrom(g, c)  PROVE Difference(q, c) \in InflateOffsets
  <2>1. PICK d \in InflateOffsets : IsInMap(g, Plus(c, d)) /\ ToAddress(Plus(c, d)) = a
    BY <1>2 DEF ReachedFrom
  <2>2. d \in Cell3 /\ Plus(c, d) \in Cell3 /\ Difference(Plus(c, d), c) = d
    BY OffsetsTyped, PlusTyped
  <2>3. Plus(c, d) = q
    BY <2>1, <2>2, WindowCells DEF q
  <2> QED BY <2>2, <2>3
<1>3. ASSUME Difference(q, c) \in InflateOffsets  PROVE a \in ReachedFrom(g, c)
  <2>1. Plus(c, Difference(q, c)) = q
    BY <1>1, PlusTyped
  <2> QED BY <1>1, <1>3, <2>1 DEF ReachedFrom
<1> QED
  BY <1>2, <1>3 DEF q

(* The occupied cells of the window that inflate the one at an address, and *)
(* the counts that they cause: what NoGhostInflation says of a buffer.     *)
CausesAt(g, a) ==
  {b \in Addr : /\ Occupied(g.occ[b])
                /\ Difference(HashIdToGlobalIndex(g, a), HashIdToGlobalIndex(g, b)) \in InflateOffsets}
CountsCaused(g) == \A a \in Addr : g.cnt[a] <= Cardinality(CausesAt(g, a))

(* Sets of addresses are counted one by one.                               *)
LEMMA CausesFinite ==
  ASSUME NEW S, S \subseteq Addr
  PROVE  IsFiniteSet(S) /\ Cardinality(S) \in Nat
BY AddrFinite, FS_Subset, FS_CardinalityType

LEMMA OneMore ==
  ASSUME NEW S, NEW b \in Addr, S \subseteq Addr
  PROVE  /\ b \notin S => Cardinality(S \cup {b}) = Cardinality(S) + 1
         /\ b \in S => Cardinality(S \ {b}) = Cardinality(S) - 1
<1>1. IsFiniteSet(S)
  BY CausesFinite
<1>2. b \notin S => Cardinality(S \cup {b}) = Cardinality(S) + 1
  BY <1>1, FS_AddElement
<1>3. b \in S => Cardinality(S \ {b}) = Cardinality(S) - 1
  BY <1>1, FS_RemoveElement
<1> QED
  BY <1>2, <1>3

(* An update of a cell keeps the counts within their causes.               *)
LEMMA UpdateKeepsCounts ==
  ASSUME NEW g \in Grids, CountsCaused(g), NEW c \in Cell3, NEW level \in Unknown..LogMax,
         NEW h, h = ApplyOccupancyUpdate(g, c, level)
  PROVE  h \in Grids /\ CountsCaused(h) /\ h.origin = g.origin
<1> DEFINE b == ToAddress(c)
           set == [g EXCEPT !.occ[b] = level]
           was == Occupied(g.occ[b])
           becomes == Occupied(level)
<1>1. CASE ~IsInMap(g, c)
  <2>1. h = g
    BY <1>1 DEF ApplyOccupancyUpdate
  <2> QED BY <2>1
<1>2. CASE IsInMap(g, c)
  <2>1. /\ g.origin \in Cell3 /\ g.occ \in [Addr -> Unknown..LogMax] /\ g.cnt \in [Addr -> Nat]
        /\ b \in Addr /\ HashIdToGlobalIndex(g, b) = c
    BY <1>2, WindowCells DEF Grids
  <2>2. /\ set \in Grids /\ set.origin = g.origin /\ set.cnt = g.cnt
        /\ set.occ[b] = level /\ \A a \in Addr : a # b => set.occ[a] = g.occ[a]
    <3> HIDE DEF b
    <3> QED BY <2>1 DEF Grids
  <2>3. h = IF was = becomes THEN set
            ELSE UpdateInflation(set, c, IF was THEN -1 ELSE 1, {})
    BY <1>2 DEF ApplyOccupancyUpdate
  <2>4. was \in BOOLEAN /\ becomes \in BOOLEAN
    BY DEF Occupied
  <2> HIDE DEF set, b, was, becomes
  <2>5. h \in Grids /\ h.origin = g.origin /\ h.occ = set.occ
    BY <2>2, <2>3, InflationTyped
  <2>6. ASSUME NEW a \in Addr
        PROVE  CausesAt(h, a) = IF was = becomes THEN CausesAt(g, a)
                                ELSE IF a \notin ReachedFrom(g, c) THEN CausesAt(g, a)
                                ELSE IF was THEN CausesAt(g, a) \ {b} ELSE CausesAt(g, a) \cup {b}
    <3> DEFINE at(d) == Difference(HashIdToGlobalIndex(g, a), HashIdToGlobalIndex(g, d))
                          \in InflateOffsets
    <3>1. /\ CausesAt(g, a) = {d \in Addr : Occupied(g.occ[d]) /\ at(d)}
          /\ CausesAt(h, a) = {d \in Addr : Occupied(h.occ[d]) /\ at(d)}
      BY <2>5 DEF CausesAt, HashIdToGlobalIndex
    <3>2. at(b) <=> a \in ReachedFrom(g, c)
      BY <2>1, ReachedCells
    <3>3. /\ Occupied(g.occ[b]) = was /\ Occupied(h.occ[b]) = becomes
          /\ \A d \in Addr : d # b => Occupied(h.occ[d]) = Occupied(g.occ[d])
      BY <2>2, <2>5 DEF was, becomes
    <3> HIDE DEF at
    <3>4. CASE was = becomes
      <4>1. \A d \in Addr : Occupied(h.occ[d]) = Occupied(g.occ[d])
        BY <3>3, <3>4
      <4> QED BY <3>1, <3>4, <4>1
    <3>5. CASE was # becomes /\ ~at(b)
      <4>1. \A d \in Addr : Occupied(h.occ[d]) /\ at(d) <=> Occupied(g.occ[d]) /\ at(d)
        BY <3>3, <3>5
      <4> QED BY <3>1, <3>2, <3>5, <4>1
    <3>6. CASE was # becomes /\ at(b) /\ was
      <4>1. \A d \in Addr : Occupied(h.occ[d]) /\ at(d) <=> Occupied(g.occ[d]) /\ at(d) /\ d # b
        BY <2>4, <3>3, <3>6
      <4> QED BY <3>1, <3>2, <3>6, <4>1
    <3>7. CASE was # becomes /\ at(b) /\ ~was
      <4>1. \A d \in Addr : Occupied(h.occ[d]) /\ at(d) <=> (Occupied(g.occ[d]) /\ at(d)) \/ d = b
        BY <2>4, <3>3, <3>7
      <4> QED BY <2>1, <3>1, <3>2, <3>7, <4>1
    <3> QED BY <3>4, <3>5, <3>6, <3>7
  <2>7. ASSUME NEW a \in Addr, a \in ReachedFrom(g, c)
        PROVE  b \in CausesAt(g, a) <=> was
    <3>1. Difference(HashIdToGlobalIndex(g, a), HashIdToGlobalIndex(g, b)) \in InflateOffsets
      BY <2>1, <2>7, ReachedCells
    <3> QED BY <2>1, <3>1 DEF CausesAt, was
  <2>8. ASSUME NEW a \in Addr
        PROVE  h.cnt[a] = IF was # becomes /\ a \in ReachedFrom(g, c)
                          THEN Max2(0, g.cnt[a] + (IF was THEN -1 ELSE 1)) ELSE g.cnt[a]
    <3>1. CASE was = becomes
      BY <2>2, <2>3, <3>1
    <3>2. CASE was # becomes
      <4>1. h = UpdateInflation(set, c, IF was THEN -1 ELSE 1, {})
        BY <2>3, <3>2
      <4>2. ReachedFrom(set, c) = ReachedFrom(g, c)
        BY <2>2 DEF ReachedFrom, IsInMap
      <4>3. h = [set EXCEPT !.cnt = [d \in Addr |->
                  IF d \in ReachedFrom(set, c) \ {}
                  THEN Max2(0, set.cnt[d] + (IF was THEN -1 ELSE 1)) ELSE set.cnt[d]]]
        BY <4>1 DEF UpdateInflation, ReachedFrom
      <4>4. h.cnt = [d \in Addr |->
                  IF d \in ReachedFrom(set, c) \ {}
                  THEN Max2(0, set.cnt[d] + (IF was THEN -1 ELSE 1)) ELSE set.cnt[d]]
        <5>1. "cnt" \in DOMAIN set
          BY <2>2 DEF Grids
        <5> QED BY <4>3, <5>1
      <4> QED BY <2>2, <3>2, <4>2, <4>4
    <3> QED BY <3>1, <3>2
  <2>9. ASSUME NEW a \in Addr  PROVE h.cnt[a] <= Cardinality(CausesAt(h, a))
    <3> DEFINE S == CausesAt(g, a)
               k == Cardinality(S)
               n == g.cnt[a]
    <3>1. S \subseteq Addr
      BY DEF CausesAt
    <3> HIDE DEF S
    <3>2. k \in Nat /\ n \in Nat
      BY <2>1, <3>1, CausesFinite
    <3>3. n <= k
      BY DEF CountsCaused, S
    <3>4. CASE ~(was # becomes /\ a \in ReachedFrom(g, c))
      <4>1. h.cnt[a] = n /\ CausesAt(h, a) = S
        BY <2>6, <2>8, <3>4 DEF S
      <4> QED BY <3>3, <4>1
    <3>5. CASE was # becomes /\ a \in ReachedFrom(g, c) /\ was
      <4>1. h.cnt[a] = Max2(0, n + (-1)) /\ CausesAt(h, a) = S \ {b} /\ b \in S
        BY <2>6, <2>7, <2>8, <3>5 DEF S
      <4>2. Cardinality(S \ {b}) = k - 1 /\ k - 1 \in Nat
        <5>1. Cardinality(S \ {b}) = k - 1
          BY <2>1, <3>1, <4>1, OneMore
        <5>2. Cardinality(S \ {b}) \in Nat
          <6>1. S \ {b} \subseteq Addr
            BY <3>1
          <6> QED BY <6>1, CausesFinite
        <5> QED BY <5>1, <5>2
      <4> HIDE DEF k, n
      <4>3. Max2(0, n + (-1)) <= k - 1
        BY <3>2, <3>3, <4>2 DEF Max2
      <4> QED BY <4>1, <4>2, <4>3
    <3>6. CASE was # becomes /\ a \in ReachedFrom(g, c) /\ ~was
      <4>1. h.cnt[a] = Max2(0, n + 1) /\ CausesAt(h, a) = S \cup {b} /\ b \notin S
        BY <2>6, <2>7, <2>8, <3>6 DEF S
      <4>2. Cardinality(S \cup {b}) = k + 1
        BY <2>1, <3>1, <4>1, OneMore
      <4> HIDE DEF k, n
      <4>3. Max2(0, n + 1) <= k + 1
        BY <3>2, <3>3 DEF Max2
      <4> QED BY <4>1, <4>2, <4>3
    <3> QED BY <3>4, <3>5, <3>6
  <2> QED BY <2>5, <2>9 DEF CountsCaused
<1> QED
  BY <1>1, <1>2

(* The inflation of a cell leaves the counts with it, within the causes    *)
(* that are still to be taken away.                                        *)
Dropped(g, ignored, a, h) ==
  IF Occupied(h.occ[a]) THEN UpdateInflation(h, HashIdToGlobalIndex(g, a), -1, ignored) ELSE h

LEMMA DroppedKeeps ==
  ASSUME NEW g \in Grids, NEW ignored, NEW x \in Addr, NEW s, x \notin s, NEW h \in Grids,
         h.origin = g.origin, h.occ = g.occ,
         \A a \in Addr \ ignored : h.cnt[a] <= Cardinality(CausesAt(g, a) \ s),
         NEW k, k = Dropped(g, ignored, x, h)
  PROVE  /\ k \in Grids /\ k.origin = g.origin /\ k.occ = g.occ
         /\ \A a \in Addr \ ignored : k.cnt[a] <= Cardinality(CausesAt(g, a) \ (s \cup {x}))
<1> DEFINE c == HashIdToGlobalIndex(g, x)
<1>1. g.origin \in Cell3 /\ c \in Cell3 /\ h.cnt \in [Addr -> Nat]
  BY WindowCells DEF Grids
<1>2. \A a \in Addr : x \in CausesAt(g, a) <=> Occupied(g.occ[x]) /\ a \in ReachedFrom(g, c)
  BY <1>1, ReachedCells DEF CausesAt
<1> HIDE DEF c
<1>3. CASE ~Occupied(g.occ[x])
  <2>1. k = h
    BY <1>3 DEF Dropped
  <2>2. \A a \in Addr : CausesAt(g, a) \ (s \cup {x}) = CausesAt(g, a) \ s
    BY <1>2, <1>3
  <2> QED BY <2>1, <2>2
<1>4. CASE Occupied(g.occ[x])
  <2>1. k = UpdateInflation(h, c, -1, ignored)
    BY <1>4 DEF Dropped, c
  <2>2. k \in Grids /\ k.origin = g.origin /\ k.occ = g.occ
    BY <2>1, InflationTyped
  <2>3. ReachedFrom(h, c) = ReachedFrom(g, c)
    BY DEF ReachedFrom, IsInMap
  <2>4. k.cnt = [a \in Addr |-> IF a \in ReachedFrom(h, c) \ ignored
                                THEN Max2(0, h.cnt[a] + (-1)) ELSE h.cnt[a]]
    <3>1. "cnt" \in DOMAIN h
      BY DEF Grids
    <3> QED BY <2>1, <3>1 DEF UpdateInflation, ReachedFrom
  <2>5. ASSUME NEW a \in Addr \ ignored
        PROVE  k.cnt[a] <= Cardinality(CausesAt(g, a) \ (s \cup {x}))
    <3> DEFINE S == CausesAt(g, a) \ s
               n == h.cnt[a]
    <3>1. S \subseteq Addr /\ CausesAt(g, a) \ (s \cup {x}) = S \ {x}
      BY DEF CausesAt
    <3>2. x \in S <=> a \in ReachedFrom(g, c)
      BY <1>2, <1>4
    <3> HIDE DEF S
    <3>3. n <= Cardinality(S) /\ n \in Nat /\ Cardinality(S) \in Nat
      BY <1>1, <3>1, CausesFinite DEF S
    <3>4. CASE x \in S
      <4>1. Cardinality(S \ {x}) = Cardinality(S) - 1
        BY <3>1, <3>4, OneMore
      <4>2. S \ {x} \subseteq Addr
        BY <3>1
      <4>3. Cardinality(S \ {x}) \in Nat
        BY <4>2, CausesFinite
      <4>4. k.cnt[a] = Max2(0, n + (-1))
        BY <2>3, <2>4, <3>2, <3>4
      <4> HIDE DEF n
      <4>5. Max2(0, n + (-1)) <= Cardinality(S) - 1
        BY <3>3, <4>1, <4>3 DEF Max2
      <4> QED BY <3>1, <4>1, <4>4, <4>5
    <3>5. CASE x \notin S
      <4>1. S \ {x} = S /\ k.cnt[a] = n
        BY <2>3, <2>4, <3>2, <3>5
      <4> QED BY <3>1, <3>3, <4>1
    <3> QED BY <3>4, <3>5
  <2> QED BY <2>2, <2>5
<1> QED
  BY <1>3, <1>4

(* Taking the inflation of a set of cells away, in whatever order the fold *)
(* takes them.                                                             *)
LEMMA WithoutKeeps ==
  ASSUME NEW g \in Grids, CountsCaused(g), NEW D \in SUBSET Addr, NEW ignored, NEW w,
         w = WithoutInflationOf(g, D, ignored)
  PROVE  /\ w \in Grids /\ w.origin = g.origin /\ w.occ = g.occ
         /\ \A a \in Addr \ ignored : w.cnt[a] <= Cardinality(CausesAt(g, a) \ D)
<1> DEFINE Y == {h \in Grids : h.origin = g.origin /\ h.occ = g.occ}
           Some(s) == CHOOSE x \in s : TRUE
           Solves(f) == f = [s \in SUBSET D |->
                               IF s = {} THEN g
                               ELSE Dropped(g, ignored, Some(s), f[s \ {Some(s)}])]
           iter == CHOOSE f : Solves(f)
           ch   == [s \in (SUBSET D) \ {{}} |-> Some(s)]
           step == [z \in D \X Y |-> Dropped(g, ignored, z[1], z[2])]
<1>1. w = iter[D]
  BY DEF WithoutInflationOf, FoldSet, MapThenFoldSet, Dropped
<1>2. IsFiniteSet(D)
  BY CausesFinite
<1>3. \A s \in SUBSET D : s # {} => Some(s) \in s
  OBVIOUS
<1>4. ASSUME NEW h \in Y, NEW x \in D  PROVE Dropped(g, ignored, x, h) \in Y
  BY InflationTyped DEF Dropped
<1>5. \E f : Solves(f)
  <2>1. ch \in [(SUBSET D) \ {{}} -> D] /\ \A s \in SUBSET D : s # {} => ch[s] \in s
    BY <1>3
  <2>2. step \in [D \X Y -> Y]
    BY <1>4
  <2>3. g \in Y
    OBVIOUS
  <2> HIDE DEF Y, ch, step, Some
  <2>4. PICK f \in [SUBSET D -> Y] : Recurses(f, D, g, ch, step)
    BY <1>2, <2>1, <2>2, <2>3, SubsetRecursion
  <2>5. \A s \in SUBSET D : f[s] = IF s = {} THEN g ELSE step[<<ch[s], f[s \ {ch[s]}]>>]
    BY <2>4 DEF Recurses
  <2>6. ASSUME NEW s \in SUBSET D, s # {}
        PROVE  f[s] = Dropped(g, ignored, Some(s), f[s \ {Some(s)}])
    <3>1. ch[s] = Some(s) /\ Some(s) \in D
      BY <1>3, <2>6 DEF ch
    <3>2. f[s \ {Some(s)}] \in Y
      OBVIOUS
    <3>3. step[<<Some(s), f[s \ {Some(s)}]>>] = Dropped(g, ignored, Some(s), f[s \ {Some(s)}])
      BY <3>1, <3>2 DEF step
    <3> QED BY <2>5, <2>6, <3>1, <3>3
  <2>7. \A s \in SUBSET D :
          f[s] = IF s = {} THEN g ELSE Dropped(g, ignored, Some(s), f[s \ {Some(s)}])
    BY <2>5, <2>6
  <2>8. Solves(f)
    BY <2>7
  <2> QED BY <2>8
<1>6. Solves(iter)
  <2> HIDE DEF Solves
  <2> QED BY <1>5
<1>7. \A s \in SUBSET D :
        iter[s] = IF s = {} THEN g ELSE Dropped(g, ignored, Some(s), iter[s \ {Some(s)}])
  <2> HIDE DEF iter, Some
  <2> QED BY <1>6
<1> HIDE DEF iter, Solves, Some
<1> DEFINE Good(s) == /\ iter[s] \in Y
                      /\ \A a \in Addr \ ignored : iter[s].cnt[a] <= Cardinality(CausesAt(g, a) \ s)
           G == {s \in SUBSET D : Good(s)}
<1>8. {} \in G
  <2>1. iter[{}] = g
    BY <1>7
  <2>2. \A a \in Addr : CausesAt(g, a) \ {} = CausesAt(g, a)
    OBVIOUS
  <2> QED BY <2>1, <2>2 DEF CountsCaused
<1>9. ASSUME NEW s \in SUBSET D, s # {}  PROVE \E x \in s : s \ {x} \in G => s \in G
  <2> DEFINE x == Some(s)
             t == s \ {x}
  <2>1. x \in s /\ x \in Addr /\ x \notin t /\ t \cup {x} = s
    BY <1>3, <1>9
  <2>2. ASSUME t \in G  PROVE s \in G
    <3> DEFINE h == iter[t]
    <3>1. /\ h \in Grids /\ h.origin = g.origin /\ h.occ = g.occ
          /\ \A a \in Addr \ ignored : h.cnt[a] <= Cardinality(CausesAt(g, a) \ t)
      BY <2>2
    <3>2. iter[s] = Dropped(g, ignored, x, h)
      BY <1>7, <1>9
    <3> HIDE DEF h, t, x
    <3>3. /\ iter[s] \in Grids /\ iter[s].origin = g.origin /\ iter[s].occ = g.occ
          /\ \A a \in Addr \ ignored : iter[s].cnt[a] <= Cardinality(CausesAt(g, a) \ (t \cup {x}))
      BY <2>1, <3>1, <3>2, DroppedKeeps
    <3> QED BY <2>1, <3>3
  <2> QED BY <2>1, <2>2
<1>10. D \in G
  <2> HIDE DEF G
  <2> QED BY <1>2, <1>8, <1>9, SetInduction
<1> QED
  BY <1>1, <1>10

(* More causes, higher counts.                                             *)
LEMMA CausesGrow ==
  ASSUME NEW S, NEW T, S \subseteq T, T \subseteq Addr
  PROVE  Cardinality(S) <= Cardinality(T) /\ Cardinality(S) \in Nat /\ Cardinality(T) \in Nat
<1>1. IsFiniteSet(T) /\ S \in SUBSET T /\ S \subseteq Addr
  BY CausesFinite
<1> QED
  BY <1>1, CausesFinite, FS_Subset

(* The empty map.                                                          *)
LEMMA EmptyTyped ==
  ASSUME NEW center \in Cell3, NEW n, n = EmptyGrid(center)
  PROVE  /\ n \in Grids /\ CountsCaused(n) /\ n.origin = center
         /\ \A a \in Addr : n.occ[a] = Unknown
<1>1. LogMax \in Nat
  BY GridAssumption
<1>2. Unknown \in Unknown..LogMax
  BY <1>1 DEF Unknown
<1>3. n \in Grids /\ n.origin = center /\ \A a \in Addr : n.occ[a] = Unknown /\ n.cnt[a] = 0
  BY <1>2 DEF EmptyGrid, Grids
<1>4. ASSUME NEW a \in Addr  PROVE n.cnt[a] <= Cardinality(CausesAt(n, a))
  <2>1. Cardinality(CausesAt(n, a)) \in Nat
    <3>1. CausesAt(n, a) \subseteq Addr
      BY DEF CausesAt
    <3> QED BY <3>1, CausesFinite
  <2> QED BY <1>3, <2>1
<1> QED
  BY <1>3, <1>4 DEF CountsCaused

(* A slide keeps the levels of the cells that stay and knows nothing of    *)
(* those that enter; the counts stay within their causes.                  *)
LEMMA SlideKeeps ==
  ASSUME NEW g \in Grids, CountsCaused(g), NEW center \in Cell3, NEW n, n = Slid(g, center)
  PROVE  /\ n \in Grids /\ CountsCaused(n)
         /\ \A c \in Window(n) :
              Level(n, c) = IF c \in Window(g) THEN Level(g, c) ELSE Unknown
<1> DEFINE shift == Difference(center, g.origin)
           cleared == Cleared(g, shift)
           kept == WithoutInflationOf(g, cleared, cleared)
           cell(a) == HashIdToGlobalIndex(g, a)
           low == MinIdx(g.origin)
<1>1. g.origin \in Cell3 /\ g.occ \in [Addr -> Unknown..LogMax] /\ g.cnt \in [Addr -> Nat]
  BY DEF Grids
<1>2. \A c \in Window(g) : c \in Cell3 /\ IsInMap(g, c)
  BY <1>1, WindowCells DEF Window
<1>3. \A a \in Addr : cell(a) \in Cell3 /\ ToAddress(cell(a)) = a /\ IsInMap(g, cell(a))
                      /\ cell(a) \in Window(g) /\ Level(g, cell(a)) = g.occ[a]
  BY <1>1, WindowCells DEF Window, Level
<1>4. ASSUME NEW i \in Axis
      PROVE  /\ low[i] \in Int /\ shift[i] \in Int /\ Size[i] \in Nat
             /\ MinIdx(center)[i] = low[i] + shift[i]
             /\ MaxIdx(g.origin)[i] = low[i] + Size[i] - 1
  <2>1. /\ low[i] = g.origin[i] - Size[i] \div 2 /\ MinIdx(center)[i] = center[i] - Size[i] \div 2
        /\ shift[i] = center[i] - g.origin[i] /\ MaxIdx(g.origin)[i] = low[i] + Size[i] - 1
    BY DEF MinIdx, MaxIdx, Difference
  <2>2. g.origin[i] \in Int /\ center[i] \in Int
    BY <1>1, CellIsFunction
  <2> QED BY <2>1, <2>2, SizeTyped
<1>5. CASE \A i \in Axis : Dist(shift[i]) < SlideThresh
  <2>1. n = g
    BY <1>5 DEF Slid
  <2> QED BY <2>1
<1>6. CASE /\ ~(\A i \in Axis : Dist(shift[i]) < SlideThresh)
           /\ \E i \in Axis : Dist(shift[i]) >= Size[i]
  <2>1. n = EmptyGrid(center)
    BY <1>6 DEF Slid
  <2>2. n \in Grids /\ CountsCaused(n) /\ n.origin = center /\ \A a \in Addr : n.occ[a] = Unknown
    BY <2>1, EmptyTyped
  <2>3. PICK i \in Axis : Dist(shift[i]) >= Size[i]
    BY <1>6
  <2>4. ASSUME NEW c \in Cell3, IsInMap(g, c), IsInMap(n, c)  PROVE FALSE
    <3>1. low[i] <= c[i] /\ c[i] <= low[i] + Size[i] - 1
      BY <1>1, <2>4, InMapBounds
    <3>2. MinIdx(center)[i] <= c[i] /\ c[i] <= MinIdx(center)[i] + Size[i] - 1
      BY <2>2, <2>4, InMapBounds
    <3>3. c[i] \in Int
      BY CellIsFunction
    <3> HIDE DEF low, shift
    <3> QED BY <1>4, <2>3, <3>1, <3>2, <3>3 DEF Dist
  <2>5. ASSUME NEW c \in Window(n)
        PROVE  Level(n, c) = IF c \in Window(g) THEN Level(g, c) ELSE Unknown
    <3>1. c \in Cell3 /\ IsInMap(n, c) /\ ToAddress(c) \in Addr
      BY <2>2, WindowCells DEF Window
    <3>2. c \notin Window(g)
      BY <1>2, <2>4, <3>1
    <3> QED BY <2>2, <3>1, <3>2 DEF Level
  <2> QED BY <2>2, <2>5
<1>7. CASE /\ ~(\A i \in Axis : Dist(shift[i]) < SlideThresh)
           /\ ~(\E i \in Axis : Dist(shift[i]) >= Size[i])
  <2>1. n = [origin |-> center,
             occ |-> [a \in Addr |-> IF a \in cleared THEN Unknown ELSE kept.occ[a]],
             cnt |-> [a \in Addr |-> IF a \in cleared THEN 0 ELSE kept.cnt[a]]]
    BY <1>7 DEF Slid
  <2>2. cleared \in SUBSET Addr
    BY DEF Cleared
  <2>3. /\ kept \in Grids /\ kept.occ = g.occ
        /\ \A a \in Addr \ cleared : kept.cnt[a] <= Cardinality(CausesAt(g, a) \ cleared)
    <3>1. kept = WithoutInflationOf(g, cleared, cleared)
      OBVIOUS
    <3> HIDE DEF cleared, kept
    <3> QED BY <2>2, <3>1, WithoutKeeps
  <2>4. \A a \in Addr : a \in cleared <=>
          \E i \in Axis : \/ cell(a)[i] < low[i] + shift[i]
                          \/ cell(a)[i] > MaxIdx(g.origin)[i] + shift[i]
    BY DEF Cleared
  <2> HIDE DEF cleared, kept, low, shift
  <2>5. /\ n.origin = center
        /\ \A a \in Addr : n.occ[a] = IF a \in cleared THEN Unknown ELSE g.occ[a]
        /\ \A a \in Addr : n.cnt[a] = IF a \in cleared THEN 0 ELSE kept.cnt[a]
    BY <2>1, <2>3
  <2>6. n \in Grids
    <3>1. LogMax \in Nat
      BY GridAssumption
    <3>2. Unknown \in Unknown..LogMax
      BY <3>1 DEF Unknown
    <3>3. kept.cnt \in [Addr -> Nat] /\ kept.occ \in [Addr -> Unknown..LogMax]
      BY <2>3 DEF Grids
    <3> QED BY <2>1, <3>2, <3>3 DEF Grids
  <2>7. ASSUME NEW a \in Addr
        PROVE  /\ HashIdToGlobalIndex(n, a) \in Cell3 /\ ToAddress(HashIdToGlobalIndex(n, a)) = a
               /\ a \notin cleared => HashIdToGlobalIndex(n, a) = cell(a)
               /\ a \in cleared => HashIdToGlobalIndex(n, a) \notin Window(g)
    <3> DEFINE q == HashIdToGlobalIndex(n, a)
               c == cell(a)
    <3>1. q \in Cell3 /\ ToAddress(q) = a /\ IsInMap(n, q)
      BY <2>5, WindowCells
    <3>2. c \in Cell3 /\ ToAddress(c) = a
      BY <1>3
    <3>3. a \notin cleared <=> IsInMap(n, c)
      <4> DEFINE m == MinIdx(center)
      <4>0. IsInMap(n, c) <=> \A i \in Axis : m[i] <= c[i] /\ c[i] <= m[i] + Size[i] - 1
        BY <2>5, InMapBounds
      <4>1. a \in cleared <=> \E i \in Axis : \/ c[i] < low[i] + shift[i]
                                              \/ c[i] > MaxIdx(g.origin)[i] + shift[i]
        BY <2>4
      <4>2. \A i \in Axis : c[i] \in Int
        BY <3>2, CellIsFunction
      <4> HIDE DEF c, m
      <4>3. ASSUME NEW i \in Axis
            PROVE  /\ ~(c[i] < low[i] + shift[i]) <=> m[i] <= c[i]
                   /\ ~(c[i] > MaxIdx(g.origin)[i] + shift[i]) <=> c[i] <= m[i] + Size[i] - 1
        BY <1>4, <4>2 DEF m
      <4> QED BY <4>0, <4>1, <4>3
    <3> HIDE DEF q, c
    <3>4. IsInMap(n, c) => q = c
      BY <2>5, <3>2, WindowCells DEF q
    <3>5. q \in Window(g) => q = c
      <4>1. q \in Window(g) => IsInMap(g, q)
        BY <1>2
      <4>2. IsInMap(g, q) => HashIdToGlobalIndex(g, ToAddress(q)) = q
        BY <1>1, <3>1, WindowCells
      <4> QED BY <3>1, <4>1, <4>2 DEF c
    <3>6. a \in cleared => q \notin Window(g)
      BY <3>1, <3>3, <3>5
    <3> QED BY <3>1, <3>3, <3>4, <3>6 DEF q, c
  <2>8. ASSUME NEW c \in Window(n)
        PROVE  Level(n, c) = IF c \in Window(g) THEN Level(g, c) ELSE Unknown
    <3>1. PICK a \in Addr : c = HashIdToGlobalIndex(n, a)
      BY DEF Window
    <3>2. Level(n, c) = n.occ[a]
      BY <2>7, <3>1 DEF Level
    <3>3. CASE a \in cleared
      BY <2>5, <2>7, <3>1, <3>2, <3>3
    <3>4. CASE a \notin cleared
      <4>1. c \in Window(g) /\ Level(g, c) = g.occ[a]
        BY <1>3, <2>7, <3>1, <3>4
      <4> QED BY <2>5, <3>2, <3>4, <4>1
    <3> QED BY <3>3, <3>4
  <2>9. ASSUME NEW a \in Addr  PROVE n.cnt[a] <= Cardinality(CausesAt(n, a))
    <3>1. CausesAt(n, a) \subseteq Addr
      BY DEF CausesAt
    <3>2. CASE a \in cleared
      <4>1. Cardinality(CausesAt(n, a)) \in Nat
        BY <3>1, CausesFinite
      <4> QED BY <2>5, <3>2, <4>1
    <3>3. CASE a \notin cleared
      <4>1. CausesAt(g, a) \ cleared \subseteq CausesAt(n, a)
        <5>1. ASSUME NEW b \in CausesAt(g, a), b \notin cleared  PROVE b \in CausesAt(n, a)
          <6>1. /\ b \in Addr /\ Occupied(g.occ[b])
                /\ Difference(cell(a), cell(b)) \in InflateOffsets
            BY DEF CausesAt
          <6>2. /\ HashIdToGlobalIndex(n, a) = cell(a) /\ HashIdToGlobalIndex(n, b) = cell(b)
                /\ n.occ[b] = g.occ[b]
            BY <2>5, <2>7, <3>3, <5>1, <6>1
          <6> QED BY <6>1, <6>2 DEF CausesAt
        <5> QED BY <5>1
      <4>2. Cardinality(CausesAt(g, a) \ cleared) <= Cardinality(CausesAt(n, a))
            /\ Cardinality(CausesAt(g, a) \ cleared) \in Nat /\ Cardinality(CausesAt(n, a)) \in Nat
        BY <3>1, <4>1, CausesGrow
      <4>3. n.cnt[a] <= Cardinality(CausesAt(g, a) \ cleared) /\ n.cnt[a] \in Nat
        <5>1. n.cnt[a] = kept.cnt[a]
          BY <2>5, <3>3
        <5>2. kept.cnt[a] \in Nat
          BY <2>3 DEF Grids
        <5> QED BY <2>3, <3>3, <5>1, <5>2
      <4> QED BY <4>2, <4>3
    <3> QED BY <3>2, <3>3
  <2> QED BY <2>6, <2>8, <2>9 DEF CountsCaused
<1> QED
  BY <1>5, <1>6, <1>7

(* The fusion of a round, cell by cell, keeps the counts too.              *)
LEMMA FusedKeeps ==
  ASSUME NEW g \in Grids, CountsCaused(g), NEW pos, NEW t, NEW a \in Addr,
         NEW h, h = Fused(g, pos, t, a)
  PROVE  h \in Grids /\ CountsCaused(h)
<1> DEFINE c == HashIdToGlobalIndex(g, a)
           step == IF t.hit[a] >= t.all[a] - t.hit[a] THEN HitStep ELSE -MissStep
           here == IF InLocal(g, pos, c) THEN g ELSE ApplyOccupancyUpdate(g, c, 0)
           level == Min2(Max2(0, Max2(0, here.occ[a]) + step), LogMax)
<1>1. LogMax \in Nat /\ HitStep \in Int /\ -MissStep \in Int
  <2>1. {HitStep, MissStep, LogMax, SlideThresh, RevModulus} \subseteq Nat \ {0}
    BY GridAssumption
  <2> QED BY <2>1
<1>2. c \in Cell3
  BY WindowCells DEF Grids
<1>3. \A x \in 0..LogMax : x \in Unknown..LogMax
  BY <1>1 DEF Unknown
<1>4. here \in Grids /\ CountsCaused(here)
  <2>1. 0 \in Unknown..LogMax
    BY <1>1 DEF Unknown
  <2> HIDE DEF c
  <2> QED BY <1>2, <2>1, UpdateKeepsCounts
<1>5. h = IF t.all[a] = 0 \/ (step > 0 /\ g.occ[a] = LogMax) THEN g
          ELSE ApplyOccupancyUpdate(here, c, level)
  BY DEF Fused
<1>6. step \in Int
  BY <1>1
<1> HIDE DEF here, step, c
<1>7. level \in 0..LogMax
  <2>1. here.occ[a] \in Int
    <3>1. here.occ \in [Addr -> Unknown..LogMax]
      BY <1>4 DEF Grids
    <3> QED BY <1>1, <3>1 DEF Unknown
  <2> QED BY <1>1, <1>6, <2>1 DEF Min2, Max2
<1>8. level \in Unknown..LogMax
  BY <1>3, <1>7
<1> HIDE DEF level
<1>9. ApplyOccupancyUpdate(here, c, level) \in Grids /\ CountsCaused(ApplyOccupancyUpdate(here, c, level))
  BY <1>2, <1>4, <1>8, UpdateKeepsCounts
<1> QED
  BY <1>5, <1>9

(* A round of rays, whatever points and marks it works on.                 *)
LEMMA RaycastKeeps ==
  ASSUME NEW g \in Grids, CountsCaused(g), NEW pos \in Cell3, NEW pts, NEW marks,
         NEW w, w = RaycastProcess(g, pos, pts, marks)
  PROVE  w \in Grids /\ CountsCaused(w)
<1> DEFINE slid == Slid(g, pos)
           t == FoldLeft(LAMBDA s, p : TallyPoint(slid, pos, s, p), NoTally(marks), pts)
           Y == {h \in Grids : CountsCaused(h)}
           Some(s) == CHOOSE x \in s : TRUE
           Solves(f) == f = [s \in SUBSET Addr |->
                               IF s = {} THEN slid
                               ELSE Fused(f[s \ {Some(s)}], pos, t, Some(s))]
           iter == CHOOSE f : Solves(f)
           ch   == [s \in (SUBSET Addr) \ {{}} |-> Some(s)]
           step == [z \in Addr \X Y |-> Fused(z[2], pos, t, z[1])]
<1>1. w = IF pts = << >> THEN g ELSE iter[Addr]
  BY DEF RaycastProcess, FoldSet, MapThenFoldSet
<1>2. slid \in Y
  BY SlideKeeps
<1> HIDE DEF slid, t
<1>3. \A s \in SUBSET Addr : s # {} => Some(s) \in s
  OBVIOUS
<1>4. ASSUME NEW h \in Y, NEW x \in Addr  PROVE Fused(h, pos, t, x) \in Y
  BY FusedKeeps
<1>5. \E f : Solves(f)
  <2>1. /\ ch \in [(SUBSET Addr) \ {{}} -> Addr]
        /\ \A s \in SUBSET Addr : s # {} => ch[s] \in s
    BY <1>3
  <2>2. step \in [Addr \X Y -> Y]
    BY <1>4
  <2> HIDE DEF Y, ch, step, Some
  <2>4. PICK f \in [SUBSET Addr -> Y] : Recurses(f, Addr, slid, ch, step)
    BY <1>2, <2>1, <2>2, AddrFinite, SubsetRecursion
  <2>5. \A s \in SUBSET Addr : f[s] = IF s = {} THEN slid ELSE step[<<ch[s], f[s \ {ch[s]}]>>]
    BY <2>4 DEF Recurses
  <2>6. ASSUME NEW s \in SUBSET Addr, s # {}
        PROVE  f[s] = Fused(f[s \ {Some(s)}], pos, t, Some(s))
    <3>1. ch[s] = Some(s) /\ Some(s) \in Addr
      BY <1>3, <2>6 DEF ch
    <3>2. f[s \ {Some(s)}] \in Y
      OBVIOUS
    <3>3. step[<<Some(s), f[s \ {Some(s)}]>>] = Fused(f[s \ {Some(s)}], pos, t, Some(s))
      BY <3>1, <3>2 DEF step
    <3> QED BY <2>5, <2>6, <3>1, <3>3
  <2>7. \A s \in SUBSET Addr :
          f[s] = IF s = {} THEN slid ELSE Fused(f[s \ {Some(s)}], pos, t, Some(s))
    BY <2>5, <2>6
  <2>8. Solves(f)
    BY <2>7
  <2> QED BY <2>8
<1>6. Solves(iter)
  <2> HIDE DEF Solves
  <2> QED BY <1>5
<1>7. \A s \in SUBSET Addr :
        iter[s] = IF s = {} THEN slid ELSE Fused(iter[s \ {Some(s)}], pos, t, Some(s))
  <2> HIDE DEF iter, Some
  <2> QED BY <1>6
<1> HIDE DEF iter, Solves, Some, Y
<1> DEFINE G == {s \in SUBSET Addr : iter[s] \in Y}
<1>8. {} \in G
  BY <1>2, <1>7
<1>9. ASSUME NEW s \in SUBSET Addr, s # {}  PROVE \E x \in s : s \ {x} \in G => s \in G
  <2>1. Some(s) \in s /\ Some(s) \in Addr
    BY <1>3, <1>9
  <2>2. ASSUME s \ {Some(s)} \in G  PROVE s \in G
    <3>1. iter[s \ {Some(s)}] \in Y
      BY <2>2
    <3> QED BY <1>4, <1>7, <1>9, <2>1, <3>1
  <2> QED BY <2>1, <2>2
<1>10. Addr \in G
  <2>1. \A s \in SUBSET Addr : s # {} => \E x \in s : s \ {x} \in G => s \in G
    <3> HIDE DEF G
    <3> QED BY <1>9
  <2>2. \A s \in SUBSET Addr : s \in G
    <3> HIDE DEF G
    <3> QED BY <1>8, <2>1, AddrFinite, SetInduction
  <2> HIDE DEF G
  <2> QED BY <2>2
<1> QED
  BY <1>1, <1>10 DEF Y

(* A reset of a box takes the inflation of its cells away with them.       *)
LEMMA ResetKeeps ==
  ASSUME NEW g \in Grids, CountsCaused(g), NEW low, NEW high, NEW n, n = ResetBox(g, low, high)
  PROVE  n \in Grids /\ CountsCaused(n)
<1> DEFINE box == {a \in Addr : LET c == HashIdToGlobalIndex(g, a)
                                IN  \A i \in Axis : BoundIndex(g, low)[i] <= c[i]
                                                 /\ c[i] <= BoundIndex(g, high)[i]}
           kept == WithoutInflationOf(g, box, {})
<1>1. n = [kept EXCEPT !.occ = [a \in Addr |-> IF a \in box THEN Unknown ELSE @[a]]]
  BY DEF ResetBox
<1>2. /\ kept \in Grids /\ kept.origin = g.origin /\ kept.occ = g.occ /\ box \in SUBSET Addr
      /\ \A a \in Addr : kept.cnt[a] <= Cardinality(CausesAt(g, a) \ box)
  <2>1. box \in SUBSET Addr
    OBVIOUS
  <2> HIDE DEF box
  <2>2. \A D \in SUBSET Addr : \A ignored, w : w = WithoutInflationOf(g, D, ignored) =>
          /\ w \in Grids /\ w.origin = g.origin /\ w.occ = g.occ
          /\ \A a \in Addr \ ignored : w.cnt[a] <= Cardinality(CausesAt(g, a) \ D)
    BY WithoutKeeps
  <2>3. /\ kept \in Grids /\ kept.origin = g.origin /\ kept.occ = g.occ
        /\ \A a \in Addr \ {} : kept.cnt[a] <= Cardinality(CausesAt(g, a) \ box)
    BY <2>1, <2>2
  <2> QED BY <2>1, <2>3
<1> HIDE DEF box, kept
<1>3. Unknown \in Unknown..LogMax
  <2>1. LogMax \in Nat
    BY GridAssumption
  <2> QED BY <2>1 DEF Unknown
<1>4. /\ n \in Grids /\ n.origin = g.origin /\ n.cnt = kept.cnt
      /\ \A a \in Addr : n.occ[a] = IF a \in box THEN Unknown ELSE g.occ[a]
  <2> DEFINE occ == [a \in Addr |-> IF a \in box THEN Unknown ELSE kept.occ[a]]
  <2>1. n = [kept EXCEPT !.occ = occ]
    BY <1>1
  <2>2. kept.occ \in [Addr -> Unknown..LogMax]
    BY <1>2 DEF Grids
  <2>3. occ \in [Addr -> Unknown..LogMax]
    BY <1>3, <2>2
  <2>4. \A a \in Addr : occ[a] = IF a \in box THEN Unknown ELSE g.occ[a]
    BY <1>2
  <2> HIDE DEF occ
  <2>5. n \in Grids /\ n.origin = kept.origin /\ n.cnt = kept.cnt /\ n.occ = occ
    BY <1>2, <2>1, <2>3 DEF Grids
  <2> QED BY <1>2, <2>4, <2>5
<1>5. ASSUME NEW a \in Addr  PROVE n.cnt[a] <= Cardinality(CausesAt(n, a))
  <2>1. CausesAt(n, a) \subseteq Addr
    BY DEF CausesAt
  <2>2. CausesAt(g, a) \ box \subseteq CausesAt(n, a)
    BY <1>4 DEF CausesAt, HashIdToGlobalIndex
  <2>3. /\ Cardinality(CausesAt(g, a) \ box) <= Cardinality(CausesAt(n, a))
        /\ Cardinality(CausesAt(g, a) \ box) \in Nat /\ Cardinality(CausesAt(n, a)) \in Nat
    BY <2>1, <2>2, CausesGrow
  <2>4. n.cnt[a] <= Cardinality(CausesAt(g, a) \ box) /\ n.cnt[a] \in Nat
    <3>1. kept.cnt[a] \in Nat
      BY <1>2 DEF Grids
    <3> QED BY <1>2, <1>4, <3>1
  <2> QED BY <2>3, <2>4
<1> QED
  BY <1>4, <1>5 DEF CountsCaused

(* The inductive invariant of the map.                                     *)
GridInv == grid \in Grids /\ CountsCaused(grid) /\ sensor.pos \in Cell3

(* Where the sensor may be.                                                *)
LEMMA PositionsTyped == Positions \subseteq Cell3
BY GridAssumption

LEMMA GridInvStart == GridInit => GridInv
<1> SUFFICES ASSUME GridInit  PROVE GridInv
  OBVIOUS
<1>1. <<0, 0, 0>> \in Cell3
  BY DEF Cell3
<1>2. sensor.pos = <<0, 0, 0>>
  BY DEF GridInit
<1>3. grid \in Grids /\ CountsCaused(grid)
  <2>1. grid = EmptyGrid(<<0, 0, 0>>)
    BY DEF GridInit
  <2> QED BY <1>1, <2>1, EmptyTyped
<1> QED
  BY <1>1, <1>2, <1>3 DEF GridInv

LEMMA SlideToStep ==
  ASSUME GridInv, NEW pos \in Cell3, SlideTo(pos)
  PROVE  (grid \in Grids /\ CountsCaused(grid))'
<1> DEFINE n == Slid(grid, pos)
<1>1. n \in Grids /\ CountsCaused(n)
  BY SlideKeeps DEF GridInv
<1>2. grid' = n
  BY DEF SlideTo
<1> HIDE DEF n
<1> QED
  BY <1>1, <1>2 DEF CountsCaused, CausesAt, HashIdToGlobalIndex

LEMMA GridInvStep == GridInv /\ [GridNext]_gridVars => GridInv'
<1> SUFFICES ASSUME GridInv, [GridNext]_gridVars  PROVE GridInv'
  OBVIOUS
<1> DEFINE Sound == grid \in Grids /\ CountsCaused(grid)
<1>1. ASSUME NEW n, n \in Grids, CountsCaused(n), grid' = n  PROVE Sound'
  BY <1>1 DEF CountsCaused, CausesAt
<1>2. ASSUME UNCHANGED grid  PROVE Sound'
  BY <1>1, <1>2 DEF GridInv
<1>3. ASSUME NEW pos \in Cell3, NEW cloud, CloudCallback(pos, cloud)  PROVE Sound'
  BY <1>2, <1>3, SlideToStep DEF CloudCallback
<1> USE PositionsTyped
<1>4. CASE WorldCloudCallback
  <2>1. PICK pos \in Positions, cloud \in Clouds :
          sensor' = [pos |-> pos, known |-> TRUE] /\ CloudCallback(pos, cloud)
    BY <1>4 DEF WorldCloudCallback
  <2>2. pos \in Cell3 /\ sensor'.pos = pos
    BY <2>1
  <2> QED BY <1>3, <2>1, <2>2 DEF GridInv
<1>5. CASE LidarCloudPoseCallback
  <2>1. PICK pos \in Positions, cloud \in Clouds :
          \/ /\ sensor' = [pos |-> pos, known |-> TRUE]
             /\ IF cloud = << >> THEN SlideTo(pos) /\ UNCHANGED <<proj_points, pending>>
                ELSE CloudCallback(pos, cloud)
          \/ sensor.known /\ CloudCallback(sensor.pos, cloud) /\ UNCHANGED sensor
    BY <1>5 DEF LidarCloudPoseCallback
  <2>2. pos \in Cell3
    OBVIOUS
  <2>3. CASE /\ sensor' = [pos |-> pos, known |-> TRUE]
             /\ IF cloud = << >> THEN SlideTo(pos) /\ UNCHANGED <<proj_points, pending>>
                ELSE CloudCallback(pos, cloud)
    <3>1. Sound'
      BY <1>3, <2>2, <2>3, SlideToStep
    <3>2. sensor'.pos = pos
      BY <2>3
    <3> QED BY <2>2, <3>1, <3>2 DEF GridInv
  <2>4. CASE sensor.known /\ CloudCallback(sensor.pos, cloud) /\ UNCHANGED sensor
    <3>1. sensor.pos \in Cell3
      BY DEF GridInv
    <3> QED BY <1>3, <2>4, <3>1 DEF GridInv
  <2> QED BY <2>1, <2>3, <2>4
<1>6. CASE DepthPoseCallback
  <2>1. PICK pos \in Positions : /\ SlideTo(pos)
                                 /\ sensor' = [pos |-> pos, known |-> sensor.known \/ IsInMap(grid', pos)]
    BY <1>6 DEF DepthPoseCallback
  <2>2. pos \in Cell3 /\ sensor'.pos = pos
    BY <2>1
  <2>3. Sound'
    BY <2>1, <2>2, SlideToStep
  <2> QED BY <2>2, <2>3 DEF GridInv
<1>7. CASE UpdateOccupancyCallback
  <2>1. PICK pts, marks : grid' = RaycastProcess(grid, sensor.pos, pts, marks)
    BY <1>7 DEF UpdateOccupancyCallback
  <2> DEFINE n == RaycastProcess(grid, sensor.pos, pts, marks)
  <2>2. n \in Grids /\ CountsCaused(n)
    BY RaycastKeeps DEF GridInv
  <2> HIDE DEF n
  <2>3. Sound'
    BY <1>1, <2>1, <2>2 DEF n
  <2>4. sensor' = sensor
    BY <1>7 DEF UpdateOccupancyCallback
  <2> QED BY <2>3, <2>4 DEF GridInv
<1>8. CASE SetOccupancy
  <2>1. PICK c \in Positions, level \in {0, LogMax} : grid' = ApplyOccupancyUpdate(grid, c, level)
    BY <1>8 DEF SetOccupancy
  <2> DEFINE n == ApplyOccupancyUpdate(grid, c, level)
  <2>2. LogMax \in Nat
    BY GridAssumption
  <2>3. level \in Unknown..LogMax /\ c \in Cell3
    BY <2>2 DEF Unknown
  <2>4. n \in Grids /\ CountsCaused(n)
    BY <2>3, UpdateKeepsCounts DEF GridInv
  <2> HIDE DEF n
  <2>5. Sound'
    BY <1>1, <2>1, <2>4 DEF n
  <2>6. sensor' = sensor
    BY <1>8 DEF SetOccupancy
  <2> QED BY <2>5, <2>6 DEF GridInv
<1>9. CASE ResetBuffer
  <2>1. \/ grid' = EmptyGrid(grid.origin)
        \/ \E low, high \in Positions : grid' = ResetBox(grid, low, high)
    BY <1>9 DEF ResetBuffer
  <2>2. grid.origin \in Cell3
    BY DEF GridInv, Grids
  <2>3. \E n : n \in Grids /\ CountsCaused(n) /\ grid' = n
    <3>1. CASE grid' = EmptyGrid(grid.origin)
      <4>1. EmptyGrid(grid.origin) \in Grids /\ CountsCaused(EmptyGrid(grid.origin))
        BY <2>2, EmptyTyped
      <4> QED BY <3>1, <4>1
    <3>2. CASE \E low, high \in Positions : grid' = ResetBox(grid, low, high)
      <4>1. PICK low, high \in Positions : grid' = ResetBox(grid, low, high)
        BY <3>2
      <4>2. ResetBox(grid, low, high) \in Grids /\ CountsCaused(ResetBox(grid, low, high))
        BY ResetKeeps DEF GridInv
      <4> QED BY <4>1, <4>2
    <3> QED BY <2>1, <3>1, <3>2
  <2>4. Sound'
    BY <1>1, <2>3
  <2>5. sensor' = sensor
    BY <1>9 DEF ResetBuffer
  <2> QED BY <2>4, <2>5 DEF GridInv
<1>10. CASE UNCHANGED gridVars
  <2>1. grid' = grid /\ sensor' = sensor
    BY <1>10 DEF gridVars
  <2> QED BY <1>2, <2>1 DEF GridInv
<1> QED
  BY <1>4, <1>5, <1>6, <1>7, <1>8, <1>9, <1>10 DEF GridNext

(* Wherever the sensor goes next, the map keeps what it knows of the cells *)
(* that stay in the window and knows nothing of those that enter it, for   *)
(* every size of the ring buffer and every move (grid_map.cpp:358-464).    *)
THEOREM OverlapIsKept == GridSpec => []SlideKeepsOverlap
<1>1. GridInv => SlideKeepsOverlap
  <2> SUFFICES ASSUME GridInv, NEW pos \in Positions
               PROVE  LET n == Slid(grid, pos)
                      IN  \A c \in Window(n) :
                            Level(n, c) = IF c \in Window(grid) THEN Level(grid, c) ELSE Unknown
    BY DEF SlideKeepsOverlap
  <2> QED BY PositionsTyped, SlideKeeps DEF GridInv
<1> QED
  BY <1>1, GridInvStart, GridInvStep, PTL DEF GridSpec

(* The inflation of a cell is never counted more often than occupied cells *)
(* of the window cause it: no obstacle stays in the collision layer when   *)
(* its cells are free, forgotten or out of the window, in whatever order   *)
(* slides, rays and resets take them away (grid_map.cpp:301-491).          *)
THEOREM NoGhosts == GridSpec => []NoGhostInflation
<1>1. GridInv => NoGhostInflation
  <2> SUFFICES ASSUME GridInv, NEW c \in Window(grid)
               PROVE  grid.cnt[ToAddress(c)] <= Cardinality(Inflating(grid, c))
    BY DEF NoGhostInflation
  <2>1. grid.origin \in Cell3
    BY DEF GridInv, Grids
  <2>2. PICK a \in Addr : c = HashIdToGlobalIndex(grid, a)
    BY DEF Window
  <2>3. ToAddress(c) = a
    BY <2>1, <2>2, WindowCells
  <2>4. grid.cnt[a] <= Cardinality(CausesAt(grid, a))
    BY DEF GridInv, CountsCaused
  <2> DEFINE f == [b \in CausesAt(grid, a) |-> HashIdToGlobalIndex(grid, b)]
             S == CausesAt(grid, a)
             T == Inflating(grid, c)
  <2>5. f \in Surjection(S, T)
    <3>1. ASSUME NEW b \in S  PROVE f[b] \in T
      <4>1. /\ b \in Addr /\ Occupied(grid.occ[b])
            /\ Difference(c, HashIdToGlobalIndex(grid, b)) \in InflateOffsets
        BY <2>2 DEF CausesAt
      <4>2. ToAddress(HashIdToGlobalIndex(grid, b)) = b
        BY <2>1, <4>1, WindowCells
      <4> QED BY <4>1, <4>2 DEF Inflating, Window, Level
    <3>2. ASSUME NEW q \in T  PROVE \E b \in S : f[b] = q
      <4>1. /\ q \in Window(grid) /\ Occupied(grid.occ[ToAddress(q)])
            /\ Difference(c, q) \in InflateOffsets
        BY DEF Inflating, Level
      <4>2. PICK b \in Addr : q = HashIdToGlobalIndex(grid, b)
        BY <4>1 DEF Window
      <4>3. ToAddress(q) = b
        BY <2>1, <4>2, WindowCells
      <4>4. b \in S
        BY <2>2, <4>1, <4>2, <4>3 DEF CausesAt
      <4> QED BY <4>2, <4>4
    <3> QED BY <3>1, <3>2 DEF Surjection
  <2>6. f \in Injection(S, T)
    <3>1. \A b, d \in S : f[b] = f[d] => b = d
      <4>1. \A b \in S : b \in Addr /\ f[b] = HashIdToGlobalIndex(grid, b)
        BY DEF CausesAt
      <4>2. \A b \in S : ToAddress(f[b]) = b
        BY <2>1, <4>1, WindowCells
      <4> QED BY <4>2
    <3>2. f \in [S -> T]
      BY <2>5 DEF Surjection
    <3> HIDE DEF f, S, T
    <3> QED BY <3>1, <3>2 DEF Injection, IsInjective
  <2>7. IsFiniteSet(S)
    <3>1. S \subseteq Addr
      BY DEF CausesAt
    <3> QED BY <3>1, CausesFinite
  <2> HIDE DEF f, S, T
  <2>8. Cardinality(T) = Cardinality(S)
    BY <2>5, <2>6, <2>7, FS_Surjection
  <2> QED BY <2>3, <2>4, <2>8 DEF S, T
<1> QED
  BY <1>1, GridInvStart, GridInvStep, PTL DEF GridSpec

=============================================================================
