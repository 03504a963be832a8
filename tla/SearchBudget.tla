---------------------------- MODULE SearchBudget ----------------------------
(***************************************************************************)
(* How a run of the optimizer divides its work (micofx/optimizer.py): what *)
(* each family may spend, what the run will cost, how many sweeps go at    *)
(* once and in which order they are handed to the pool.                    *)
(***************************************************************************)
EXTENDS Integers, Sequences, FiniteSets, FiniteSetsExt, SequencesExt, Functions, TLC

Smaller(a, b) == IF a < b THEN a ELSE b
Larger(a, b) == IF a > b THEN a ELSE b

(* coverage_budget: every family gets what its grid can use of the cap,    *)
(* and the families that could use more share what the small grids leave,  *)
(* in proportion to what each has not explored.                            *)
Evenly(grid, cap) == [f \in DOMAIN grid |-> Smaller(grid[f], cap)]

Surplus(grid, cap) == SumFunction([f \in DOMAIN grid |-> cap - Evenly(grid, cap)[f]])

Gap(grid, cap) == [f \in DOMAIN grid |-> grid[f] - Evenly(grid, cap)[f]]

CoverageBudget(grid, cap) ==
    LET even == Evenly(grid, cap)
        gap == Gap(grid, cap)
        room == SumFunction(gap)
        share(f) == (Surplus(grid, cap) * gap[f]) \div room
    IN  IF room = 0
        THEN even
        ELSE [f \in DOMAIN grid |-> Smaller(grid[f], even[f] + share(f))]

(* family_max_combos: the operator's own number for a family, 0 or none    *)
(* being no number.                                                        *)
FamilyMaxCombos(own, f, default) ==
    IF f \in DOMAIN own /\ own[f] > 0 THEN own[f] ELSE default

(* backtest.sweep_budget: the coarse pass and each refinement round.       *)
SweepBudget(combos, rounds) == combos * (1 + rounds)

(* run_combo_budget: frames[f] is the number of timeframes family f is     *)
(* allowed on.                                                             *)
RunComboBudget(own, alloc, frames, rounds, symbols) ==
    SumFunction([f \in DOMAIN alloc |->
              symbols * frames[f]
                  * SweepBudget(FamilyMaxCombos(own, f, alloc[f]), rounds)])

(* _worker_count: the environment, then the panel's number, then what the  *)
(* cores and the free memory carry (0: unknown), never none.               *)
WorkerCount(override, configured, cores, memory) ==
    LET guess == Larger(1, Smaller(16, cores - 2))
    IN  CASE override > 0 -> override
          [] override <= 0 /\ configured > 0 -> configured
          [] OTHER -> IF memory > 0 THEN Larger(1, Smaller(guess, memory)) ELSE guess

(* longest_first: the costliest sweep first, ties in their own order.      *)
LongestFirst(cost) ==
    LET Ahead(i, j) == cost[i] > cost[j] \/ (cost[i] = cost[j] /\ i < j)
    IN  SortSeq([i \in DOMAIN cost |-> i], Ahead)

(* The pool: a worker that is free takes the next sweep of the queue.      *)
FreeWorker(load) == CHOOSE w \in DOMAIN load : \A v \in DOMAIN load : load[w] <= load[v]

Makespan(queue, cost, workers) ==
    LET Take(load, j) == [load EXCEPT ![FreeWorker(load)] = @ + cost[j]]
        load == FoldLeft(Take, [w \in 1 .. workers |-> 0], queue)
    IN  Max({load[w] : w \in 1 .. workers})

(* The shortest any assignment of the sweeps to the workers could take.    *)
Shortest(cost, workers) ==
    Min({Max({SumFunction([j \in {i \in DOMAIN cost : a[i] = w} |-> cost[j]]) :
                 w \in 1 .. workers}) :
            a \in [DOMAIN cost -> 1 .. workers]})

-----------------------------------------------------------------------------
(* What coverage_budget promises of itself: the total does not grow, no    *)
(* family falls below what the flat cap gave it, none gets more than its   *)
(* grid, and a grid that is larger is not left with less.                  *)
BudgetKept(grid, cap) ==
    LET out == CoverageBudget(grid, cap)
    IN  /\ SumFunction(out) <= cap * Cardinality(DOMAIN grid)
        /\ \A f \in DOMAIN grid :
              /\ Evenly(grid, cap)[f] <= out[f] /\ out[f] <= grid[f]
              /\ \A g \in DOMAIN grid : grid[f] <= grid[g] => out[f] <= out[g]

(* What longest_first promises: within four thirds of the shortest run.    *)
NearShortest(cost, workers) ==
    3 * Makespan(LongestFirst(cost), cost, workers) <= 4 * Shortest(cost, workers)

(* What is announced is what _plan_symbol hands out, sweep by sweep.       *)
Spent(own, alloc, frames, rounds, symbols) ==
    SumFunction(
        [sweep \in {s \in (1 .. symbols) \X (DOMAIN alloc) \X (1 .. 3) :
                        s[3] <= frames[s[2]]} |->
            SweepBudget(FamilyMaxCombos(own, sweep[2], alloc[sweep[2]]), rounds)])
=============================================================================
