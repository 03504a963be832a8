------------------------------ MODULE GridSweep ------------------------------
(***************************************************************************)
(* One parameter search of a family (walk_forward in micofx/backtest.py):  *)
(* the draw of combinations from a grid, the sweep over them, the          *)
(* refinement rounds around the leaders and the pick.                      *)
(*                                                                         *)
(* A combination is a cell of the grid, one index per axis.  A backtest    *)
(* gives a cell a score; one that is no candidate (it did not pay on the   *)
(* segment that screens it, traded too little, cost too much or was not    *)
(* consistent) is worth 0.  Validation and holdout are passed or not.      *)
(***************************************************************************)
EXTENDS Integers, Sequences, FiniteSets, FiniteSetsExt, SequencesExt, Functions

CONSTANTS
    Sizes,        \* a sequence: the number of values of each axis
    MaxCombos,    \* the budget of one pass
    Rounds,       \* refine_rounds
    ShortAxis,    \* _SHORT_AXIS_COVER
    Seeds,        \* how many leaders a round refines around
    Kept,         \* how many candidates are validated (14 in the code)
    Grounded,     \* MIN_PLATEAU_NEIGHBOURS
    Scores,       \* what a candidate may score
    Weight,       \* plateau_weight in tenths
    Unknown       \* no winner

ASSUME SweepAssumption ==
    /\ Sizes \in Seq(Nat \ {0}) /\ Sizes # <<>>
    /\ MaxCombos \in Nat \ {0}
    /\ Rounds \in Nat /\ ShortAxis \in Nat /\ Seeds \in Nat \ {0} /\ Kept \in Nat \ {0}
    /\ Grounded \in Nat \ {0} /\ Scores \subseteq Nat \ {0}
    /\ Weight \in 0 .. 8

VARIABLES
    step,      \* "draw", "sweep", "probe", "pick", "done"
    drawn,     \* the cells the coarse pass drew
    untested,  \* the cells the running pass has still to test
    pool,      \* the score of every tested cell
    round,     \* refinement rounds begun
    outcome    \* the answer

sweepVars == <<step, drawn, untested, pool, round, outcome>>

Axes == DOMAIN Sizes
Indices(a) == 0 .. Sizes[a] - 1

Cells == {c \in [Axes -> 0 .. Max(Range(Sizes)) - 1] :
             \A a \in Axes : c[a] \in Indices(a)}

(* Order of the code's sorted(): by the first axis they differ on. *)
Before(c, d) ==
    \E a \in Axes : c[a] < d[a] /\ \A e \in Axes : e < a => c[e] = d[e]

First(S) == CHOOSE c \in S : \A d \in S \ {c} : Before(c, d)

-----------------------------------------------------------------------------
(* _cover_short_axes: put each missing index of a short axis into the      *)
(* sample, in place of a cell whose own index on that axis is held by      *)
(* another when the budget is used up.                                     *)
Holding(S, a, i) == {c \in S : c[a] = i}

Spare(S, a) == {c \in S : Cardinality(Holding(S, a, c[a])) > 1}

Stand(S, a, i) == {c \in S : [c EXCEPT ![a] = i] \notin S}

(* Mutated form of WithIndex: the budget is not asked. *)
WithIndexFree(S, a, i) ==
    IF Holding(S, a, i) # {} THEN S
    ELSE S \union {[First(Stand(S, a, i)) EXCEPT ![a] = i]}

WithIndex(S, a, i) ==
    LET new == [First(Stand(S, a, i)) EXCEPT ![a] = i]
    IN  CASE Holding(S, a, i) # {} -> S
          [] Holding(S, a, i) = {} /\ Cardinality(S) < MaxCombos ->
                S \union {new}
          [] Holding(S, a, i) = {} /\ Cardinality(S) >= MaxCombos
                                   /\ Spare(S, a) # {} ->
                (S \ {First(Spare(S, a))}) \union {new}
          [] OTHER -> S

WithAxis(S, a) ==
    IF Sizes[a] > ShortAxis THEN S
    ELSE FoldLeft(LAMBDA T, i : WithIndex(T, a, i), S,
                  [k \in 1 .. Sizes[a] |-> k - 1])

CoverShortAxes(S) ==
    FoldLeft(LAMBDA T, a : WithAxis(T, a), S, [a \in Axes |-> a])

(* combos_from_grid: the whole grid when it fits the budget, a covered     *)
(* random sample otherwise.                                                *)
Samples ==
    IF Cardinality(Cells) <= MaxCombos THEN {Cells}
    ELSE {CoverShortAxes(S) : S \in kSubset(MaxCombos, Cells)}

-----------------------------------------------------------------------------
Tested == DOMAIN pool
Candidates == {c \in Tested : pool[c] > 0}

Neighbours(c) ==
    {d \in Cells : \E a \in Axes :
        /\ d[a] - c[a] \in {-1, 1}
        /\ \A e \in Axes \ {a} : d[e] = c[e]}

(* Mutated form of Seen: a rejected neighbour reads as one never tested.   *)
SeenCandidates(c) == Neighbours(c) \intersect Candidates

(* The neighbours _plateau_scores looks up: every tested one.              *)
Seen(c) == Neighbours(c) \intersect Tested

IsGrounded(c) == Cardinality(Seen(c)) >= Grounded

Total(S) == SumFunctionOnSet(pool, S)

(* _plateau_scores: an explored cell is blended with its neighbours' mean, *)
(* the others are discounted by three quarters of the weight.  The blend   *)
(* is a fraction, compared as one.                                         *)
Plateau(c) ==
    IF IsGrounded(c)
    THEN LET n == Cardinality(Seen(c))
         IN  [num |-> (10 - Weight) * pool[c] * n + Weight * Total(Seen(c)),
              den |-> 10 * n]
    ELSE [num |-> (40 - 3 * Weight) * pool[c], den |-> 40]

Tops(d, c) == Plateau(d).num * Plateau(c).den > Plateau(c).num * Plateau(d).den

(* Only explored neighbourhoods are ranked, when there is one. *)
Ranked ==
    LET explored == {c \in Candidates : IsGrounded(c)}
    IN  IF explored # {} THEN explored ELSE Candidates

(* sweep_budget: what a search is announced and reported with. *)
Budget(rounds) == MaxCombos * (1 + rounds)

-----------------------------------------------------------------------------
SweepTypeOK ==
    /\ step \in {"draw", "sweep", "probe", "pick", "done"}
    /\ drawn \subseteq Cells /\ untested \subseteq Cells
    /\ Tested \subseteq Cells /\ Range(pool) \subseteq {0} \union Scores
    /\ round \in 0 .. Rounds
    /\ outcome \in [kind : {"open", "cancelled", "nothing", "found"},
                    best : Cells \union {Unknown}, validated : BOOLEAN]

Ends(kind) == [kind |-> kind, best |-> Unknown, validated |-> FALSE]

SweepInit ==
    /\ step = "draw"
    /\ drawn = {} /\ untested = {}
    /\ pool = <<>>
    /\ round = 0
    /\ outcome = Ends("open")

Draw ==
    /\ step = "draw"
    /\ drawn' \in Samples
    /\ untested' = drawn'
    /\ step' = "sweep"
    /\ UNCHANGED <<pool, round, outcome>>

(* One cell of the pass: looked at on one segment first, measured on all   *)
(* of them if that paid.                                                   *)
Backtest ==
    /\ step \in {"sweep", "probe"}
    /\ untested # {}
    /\ LET cell == First(untested)
       IN  /\ \E f \in {0} \union Scores :
                 pool' = [c \in Tested \union {cell} |->
                             IF c = cell THEN f ELSE pool[c]]
           /\ untested' = untested \ {cell}
    /\ UNCHANGED <<step, drawn, round, outcome>>

(* The operator cancels: in the coarse pass the search is over, in a       *)
(* refinement round what was found so far is kept.                         *)
CancelCoarse ==
    /\ step = "sweep"
    /\ untested # {}
    /\ step' = "done"
    /\ outcome' = Ends("cancelled")
    /\ untested' = {}
    /\ UNCHANGED <<drawn, pool, round>>

CancelProbe ==
    /\ step = "probe"
    /\ untested # {}
    /\ step' = "pick"
    /\ untested' = {}
    /\ UNCHANGED <<drawn, pool, round, outcome>>

(* A pass is through.  A round probes the untested neighbours of the       *)
(* leaders, as many as one budget pays for.                                *)
Leads(c, d) ==
    \/ pool[c] > pool[d]
    \/ pool[c] = pool[d] /\ Before(c, d)

Leaders == {c \in Candidates :
    Cardinality({d \in Candidates : Leads(d, c)}) < Seeds}

Probes == UNION {Neighbours(c) : c \in Leaders} \ Tested

(* Mutated form of Paid: every probe is run. *)
PaidAll(S) == {S}

Paid(S) == kSubset(IF Cardinality(S) < MaxCombos THEN Cardinality(S)
                                                ELSE MaxCombos, S)

Refine ==
    /\ step \in {"sweep", "probe"} /\ untested = {}
    /\ round < Rounds /\ Probes # {}
    /\ untested' \in Paid(Probes)
    /\ round' = round + 1
    /\ step' = "probe"
    /\ UNCHANGED <<drawn, pool, outcome>>

Through ==
    /\ step \in {"sweep", "probe"} /\ untested = {}
    /\ round = Rounds \/ Probes = {}
    /\ step' = "pick"
    /\ UNCHANGED <<drawn, untested, pool, round, outcome>>

NothingFound ==
    /\ step = "pick"
    /\ Candidates = {}
    /\ outcome' = Ends("nothing")
    /\ step' = "done"
    /\ UNCHANGED <<drawn, untested, pool, round>>

(* The Kept best of the ranked, by plateau. *)
Field ==
    {c \in Ranked :
        Cardinality({d \in Ranked : Tops(d, c)}) < Kept}

(* The field is narrowed by the plateau, the validation slice picks from   *)
(* it, and the winner must pass validation and the holdout to be applied.  *)
Pick ==
    /\ step = "pick"
    /\ \E best \in Field, valid, holdout \in BOOLEAN :
          outcome' = [kind |-> "found", best |-> best,
                      validated |-> valid /\ holdout]
    /\ step' = "done"
    /\ UNCHANGED <<drawn, untested, pool, round>>

SweepNext ==
    \/ Draw \/ Backtest \/ CancelCoarse \/ CancelProbe
    \/ Refine \/ Through \/ NothingFound \/ Pick

SweepSpec == SweepInit /\ [][SweepNext]_sweepVars

-----------------------------------------------------------------------------
(* The optimizer announces and reports sweep_budget backtests for a        *)
(* search; no draw, axis cover or refinement round runs more.              *)
PassesPaid == Cardinality(Tested) <= Budget(round)

(* An isolated spike among tested losers is not validated ahead of a cell  *)
(* that scores as well and whose tested neighbourhood earns: _plateau_     *)
(* scores is there to tell the two apart, although the losers are no       *)
(* candidates any more.                                                    *)
Explored(c) == Cardinality(Neighbours(c) \intersect Tested) >= Grounded

Dead(c) == \A d \in Neighbours(c) \intersect Tested : pool[d] = 0

NoDeadSpike ==
    outcome.kind = "found" /\ Explored(outcome.best) /\ Dead(outcome.best)
        => Cardinality({c \in Candidates : /\ Explored(c) /\ ~Dead(c)
                                           /\ pool[c] >= pool[outcome.best]})
             < Kept

(* What _cover_short_axes is documented to guarantee: every index of a     *)
(* short axis is in the sample whenever the budget holds that many cells.  *)
AxesCovered ==
    drawn # {} /\ (\A a \in Axes : Sizes[a] <= MaxCombos) =>
        \A a \in Axes : Sizes[a] <= ShortAxis =>
            \A i \in Indices(a) : Holding(drawn, a, i) # {}

=============================================================================
