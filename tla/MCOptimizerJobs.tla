--------------------------- MODULE MCOptimizerJobs ---------------------------
(* Two symbols, one window, two timeframes, one family.                        *)
EXTENDS OptimizerJobs

CONSTANTS s1, s2, w1, m5, h1, burst

Pairs == {<<burst, m5>>, <<burst, h1>>}

(* The panel searches the book, the autopilot onboards one symbol, and a      *)
(* search without costs only reports.                                         *)
Asked ==
    {[names |-> {s1, s2}, apply |-> TRUE, source |-> "manual"],
     [names |-> {s1}, apply |-> TRUE, source |-> "onboarding"],
     [names |-> {s2}, apply |-> FALSE, source |-> "manual"]}
-----------------------------------------------------------------------------
(* The cost of a run, checked against its reference definitions: grids and *)
(* caps small enough to list, up to five sweeps of four costs on three     *)
(* workers, families with an own number, without one, and with 0.          *)
Cost == INSTANCE SearchBudget

ASSUME BudgetAssumption ==
    \A grid \in [1 .. 3 -> 0 .. 6], cap \in 0 .. 4 : Cost!BudgetKept(grid, cap)

ASSUME QueueAssumption ==
    \A n \in 1 .. 5, w \in 1 .. 3 :
        \A cost \in [1 .. n -> 1 .. 4] : Cost!NearShortest(cost, w)

ASSUME ProgressAssumption ==
    \A own \in {<<>>, <<0>>, <<4, 1>>}, alloc \in [1 .. 2 -> 0 .. 3],
      frames \in [1 .. 2 -> 0 .. 3], n \in 1 .. 3 :
        Cost!RunComboBudget(own, alloc, frames, 2, n)
            = Cost!Spent(own, alloc, frames, 2, n)

ASSUME WorkerAssumption ==
    \A env \in -1 .. 2, panel \in 0 .. 2, cores \in 1 .. 20, memory \in 0 .. 3 :
        Cost!WorkerCount(env, panel, cores, memory) >= 1

(* The candidates of a search: three, in a window of its own each, of a    *)
(* family and a timeframe of its own or of the first one's.                *)
Choice == INSTANCE SearchPick

Found ==
    {[k \in 1 .. 3 |->
        [family |-> f[k], frame |-> 1, window |-> k, scalp |-> s[f[k]], score |-> v[k],
         trades |-> t[k], validated |-> k # out]] :
        f \in {<<1, 2, 3>>, <<1, 2, 1>>}, s \in [1 .. 3 -> BOOLEAN],
        v \in [1 .. 3 -> {-5, 94, 95, 100}], t \in [1 .. 3 -> {30, 40}], out \in 0 .. 3}

ASSUME PickAssumption == \A found \in Found : Choice!PickKept(found)

(* The windows of a symbol: four and the live one.                         *)
ASSUME ShortlistAssumption ==
    \A rank \in [1 .. 4 -> -1 .. 1], ok \in [1 .. 4 -> BOOLEAN], thick \in [1 .. 4 -> BOOLEAN] :
        (\A w \in 1 .. 4 : ok[w] => thick[w] /\ rank[w] > -1)
            => Choice!ShortlistKept(0, <<1, 2, 3, 4>>, rank, ok, thick)

ASSUME WindowAssumption ==
    LET Clocks == SUBSET {Choice!AllDay, "08-16", "15-21"}
    IN  \A old \in Clocks, new \in Clocks \ {{}}, used \in BOOLEAN :
            Choice!WindowKept([sessions |-> old, use_sessions |-> used], new)
=============================================================================
