---------------------------- MODULE SearchVerdict ----------------------------
(* What one symbol's search results do to the configuration it trades         *)
(* (optimizer.py reject_reason, _beats_incumbent, _flip_benchmark) and to its *)
(* session window (_choose_search_sessions), over a long series of searches.  *)
(*                                                                            *)
(* A search measures every configuration of the market of that moment.  The   *)
(* incumbent is compared with what the search measured of it, if it did, and  *)
(* else with its stamp: what was measured when it was applied.  Interleavings *)
(* of a search with other writers are in OptimizerJobs and ParameterPatches.  *)
EXTENDS Integers, Sequences

CONSTANTS
    Rivals,
    FamilyOf,       \* strategy and timeframe of each configuration
    Markets,        \* what a search may measure: for charged and uncharged costs
    Starting,          \* the configuration the symbol starts with
    Ages,           \* hours since the last apply, up to the age of this model
    MinAges,        \* values of reopt_min_age_hours
    MayForce,       \* TRUE: a run or a panel apply may be forced
    Slots,        \* session windows
    Unmeasured,
    MaxChanges      \* bound on drifts, settings changes and forced applies

(* net and score in tenths of R, pr the share of profitable holdout slices in *)
(* tenths; fails names the candidate's own gates it does not pass.            *)
Gates == {"validation", "holdout", "selection", "slices", "cost", "edge", "retention"}
Measure == [net : Int, score : Int, pr : 0..10, fails : SUBSET Gates]

ASSUME ConfigAssumption == Starting \in Rivals /\ Unmeasured \notin Rivals
ASSUME FamilyAssumption == DOMAIN FamilyOf = Rivals
ASSUME AgeAssumption == Ages \subseteq Nat /\ 0 \in Ages /\ MinAges \subseteq Nat
ASSUME ChangesAssumption == MaxChanges \in Nat
(* A slice that paid has a positive score (Result.score), and a positive      *)
(* slice is what the validation and holdout gates ask for.                    *)
ASSUME MarketAssumption ==
    \A m \in Markets :
        /\ m.scale \in Nat
        /\ \A k \in BOOLEAN, c \in Rivals :
              LET x == m.of[k][c] IN
              /\ x \in Measure
              /\ x.net > 0 <=> x.score > 0
              /\ x.net <= 0 => "holdout" \in x.fails
(* A window is ranked by the score of what it held, or by its net: one that   *)
(* earned ranks above nought.                                                 *)
ASSUME RankAssumption ==
    \A m \in Markets : \A w \in Slots :
        LET h == m.clock[w] IN
        /\ h.net \in Int /\ h.rank \in Int /\ h.dd \in Nat
        /\ h.net > 0 => h.rank > 0

VARIABLES
    inc,        \* the live configuration
    stamp,      \* opt_summary: what it was measured at, and when it was validated
    age,        \* hours since opt_updated_at
    charging,   \* system.charge_costs
    market,     \* what a search would measure now
    verdict,    \* the last search: reason, candidate and the incumbent measured
    window,     \* the live session window
    forsaken,       \* history: what this chain of flips gave up in this market
    changes

seriesVars == <<inc, stamp, age, charging, market, verdict, window, forsaken, changes>>

NetScore == [net : Int, score : Int]
Stamp == [hold : NetScore, pr : 0..10, charged : BOOLEAN, scale : Nat,
          validated : BOOLEAN, costed : NetScore \cup {Unmeasured}]

Hold(c) == market.of[charging][c]

PaidOf(x) == [net |-> x.net, score |-> x.score]

StampOf(c, m, k) ==
    [hold |-> PaidOf(m.of[k][c]), pr |-> m.of[k][c].pr,
     charged |-> k, scale |-> m.scale, validated |-> TRUE, costed |-> Unmeasured]

NoVerdict == [reason |-> "none", cand |-> Starting, measured |-> Unmeasured]

SeriesTypeOK ==
    /\ inc \in Rivals /\ age \in Ages /\ charging \in BOOLEAN
    /\ stamp \in Stamp
    /\ market \in Markets
    /\ verdict.cand \in Rivals
    /\ verdict.measured = Unmeasured \/ verdict.measured \in Measure
    /\ window \in Slots
    /\ forsaken \subseteq Rivals
    /\ changes \in 0..MaxChanges

SeriesInit ==
    /\ inc = Starting /\ age \in Ages /\ charging = TRUE
    /\ market \in Markets
    /\ \E m \in Markets, k \in BOOLEAN : stamp = StampOf(Starting, m, k)
    /\ verdict = NoVerdict
    /\ window \in Slots
    /\ forsaken = {} /\ changes = 0

-----------------------------------------------------------------------------
(* The benchmark.                                                             *)

(* The stamp's own holdout, or the charged one when the stamp was cost-free.  *)
GuardHoldout ==
    IF ~charging \/ stamp.charged \/ stamp.costed = Unmeasured
      THEN stamp.hold ELSE stamp.costed

GuardWasCharged == stamp.charged \/ (stamp.costed # Unmeasured /\ charging)

(* Mutated form of FlipBenchmark: the stamp before the measurement.           *)
FlipBenchmarkStamp(measured) == GuardHoldout

(* What this search measured of the incumbent, else the stamp.                *)
FlipBenchmark(measured) ==
    IF measured # Unmeasured THEN PaidOf(measured) ELSE GuardHoldout

(* A charged stamp is a bar for an uncharged candidate, not the reverse, and  *)
(* charged numbers compare only under the same spread scale.                  *)
Comparable ==
    \/ GuardWasCharged /\ ~charging
    \/ /\ GuardWasCharged = charging
       /\ charging => market.scale - stamp.scale \in -5..5

(* _beats_incumbent.                                                          *)
BeatsIncumbent(hold, measured) ==
    IF ~stamp.validated
      THEN measured = Unmeasured \/ measured.score <= 0 \/ hold.score >= measured.score
      ELSE LET old == FlipBenchmark(measured).score IN
           \/ age > 60 * 24
           \/ old <= 0
           \/ measured = Unmeasured /\ ~Comparable
           \/ hold.score >= old

-----------------------------------------------------------------------------
(* The gates of reject_reason, in their order.                                *)

Flip(c) == FamilyOf[c] # FamilyOf[inc]

Young(minAge) == minAge > 0 /\ age < minAge

(* Within twelve hours of an apply the holdout must have grown by a quarter.  *)
Dwelling(hold, measured) ==
    LET old == FlipBenchmark(measured).net IN
    age < 12 /\ old > 0 /\ 4 * (hold.net - old) < old

(* Mutated form of FlipTooSmall: any measurement that is not worse will do.   *)
FlipTooSmallNot(c, hold, measured) ==
    Flip(c) /\ FlipBenchmark(measured).net > 0 /\ hold.net < FlipBenchmark(measured).net

(* Another family must bring 15 per cent more.                                *)
FlipTooSmall(c, hold, measured) ==
    LET old == FlipBenchmark(measured).net IN
    Flip(c) /\ old > 0 /\ 100 * hold.net < 115 * old

LessConsistent(c, hold) == Flip(c) /\ stamp.pr \in 1..9 /\ hold.pr < stamp.pr

GateOrder == <<"validation", "holdout", "selection", "slices", "young", "dwell", "flip",
               "consistency", "cost", "edge", "score", "weaker", "retention">>

(* The places of the gates that hold the candidate c back: its own, then      *)
(* those a forced run waives, then the incumbent's.                           *)
HeldBy(c, measured, forced, minAge) ==
    LET hold == Hold(c) IN
    {i \in DOMAIN GateOrder :
        LET gate == GateOrder[i] IN
        \/ gate \in hold.fails
        \/ gate = "young" /\ ~forced /\ Young(minAge)
        \/ gate = "dwell" /\ ~forced /\ Dwelling(hold, measured)
        \/ gate = "flip" /\ ~forced /\ FlipTooSmall(c, hold, measured)
        \/ gate = "consistency" /\ ~forced /\ LessConsistent(c, hold)
        \/ gate = "score" /\ hold.score <= 0
        \/ gate = "weaker" /\ ~BeatsIncumbent(hold, measured)}

(* The first of them, or the candidate passes.                                *)
RejectReason(c, measured, forced, minAge) ==
    LET refused == HeldBy(c, measured, forced, minAge) IN
    IF refused = {} THEN "passes" ELSE GateOrder[CHOOSE i \in refused : \A j \in refused : i <= j]

-----------------------------------------------------------------------------
(* Steps.                                                                     *)

(* What a run may know of the incumbent: the sweep's own baseline in either   *)
(* cost regime, a replay only while costs are charged, or nothing.            *)
Measurements == {Unmeasured, Hold(inc)}

(* The benchmark is what the incumbent earns in this market.                  *)
Judged(measured) == FlipBenchmark(measured) = PaidOf(Hold(inc))

(* apply stamps the row with this run's measurement.                          *)
Searches(c, measured, forced, minAge) ==
    LET reason == RejectReason(c, measured, forced, minAge) IN
    /\ c # inc
    /\ forced => MayForce /\ changes < MaxChanges
    /\ verdict' = [reason |-> reason, cand |-> c, measured |-> measured]
    /\ IF reason = "passes"
         THEN /\ inc' = c /\ stamp' = StampOf(c, market, charging) /\ age' = 0
              /\ forsaken' = IF ~forced /\ Flip(c) /\ Judged(measured)
                         THEN forsaken \cup {inc} ELSE {}
         ELSE UNCHANGED <<inc, stamp, age, forsaken>>
    /\ changes' = IF forced THEN changes + 1 ELSE changes
    /\ UNCHANGED <<charging, market, window>>

(* The panel puts a configuration of the history back, with its old numbers   *)
(* and possibly never validated.                                              *)
ApplyHistory(c, m, k, validated) ==
    /\ MayForce /\ changes < MaxChanges
    /\ inc' = c /\ age' = 0
    /\ stamp' = [StampOf(c, m, k) EXCEPT !.validated = validated]
    /\ forsaken' = {}
    /\ changes' = changes + 1
    /\ UNCHANGED <<charging, market, verdict, window>>

(* refresh_live_costed_stamp after the operator changed the sessions.         *)
RefreshStamp ==
    LET measured == PaidOf(market.of[TRUE][inc]) IN
    /\ stamp' = [stamp EXCEPT !.costed = measured,
                    !.hold = IF charging THEN measured ELSE @,
                    !.charged = charging \/ @]
    /\ stamp' # stamp
    /\ UNCHANGED <<inc, age, charging, market, verdict, window, forsaken, changes>>

(* The market moves: new bars, another spread.                                *)
Drift(m) ==
    /\ m # market /\ changes < MaxChanges
    /\ market' = m
    /\ forsaken' = {}
    /\ changes' = changes + 1
    /\ UNCHANGED <<inc, stamp, age, charging, verdict, window>>

SetChargeCosts ==
    /\ changes < MaxChanges
    /\ charging' = ~charging
    /\ forsaken' = {}
    /\ changes' = changes + 1
    /\ UNCHANGED <<inc, stamp, age, market, verdict, window>>

Grow(a) ==
    /\ a \in Ages /\ a > age
    /\ age' = a
    /\ UNCHANGED <<inc, stamp, charging, market, verdict, window, forsaken, changes>>

-----------------------------------------------------------------------------
(* The session window.                                                        *)

Clock(w) == market.clock[w]

(* 25 trades, a profit factor of 1.10 and a positive net; the live window     *)
(* keeps its seat without the profit factor.                                  *)
SessionOK(h) == h.enough /\ h.pays /\ h.net > 0
StickyEligible(h) == h.enough /\ h.net > 0

(* A drawdown of zero reads as none recorded.                                 *)
Drawdown(h) == IF h.dd = 0 THEN 1000000 ELSE h.dd

(* Mutated form of Keeps: less drawdown alone takes the seat.                 *)
KeepsDrawdown(cur, best) ==
    /\ StickyEligible(cur)
    /\ 100 * best.rank <= (IF SessionOK(cur) THEN 125 ELSE 115) * cur.rank
    /\ ~(100 * Drawdown(best) < 75 * Drawdown(cur))

(* The live window keeps its seat unless the best one is better by a quarter  *)
(* (15 per cent when the live one no longer pays), or better at all with a    *)
(* quarter less drawdown.                                                     *)
Keeps(cur, best) ==
    /\ StickyEligible(cur)
    /\ 100 * best.rank <= (IF SessionOK(cur) THEN 125 ELSE 115) * cur.rank
    /\ ~(SessionOK(cur) /\ best.rank > cur.rank
         /\ 100 * Drawdown(best) < 75 * Drawdown(cur))

(* _choose_search_sessions: the first of the best windows that pay.           *)
ChooseSessions(cur, best, sticky) ==
    /\ SessionOK(Clock(best))
    /\ \A w \in Slots : SessionOK(Clock(w)) => Clock(w).rank <= Clock(best).rank
    /\ best # cur
    /\ sticky => ~Keeps(Clock(cur), Clock(best))

PickSessions(w, sticky) ==
    /\ charging
    /\ ChooseSessions(window, w, sticky)
    /\ window' = w
    /\ UNCHANGED <<inc, stamp, age, charging, market, verdict, forsaken, changes>>

-----------------------------------------------------------------------------
SeriesNext ==
    \/ \E c \in Rivals, measured \in Measurements, forced \in BOOLEAN,
          minAge \in MinAges : Searches(c, measured, forced, minAge)
    \/ \E c \in Rivals, m \in Markets, k \in BOOLEAN, validated \in BOOLEAN :
          ApplyHistory(c, m, k, validated)
    \/ RefreshStamp \/ SetChargeCosts
    \/ \E m \in Markets : Drift(m)
    \/ \E a \in Ages : Grow(a)
    \/ \E w \in Slots, sticky \in BOOLEAN : PickSessions(w, sticky)

SeriesSpec == SeriesInit /\ [][SeriesNext]_seriesVars

-----------------------------------------------------------------------------
(* Properties.                                                                *)

(* Searches do not churn: while the market and the cost assumption stay as    *)
(* they are, a chain of unforced family flips never comes back to a           *)
(* configuration that one of them gave up on the numbers of this market,      *)
(* whatever the ages and whether or not a run could measure the incumbent.    *)
NoReturn ==
    [][forsaken' # {} /\ inc' # inc => inc' \notin forsaken]_seriesVars

(* A losing configuration is not defended by its old scorecard: a search that *)
(* measured the incumbent at a loss does not refuse a candidate for the       *)
(* incumbent's net or score.                                                  *)
StampDefendsNoLoser ==
    verdict.measured # Unmeasured /\ verdict.measured.net <= 0
    => verdict.reason \notin {"dwell", "flip", "weaker"}

(* A live session window that still earns, with enough trades, is given up    *)
(* only for a window that ranks higher, unless the family itself changed.     *)
SeatKept ==
    [][\A w \in Slots :
          PickSessions(w, TRUE) /\ StickyEligible(Clock(window)) /\ w = window'
          => Clock(w).rank > Clock(window).rank]_seriesVars
=============================================================================
