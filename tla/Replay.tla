------------------------------- MODULE Replay -------------------------------
(***************************************************************************)
(* The bar replay a search is scored with (simulate in                     *)
(* micofx/backtest.py), one slot, bar after bar.                           *)
(*                                                                         *)
(* The code walks from entry signal to entry signal and follows each trade *)
(* to its end; here the same trades are made one bar at a time.  A bar is  *)
(* any open, high, low and close; a signal sits on a closed bar and fills  *)
(* at the next open.  What the overlays ask of the stop (exits.py) is any  *)
(* price.  Money is counted in price steps times thirds of a lot, so that  *)
(* the scaled-out third is an integer.                                     *)
(***************************************************************************)
EXTENDS Integers, FiniteSets

CONSTANTS
    LastBar,     \* bound: the window is bars 1..LastBar
    Prices,      \* the prices a bar may print
    Targets,     \* the stops the overlays may ask for
    Spread,      \* spread of every bar, in price steps
    Commission,  \* round-turn commission, in price steps
    MinStop,     \* the broker's stop floor
    MinStep,     \* trail_min_step: the smallest move of a stop
    Dists,       \* stop distances the entry may come out with
    AtR,         \* partial_at_r in stop distances, 0 is off
    Cooldown,    \* _cooldown_bars
    ReverseOnSignal, \* reverse_on_signal
    Nothing      \* no trade, no fill, no target

ASSUME ReplayAssumption ==
    /\ LastBar \in Nat \ {0}
    /\ Prices \subseteq Nat
    /\ Targets \subseteq Int
    /\ Spread \in Nat /\ Commission \in Nat
    /\ MinStop \in Nat /\ MinStep \in Nat \ {0}
    /\ Dists \subseteq Nat \ {0} /\ \A d \in Dists : d >= MinStop
    /\ AtR \in Nat /\ Cooldown \in Nat
    /\ ReverseOnSignal \in BOOLEAN

VARIABLES
    bar,         \* the last bar replayed
    signals,     \* the sides that signalled on it
    trade,       \* the open trade
    resume,      \* signals up to this bar are skipped
    closed,      \* the trades this bar closed
    overdue      \* history: the open trade should have left on this bar

replayVars == <<bar, signals, trade, resume, closed, overdue>>

Buy == 1
Sell == -1
Sides == {Buy, Sell}
Whole == 3       \* thirds of a lot

Bars == {b \in [open : Prices, high : Prices, low : Prices, close : Prices] :
            /\ b.low <= b.open /\ b.open <= b.high
            /\ b.low <= b.close /\ b.close <= b.high}

(* Why a signal is not filled at an open: outside the session mask, across *)
(* a hole in the bars, or on its own numbers (no ATR, a spread over the    *)
(* cap, a market too quiet).                                               *)
Refusals == {"tradable", "stale", "numbers"}

-----------------------------------------------------------------------------
(* One-way signals only: a bar that prints both sides is no signal. *)
OneWay(s) == Cardinality(s) = 1
SideOf(s) == CHOOSE d \in s : TRUE

(* An open at price o on side d: the spread is paid at the entry. *)
Fresh(d, o, dist, j, flipped) ==
    [side |-> d, entry |-> o + d * Spread, sl |-> o + d * Spread - d * dist,
     dist |-> dist, trailing |-> FALSE, weight |-> Whole, banked |-> 0,
     from |-> j, flipped |-> flipped]

(* stop_fill_price: a sell's stop is reached by the ask; a bar that opens  *)
(* beyond the stop fills at its open.                                      *)
StopHit(t, b) ==
    IF t.side = Buy THEN b.low <= t.sl ELSE b.high + Spread >= t.sl

(* Mutated form of StopFill: the stop's own price, gap or no gap. *)
StopFillAtStop(t, b) == t.sl

StopFill(t, b) == IF t.side * (b.open - t.sl) < 0 THEN b.open ELSE t.sl

(* Mutated form of Checked: exits are looked for before entries, so the    *)
(* fill bar is never checked.                                              *)
CheckedAfterFill(t, j) == j > t.from

(* The bars a trade is checked on: from its fill bar. *)
Checked(t, j) == j >= t.from

(* _trail_one: the stop the overlays ask for, kept MinStop off the close;  *)
(* it moves by a full step or not at all, and is not left short of the     *)
(* entry once it was, or was asked to be, beyond it.                       *)
NewStop(t, b, target) ==
    IF t.side * (b.close - t.side * MinStop - target) < 0
    THEN b.close - t.side * MinStop
    ELSE target

PastEntry(t, price) == t.side * (price - t.entry) >= 0

(* Mutated form of Trails: the wish is compared with the stop, the stop    *)
(* that is set is not.                                                     *)
TrailsOnWish(t, b, target) ==
    /\ target # Nothing
    /\ t.side * (target - t.sl) > 0

Trails(t, b, target) ==
    /\ target # Nothing
    /\ t.side * (target - t.sl) > 0
    /\ t.side * (NewStop(t, b, target) - t.sl) >= MinStep
    /\ PastEntry(t, t.sl) \/ PastEntry(t, target)
         => PastEntry(t, NewStop(t, b, target))

Trailed(t, b, target) ==
    IF Trails(t, b, target)
    THEN [t EXCEPT !.sl = NewStop(t, b, target), !.trailing = TRUE]
    ELSE t

(* _scale_one: a third is banked once, at the close of the first bar that  *)
(* gained enough.                                                          *)
Gain(t, price) == t.side * (price - t.entry)

ScaledOut(t, b) ==
    IF AtR > 0 /\ t.weight = Whole /\ Gain(t, b.close) >= AtR * t.dist
    THEN [t EXCEPT !.weight = Whole - 1,
                   !.banked = Gain(t, b.close) - Commission]
    ELSE t

(* _record_trade *)
RecordTrade(t, b, price, reason) ==
    [side |-> t.side, reason |-> reason, price |-> price, bar |-> b,
     dist |-> t.dist, flipped |-> t.flipped,
     gap |-> t.side * (b.open - t.sl) < 0,
     worth |-> t.banked + t.weight * (Gain(t, price) - Commission)]

-----------------------------------------------------------------------------
Trades ==
    [side : Sides, entry : Int, sl : Int, dist : Dists, trailing : BOOLEAN,
     weight : {Whole - 1, Whole}, banked : Int, from : 1 .. LastBar,
     flipped : BOOLEAN]

ReplayTypeOK ==
    /\ bar \in 0 .. LastBar
    /\ signals \subseteq Sides
    /\ trade \in Trades \union {Nothing}
    /\ resume \in Int
    /\ \A c \in closed : c.bar \in Bars /\ c.worth \in Int
    /\ overdue \in BOOLEAN

ReplayInit ==
    /\ bar = 0
    /\ signals \in SUBSET Sides
    /\ trade = Nothing
    /\ resume = -1
    /\ closed = {}
    /\ overdue = FALSE

(* The trade on a bar: the one carried into it, or the one its open fills. *)
(* Nothing is opened on the last bar.                                      *)
Fills(j, refusals) ==
    /\ trade = Nothing
    /\ j < LastBar
    /\ refusals = {}
    /\ OneWay(signals)
    /\ bar > resume

On(b, j, refusals, dist) ==
    IF Fills(j, refusals) THEN Fresh(SideOf(signals), b.open, dist, j, FALSE)
    ELSE trade

Proceed(j) ==
    /\ bar' = j
    /\ signals' \in SUBSET Sides
    /\ j = LastBar => signals' = {}

(* The slot is free at the exit bar's own close; a cooldown counts from    *)
(* the fill.                                                               *)
Resume(t) == t.from + Cooldown - 1

(* No trade, and none opened. *)
Idle(b, refusals) ==
    /\ bar < LastBar
    /\ trade = Nothing
    /\ ~Fills(bar + 1, refusals)
    /\ Proceed(bar + 1)
    /\ closed' = {}
    /\ UNCHANGED <<trade, resume>>

Stopped(t, b) ==
    /\ Checked(t, bar + 1)
    /\ StopHit(t, b)
    /\ trade' = Nothing
    /\ closed' = {RecordTrade(t, b, StopFill(t, b),
                         IF t.trailing THEN "trail" ELSE "stop")}
    /\ resume' = Resume(t)
    /\ Proceed(bar + 1)

Flattened(t, b, flatten) ==
    /\ Checked(t, bar + 1)
    /\ ~StopHit(t, b)
    /\ flatten
    /\ trade' = Nothing
    /\ closed' = {RecordTrade(t, b, b.close, "flatten")}
    /\ resume' = Resume(t)
    /\ Proceed(bar + 1)

(* The other side signalled on the bar before: out at this open, and into  *)
(* the other side at the same open when its own checks pass.  The new      *)
(* trade's fill bar is not looked at again.                                *)
Reversed(t, b, flatten, refusals, dist) ==
    /\ ReverseOnSignal
    /\ ~StopHit(t, b) /\ ~flatten
    /\ bar + 1 > t.from
    /\ signals = {-t.side}
    /\ "tradable" \notin refusals
    /\ IF refusals \subseteq {"stale"}
       THEN LET new == Fresh(-t.side, b.open, dist, bar + 1, TRUE)
            IN  IF bar + 1 = LastBar
                THEN /\ closed' = {RecordTrade(t, b, b.open, "reverse"),
                                   RecordTrade(new, b, b.close, "time")}
                     /\ trade' = Nothing
                     /\ resume' = Resume(new)
                ELSE /\ closed' = {RecordTrade(t, b, b.open, "reverse")}
                     /\ trade' = new
                     /\ UNCHANGED resume
       ELSE /\ closed' = {RecordTrade(t, b, b.open, "reverse")}
            /\ trade' = Nothing
            /\ resume' = Resume(t)
    /\ Proceed(bar + 1)

Flips(t, refusals) ==
    /\ ReverseOnSignal
    /\ bar + 1 > t.from
    /\ signals = {-t.side}
    /\ "tradable" \notin refusals

(* The bar closes with the trade open: trail, then scale out.  The window  *)
(* ends every trade at its last close.                                     *)
Held(t, b, flatten, refusals, target) ==
    /\ Checked(t, bar + 1) => ~StopHit(t, b) /\ ~flatten
    /\ ~Flips(t, refusals)
    /\ LET kept == ScaledOut(Trailed(t, b, target), b)
       IN  IF bar + 1 = LastBar
           THEN /\ closed' = {RecordTrade(kept, b, b.close, "time")}
                /\ trade' = Nothing
                /\ resume' = Resume(t)
           ELSE /\ closed' = {}
                /\ trade' = kept
                /\ UNCHANGED resume
    /\ Proceed(bar + 1)

Replayed(b, flatten, refusals, dist, target) ==
    \/ Idle(b, refusals) /\ overdue' = FALSE
    \/ /\ bar < LastBar
       /\ LET t == On(b, bar + 1, refusals, dist)
          IN  /\ t # Nothing
              /\ \/ Stopped(t, b)
                 \/ Flattened(t, b, flatten)
                 \/ Reversed(t, b, flatten, refusals, dist)
                 \/ Held(t, b, flatten, refusals, target)
              /\ overdue' = (trade' # Nothing /\ (flatten \/ StopHit(t, b)))

ReplayNext ==
    \E b \in Bars, flatten \in BOOLEAN,
       refusals \in {{}} \union {{r} : r \in Refusals},
       dist \in Dists, target \in Targets \union {Nothing} :
        Replayed(b, flatten, refusals, dist, target)

ReplaySpec == ReplayInit /\ [][ReplayNext]_replayVars

-----------------------------------------------------------------------------
(* A trade leaves at a price its last bar printed (a sell at the ask, up   *)
(* to the spread above it): the replay is paid nothing the market never    *)
(* offered, over gaps too.                                                 *)
FillTraded ==
    \A c \in closed :
        /\ c.bar.low <= c.price
        /\ c.price <= c.bar.high + (IF c.side = Sell THEN Spread ELSE 0)

(* However the stop was trailed and scaled, a trade that did not gap       *)
(* through its stop loses at most its stop distance and the commission.    *)
(* A trade opened by a flip is left out: its fill bar is not checked.      *)
LossIsOneR ==
    \A c \in closed :
        ~c.gap /\ ~c.flipped => c.worth >= -Whole * (c.dist + Commission)

(* No trade survives a bar the live engine would have flattened on, or one *)
(* that printed its stop, its own fill bar included (a flip's apart).      *)
NothingSurvives == ~overdue

=============================================================================
