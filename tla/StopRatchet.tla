----------------------------- MODULE StopRatchet ------------------------------
(***************************************************************************)
(* The stop of one open position: Engine._update_stop and                  *)
(* _repair_stopless_stop (src/micofx/engine.py), the overlay they share    *)
(* with the simulator (src/micofx/exits.py), the level that MT5Client      *)
(* sends, and what ExecutionMonitor remembers of the fill                  *)
(* (src/micofx/execution.py).                                              *)
(*                                                                         *)
(* Every price is a whole number: its distance from the entry in the       *)
(* direction of the trade.  A buy and a sell are then one case, except     *)
(* where the code tells them apart: bars are drawn at the bid, so for a    *)
(* sell the chart runs Spread ahead of the quote that closes the position. *)
(*                                                                         *)
(* Actors: the market, the broker (stops out, refuses, loses an answer),   *)
(* the operator (moves the stop by hand, edits the overlays), the poll     *)
(* thread, whoever restarts the process.                                   *)
(***************************************************************************)
EXTENDS Integers, FiniteSetsExt

CONSTANTS
    None,           \* no stop, no bar, no book, no request
    Sides,          \* subset of {"buy", "sell"}
    Prices,         \* quotes
    SignalCloses,   \* closes of the bar whose signal opened the position
    Atrs, Swings,   \* what a closed bar may carry: its ATR, the buffered swing
    Configs,        \* SymbolConfig: the exit parameters, overlays included
    Entry,          \* the entry price itself
    Risk,           \* stop distance the position was opened with
    Tick,           \* tick_size; odd, so that no level is half way
    Spread,
    MinStops,       \* values min_stop_distance takes as the spread moves
    StopsLevel,     \* the distance the broker really insists on
    MaxBar,         \* bound: closed bars since the signal
    MaxTroubles,    \* bound: edits by hand, edits of the configuration, lost
                    \* answers and process restarts together
    HandInCycle     \* TRUE: a hand may move the stop between the book read of
                    \* a cycle and its modify

ASSUME PriceAssumption ==
    /\ Prices \subseteq Int /\ SignalCloses \subseteq Int
    /\ Swings \subseteq Int \cup {None} /\ Atrs \subseteq Nat \ {0} /\ None \notin Int
    /\ IsFiniteSet(SignalCloses)
ASSUME ConfigAssumption ==
    \A c \in Configs :
        /\ {c.sl_mult, c.start, c.step, c.be_at, c.harvest_at, c.harvest_step} \subseteq Nat
        /\ c.mode \in {"atr", "structure", "hybrid"}
        /\ c.locks \subseteq [at_r : Nat, to_r : Nat] /\ IsFiniteSet(c.locks)
ASSUME TickAssumption ==
    /\ Tick \in Nat \ {0} /\ Entry \in Nat \ {0} /\ Risk \in Nat \ {0}
    /\ Spread \in Nat /\ StopsLevel \in Nat /\ MinStops \subseteq Nat
ASSUME SideAssumption == Sides \subseteq {"buy", "sell"} /\ HandInCycle \in BOOLEAN
ASSUME BoundAssumption == MaxBar \in Nat /\ MaxTroubles \in Nat

VARIABLES
    \* the market
    side,       \* of the position
    live,       \* the quote that would close it
    high,       \* best chart price of the forming bar
    bar,        \* bars closed since the signal bar, which is 0
    last,       \* the last closed bar
    \* the broker
    open, sl,
    \* the operator
    hands, patches, cfg,
    \* the store
    saved,      \* open_original_sl of the ticket: its risk_dist and mfe
    fill,       \* booking of the fill: due, noted, or lost by a restart
    \* the process
    pc,         \* phase of the poll thread
    snap,       \* pos["sl"] of this cycle's book
    bars,       \* state.bars (and state.atr): the bar the last evaluation saw
    book,       \* ExecutionMonitor._open of the ticket
    originals,  \* ExecutionMonitor._originals of the ticket
    request,    \* the modify on its way
    lost, restarts,
    \* history
    best,       \* best chart price since the opening
    told        \* best excursion a tracked book or a managed bar has shown

market  == <<side, live, high, bar, last, best>>
broker  == <<open, sl>>
hand    == <<hands, patches, cfg>>
store   == <<saved, fill>>
memory  == <<snap, bars, book, originals, request>>
troubles  == <<lost, restarts>>
vars    == <<market, broker, hand, store, pc, memory, troubles, told>>

-----------------------------------------------------------------------------
Higher(x, y) == IF x > y THEN x ELSE y
Lower(x, y)  == IF x < y THEN x ELSE y

Gap == IF side = "sell" THEN Spread ELSE 0      \* chart price ahead of the quote

\* The nearest level the broker can hold.
Norm(x) == Tick * ((x + Tick \div 2) \div Tick)

\* The price of a level; levels at or below zero are never sent.
Price(x) == IF side = "sell" THEN Entry - x ELSE Entry + x

SignalBars == [n : {0}, close : SignalCloses, high : {Max(SignalCloses)}, atr : Atrs,
               swing : Swings]
NoBook     == [risk |-> 0, mfe |-> 0]

Init ==
    /\ side \in Sides /\ live = 0 /\ high = Gap /\ best = Gap /\ bar = 0
    /\ last \in SignalBars
    /\ open = TRUE /\ sl \in {Norm(-Risk), None}
    /\ hands = 0 /\ patches = 0 /\ cfg \in Configs
    /\ saved = None /\ fill = "due"
    /\ pc = "idle" /\ snap = None /\ bars = last /\ book = None /\ originals = None
    /\ request = None /\ lost = 0 /\ restarts = 0 /\ told = 0

-----------------------------------------------------------------------------
(* The market, the broker and the operator.                                *)

World == UNCHANGED <<store, pc, memory, troubles, told>>

Troubled == hands + patches + lost + restarts < MaxTroubles

Hit == sl # None /\ live <= sl

PriceMoves ==
    /\ open /\ ~Hit
    /\ live' \in Prices \ {live}
    /\ high' = Higher(high, live' + Gap) /\ best' = Higher(best, live' + Gap)
    /\ UNCHANGED <<side, bar, last, broker, hand>> /\ World

BarCloses ==
    /\ open /\ ~Hit /\ bar < MaxBar
    /\ bar' = bar + 1
    /\ last' \in [n : {bar + 1}, close : {live + Gap}, high : {high}, atr : Atrs,
                  swing : Swings]
    /\ high' = live + Gap
    /\ UNCHANGED <<side, live, best, broker, hand>> /\ World

StopHit ==
    /\ open /\ Hit
    /\ open' = FALSE
    /\ UNCHANGED <<market, sl, hand>> /\ World

\* The operator moves the stop in the terminal, or takes it away.
HandMoves ==
    /\ open /\ Troubled /\ (HandInCycle \/ pc \in {"idle", "evaluate"})
    /\ sl' \in {Norm(p) : p \in {q \in Prices : q <= live - StopsLevel}} \cup {None}
    /\ hands' = hands + 1
    /\ UNCHANGED <<market, open, patches, cfg>> /\ World

\* Overlays may be edited while the position is open, its exit parameters may not.
Patch ==
    /\ Troubled
    /\ cfg' \in {c \in Configs : /\ c.sl_mult = cfg.sl_mult /\ c.start = cfg.start
                                 /\ c.step = cfg.step /\ c.mode = cfg.mode}
    /\ patches' = patches + 1
    /\ UNCHANGED <<market, broker, hands>> /\ World

-----------------------------------------------------------------------------
(* What is remembered of the fill.                                         *)

\* A fact of the fill is kept once it is known.
Noted(b, risk) == IF b = None THEN [NoBook EXCEPT !.risk = risk]
                  ELSE IF b.risk <= 0 THEN [b EXCEPT !.risk = risk] ELSE b

Recorded(b) ==
    [risk |-> b.risk,
     mfe  |-> IF originals = None THEN b.mfe ELSE Higher(originals.mfe, b.mfe)]

NoteFill(risk) ==
    /\ book' = Noted(book, risk)
    /\ originals' = Recorded(book')
    /\ saved' = originals'

\* The booking of the entry; a deferred one comes after the first cycles.
Book ==
    /\ pc = "idle" /\ open /\ fill = "due"
    /\ fill' = "noted"
    /\ NoteFill(Risk)
    /\ UNCHANGED <<market, broker, hand, pc, snap, bars, request, troubles, told>>

\* Mutated form of FirstSight: the distance keeps the sign of the level.
FirstSightSigned ==
    [NoBook EXCEPT !.risk = IF originals # None /\ originals.risk > 0 THEN originals.risk
                            ELSE IF sl = None THEN 0 ELSE -sl]

FirstSight ==
    [NoBook EXCEPT !.risk = IF originals # None /\ originals.risk > 0 THEN originals.risk
                            ELSE IF sl = None THEN 0 ELSE Higher(sl, -sl)]

Tracked ==
    LET b    == IF book = None THEN FirstSight ELSE book
        kept == IF originals = None THEN 0 ELSE originals.mfe
    IN [b EXCEPT !.mfe = Higher(Higher(b.mfe, kept), live)]

\* A peak higher than the recorded one is recorded and stored.
Peaked(b) == IF originals = None THEN None
             ELSE [originals EXCEPT !.mfe = Higher(@, b.mfe)]

\* Mutated form of PersistsPeak: the peak is stored with the next fill only.
PersistsLater(b) == saved

PersistsPeak(b) == IF originals # None /\ b.mfe > originals.mfe THEN Peaked(b) ELSE saved

\* The positions are read and tracked at the start of a cycle.
ReadBook ==
    /\ pc = "idle" /\ open
    /\ snap' = sl
    /\ book' = Tracked
    /\ originals' = Peaked(book') /\ saved' = PersistsPeak(book')
    /\ told' = Higher(told, book'.mfe)
    /\ pc' = IF sl = None THEN "repair" ELSE "update"
    /\ UNCHANGED <<market, broker, hand, fill, bars, request, troubles>>

\* The ticket is gone: its record goes with the next write.
ReadGone ==
    /\ pc = "idle" /\ ~open /\ (book # None \/ originals # None)
    /\ book' = None /\ originals' = None /\ saved' = None
    /\ fill' = "lost" /\ told' = 0
    /\ UNCHANGED <<market, broker, hand, pc, snap, bars, request, troubles>>

-----------------------------------------------------------------------------
(* The level the stop is asked to stand at.                                *)

FillRisk(atr, m) == IF originals # None /\ originals.risk > 0 THEN originals.risk
                 ELSE Higher(atr * cfg.sl_mult, m)

HarvestOn(profit, risk) ==
    cfg.harvest_at > 0 /\ cfg.harvest_step > 0 /\ profit >= cfg.harvest_at * risk

Step(profit, risk) ==
    IF ~HarvestOn(profit, risk) THEN cfg.step
    ELSE IF cfg.step > 0 THEN Lower(cfg.step, cfg.harvest_step) ELSE cfg.harvest_step

TrailArmed(profit, atr, risk) ==
    \/ cfg.start > 0 /\ profit >= atr * cfg.start
    \/ HarvestOn(profit, risk)

TrailLevel(ref, atr, swing, risk) ==
    LET byAtr == ref - atr * Step(ref, risk)
    IN CASE swing # None /\ cfg.mode = "structure" -> swing
         [] swing # None /\ cfg.mode = "hybrid"    -> Higher(byAtr, swing)
         [] OTHER                                  -> byAtr

\* Mutated form of LockLevels: only the close arms a lock.
LocksAtClose(profit, risk, peak) ==
    {l.to_r * risk : l \in {k \in cfg.locks : profit > 0 /\ profit >= k.at_r * risk}}

\* peak is the best excursion on record; without one the close is all there is.
LockLevels(profit, risk, peak) ==
    LET arm == IF peak > 0 THEN Higher(profit, peak) ELSE profit
    IN {l.to_r * risk : l \in {k \in cfg.locks : arm > 0 /\ arm >= k.at_r * risk}}

Wanted(b, risk, peak) ==
    (IF /\ b.close > 0 /\ Step(b.close, risk) > 0 /\ TrailArmed(b.close, b.atr, risk)
     THEN {TrailLevel(b.close, b.atr, b.swing, risk)} ELSE {})
    \cup (IF cfg.be_at > 0 /\ b.close >= cfg.be_at * risk THEN {0} ELSE {})
    \cup LockLevels(b.close, risk, peak)

\* The bar's own extreme counts once the whole bar came after the fill.
BarPeak(b, m) == IF b.n >= 2 THEN b.high - (IF side = "sell" THEN m ELSE 0) ELSE 0

\* twenty times trail_min_step
MinStep20(atr, step, m) == Higher(5 * m, 2 * atr * step)

\* Mutated form of Placeable: any difference from the stop is worth a modify.
PlaceableAnyway(wanted, b, risk, m) ==
    LET target == Lower(wanted, live - m)
    IN IF \/ wanted >= 0 /\ target < 0
          \/ snap = target
          \/ target <= -risk
          \/ Price(target) <= 0 \/ Price(Norm(target)) <= 0
       THEN None ELSE Norm(target)

\* The level to send for a wanted one, None when this cycle sends nothing.
Placeable(wanted, b, risk, m) ==
    LET target == Lower(wanted, live - m)
        locked == snap # None /\ snap >= 0
    IN IF \/ (locked \/ wanted >= 0) /\ target < 0
          \/ snap # None /\ 20 * (target - snap) < MinStep20(b.atr, Step(b.close, risk), m)
          \/ target <= -risk
          \/ Price(target) <= 0 \/ Price(Norm(target)) <= 0
       THEN None ELSE Norm(target)

StopFor(b, peak, m) ==
    LET risk == FillRisk(b.atr, m)
        all  == Wanted(b, risk, peak)
    IN IF all = {} THEN None ELSE Placeable(Max(all), b, risk, m)

\* Mutated form of Consults: whichever bar the last evaluation saw.
ConsultsAny(b) == b # None

\* The reference bar has to have closed after the position opened.
Consults(b) == b # None /\ b.n > 0

Goes(level, what, risk) ==
    /\ request' = IF level = None THEN None
                  ELSE [what |-> what, level |-> level, risk |-> risk]
    /\ pc' = IF level # None THEN "send" ELSE IF what = "repair" THEN "update" ELSE "evaluate"

UpdateStop ==
    /\ pc = "update"
    /\ IF ~Consults(bars)
       THEN Goes(None, "update", 0) /\ UNCHANGED book
       ELSE \E m \in MinStops :
                LET peak == Higher(book.mfe, BarPeak(bars, m))
                IN /\ book' = [book EXCEPT !.mfe = peak]
                   /\ Goes(StopFor(bars, peak, m), "update", 0)
    /\ UNCHANGED <<market, broker, hand, store, snap, bars, originals, troubles, told>>

\* A stop at the fill-time distance, or as near to it as the quote allows.
RepairLevel(risk, m) ==
    LET level == Norm(Lower(Norm(-risk), live - m))
    IN IF risk > 0 /\ Price(-risk) > 0 /\ Price(Norm(-risk)) > 0 /\ Price(level) > 0
       THEN level ELSE None

\* Somebody attached a stop since the book was read: it is kept as it is.
Adopts(level, risk) == level = -risk /\ sl # None

RepairStop ==
    /\ pc = "repair"
    /\ \E m \in MinStops :
        LET risk  == FillRisk(IF bars = None THEN 0 ELSE bars.atr, m)
            level == RepairLevel(risk, m)
        IN IF Adopts(level, risk)
           THEN NoteFill(risk) /\ pc' = "evaluate" /\ UNCHANGED request
           ELSE Goes(level, "repair", risk) /\ UNCHANGED <<book, originals, saved>>
    /\ UNCHANGED <<market, broker, hand, fill, snap, bars, troubles, told>>

-----------------------------------------------------------------------------
(* The modify on its way, and the rest of the cycle.                       *)

Legal(level) == open /\ level <= live - StopsLevel

\* What the engine does with the answer.
Answered(ok) ==
    /\ request' = None
    /\ pc' = IF request.what = "repair" /\ ~ok THEN "update" ELSE "evaluate"
    /\ IF request.what = "repair" /\ ok THEN NoteFill(request.risk)
       ELSE UNCHANGED <<book, originals, saved>>
    /\ UNCHANGED <<market, hand, fill, snap, bars, restarts, told>>

BrokerTakes ==
    /\ pc = "send" /\ Legal(request.level)
    /\ sl' = request.level
    /\ Answered(TRUE)
    /\ UNCHANGED <<open, lost>>

BrokerRefuses ==
    /\ pc = "send" /\ ~Legal(request.level)
    /\ Answered(FALSE)
    /\ UNCHANGED <<broker, lost>>

\* order_send returns nothing, whether the broker acted on it or not.
AnswerLost ==
    /\ pc = "send" /\ Troubled
    /\ sl' \in {sl} \cup (IF Legal(request.level) THEN {request.level} ELSE {})
    /\ lost' = lost + 1
    /\ Answered(FALSE)
    /\ UNCHANGED open

Evaluate ==
    /\ pc = "evaluate"
    /\ bars' = last
    /\ pc' = "idle" /\ snap' = None
    /\ UNCHANGED <<market, broker, hand, store, book, originals, request, troubles, told>>

Restart ==
    /\ Troubled
    /\ restarts' = restarts + 1
    /\ pc' = "idle" /\ snap' = None /\ bars' = None /\ book' = None /\ request' = None
    /\ originals' = saved
    /\ fill' = IF fill = "due" THEN "lost" ELSE fill
    /\ told' = IF saved = None THEN 0 ELSE told
    /\ UNCHANGED <<market, broker, hand, saved, lost>>

-----------------------------------------------------------------------------
MarketNext == PriceMoves \/ BarCloses \/ StopHit
HandNext   == HandMoves \/ Patch
PollNext   == \/ ReadBook \/ ReadGone \/ RepairStop \/ UpdateStop
              \/ BrokerTakes \/ BrokerRefuses \/ AnswerLost \/ Evaluate

Next == MarketNext \/ HandNext \/ Book \/ PollNext \/ Restart

Spec == Init /\ [][Next]_vars

\* The poll loop keeps turning and a stop that is hit is executed.
FairSpec == Spec /\ WF_vars(PollNext) /\ WF_vars(StopHit)

-----------------------------------------------------------------------------
(* Properties.                                                             *)

Records  == [risk : Nat, mfe : Nat]
Books    == Records \cup {None}
Modifies == [what : {"repair", "update"}, level : Int, risk : Nat]

ASSUME NullAssumption == None \notin Modifies \cup Records

\* Every variable has its type.
TypeOK ==
    /\ side \in Sides /\ {live, high, best} \subseteq Int /\ bar \in 0..MaxBar
    /\ {last, bars} \ {None} \subseteq [n : 0..MaxBar, close : Int, high : Int,
                                       atr : Atrs, swing : Swings]
    /\ open \in BOOLEAN /\ {sl, snap} \subseteq Int \cup {None}
    /\ {hands, patches, lost, restarts} \subseteq 0..MaxTroubles /\ cfg \in Configs
    /\ {saved, book, originals} \subseteq Books
    /\ fill \in {"due", "noted", "lost"}
    /\ pc \in {"idle", "repair", "update", "send", "evaluate"}
    /\ request \in Modifies \cup {None} /\ (pc = "send" <=> request # None)
    /\ told \in Nat

\* The stop is a ladder: whatever the rounding, the spread, the rule that wants
\* the level, the answer that got lost or the restart, the engine never lowers
\* a stop that stands at the broker (_update_stop, modify_position).
Ladder  == INSTANCE StopLadder WITH level <- sl, open <- open, hands <- hands
Ratchet == Ladder!Spec

\* What a stop in profit takes, for a given unit of risk.
Thresholds(c, r) ==
    {k.at_r * r : k \in c.locks}
    \cup {x * r : x \in {c.be_at, c.harvest_at} \ {0}}
    \cup {a * c.start : a \in Atrs}

\* A stop stands at break-even or better only if the chart really went, after
\* the position was opened, as far as one of the rules asks: never on the
\* strength of a bar that closed before the fill (_update_stop's reference bar,
\* and the peak that ExecutionMonitor keeps).
EarnedOnly ==
    (/\ hands = 0 /\ patches = 0 /\ sl # None /\ sl >= 0
     /\ originals # None /\ originals.risk = Risk)
        => \E t \in Thresholds(cfg, Risk) : best >= t

\* A peak the poll thread has tracked outlives the process, as soon as the fill
\* itself is on record: the lock it earned is not lost by a restart.
PeakKept == saved # None => saved.mfe >= told

\* A lock is earned, and the quote leaves room to place it.
LockDue ==
    /\ open /\ fill = "noted"
    /\ originals # None
    /\ \E k \in cfg.locks : /\ told >= k.at_r * originals.risk
                            /\ live - Max(MinStops) - Tick >= k.to_r * originals.risk
    /\ bars # None /\ bars.n > 0

\* An earned lock is placed: a refused, deferred or lost modify is tried again,
\* so a position that has earned one, while its price leaves room for it, ends up
\* with a stop at break-even or better (_update_stop runs in every cycle).
LockPlaced == <>[]LockDue => <>[](sl # None /\ sl >= 0)
===============================================================================
