-------------------------------- MODULE Sizing --------------------------------
(***************************************************************************)
(* How many lots an entry takes, and what the whole book may lose: the     *)
(* account dials (micofx/kasa_sizing.py), the share of the margin, the 1R  *)
(* ceiling and the broker's minimum lot (RiskManager.lot_for), and the     *)
(* book-wide gates of can_open.  An entry is sized first, and sent after   *)
(* fresh reads of positions and account have passed the gates again.       *)
(*                                                                         *)
(* Money is in dollars, risks in cents, lots in the broker's volume steps, *)
(* factors in the units named beside them.  One position per symbol.       *)
(***************************************************************************)
EXTENDS Integers, FiniteSets, FiniteSetsExt, Functions

CONSTANTS
    Traded,        \* symbols
    Spec1R,        \* per symbol: need, risk, floor, ceiling, percent, exp, net, dd
    Accounts,      \* what the account's equity and balance may be
    Panels,        \* settings of the operator, with the pins on the dials
    Rosters,       \* sets of enabled symbols
    Throttles,     \* scales the supervisor's gate answers, tenths
    Health,        \* supervisor_edge_health, per symbol
    MinFree,       \* min_free_margin
    ByEdge,        \* size_by_edge
    Verifies,      \* TRUE: an answer may stay open while the next entry is sized
    MidEdits,      \* TRUE: the panel may write between an entry's size and its gates
    MarginFails,   \* TRUE: margin_for may answer nothing while an entry is sized
    Void           \* no position, no order

(* need: margin of one step; risk: cents one step loses at the stop; floor *)
(* and ceiling: volume_min and volume_max; percent: risk_percent in tenths *)
(* of a per cent; exp: holdout expectancy in hundredths of R; net, dd: the *)
(* holdout's net and drawdown; tight: the stop sits at the broker's least. *)
SizedSymbol ==
    [need : Nat \ {0}, risk : Nat \ {0}, floor : Nat \ {0}, ceiling : Nat \ {0},
     percent : Nat, exp : Nat, net : Int, dd : Nat, tight : BOOLEAN]

(* auto: kasa_auto_enabled; usage: max_margin_usage_pct; mult: the stored  *)
(* lot_multiplier in hundredths; cap: the stored max_concurrent_risk_pct   *)
(* in tenths of a per cent.                                                *)
Panel1R == [auto : BOOLEAN, pinLot : BOOLEAN, pinCap : BOOLEAN,
            usage : 0..100, mult : Nat, cap : Nat]

ASSUME SizingSymbols ==
    /\ IsFiniteSet(Traded)
    /\ Spec1R \in [Traded -> SizedSymbol] /\ Health \in [Traded -> Nat]
    /\ \A n \in Traded : Spec1R[n].floor <= Spec1R[n].ceiling

ASSUME SizingDials ==
    /\ Accounts \subseteq [equity : Nat \ {0}, balance : Nat \ {0}] /\ Panels \subseteq Panel1R
    /\ Rosters \subseteq SUBSET Traded
    /\ Throttles \subseteq Nat /\ MinFree \in Nat
    /\ {ByEdge, Verifies, MidEdits, MarginFails} \subseteq BOOLEAN

VARIABLES
    account,    \* equity and balance
    dials,      \* the operator's settings and the pins on them
    enabled1R,  \* enabled symbols
    barred,     \* symbols the supervisor refuses
    fills,      \* per symbol: its position, or Void
    answers,    \* per symbol: lots of an order whose answer is verified, or 0
    sized       \* the entry that has its lot and waits for the lock, or Void

sizingVars == <<account, dials, enabled1R, barred, fills, answers, sized>>

Held1R == {n \in Traded : fills[n] # Void}
Fill1R == [lot : Nat, risk : Nat, naked : BOOLEAN]

(* No lot that waits, is in verification or held exceeds volume_max.       *)
SizingTypeOK ==
    /\ account \in Accounts
    /\ dials \in Panels
    /\ enabled1R \in Rosters /\ barred \in SUBSET Traded
    /\ fills \in [Traded -> Fill1R \cup {Void}] /\ answers \in [Traded -> Nat]
    /\ \A n \in Traded : /\ fills[n] # Void => fills[n].lot <= Spec1R[n].ceiling
                         /\ answers[n] <= Spec1R[n].ceiling
    /\ sized # Void => sized.name \in Traded /\ sized.lot \in 0..Spec1R[sized.name].ceiling

-----------------------------------------------------------------------------
(* The account dials *)

(* equity_lot_base, in hundredths *)
EquityLotBase(eq) ==
    CASE eq < 120 -> 65 [] eq < 250 -> 92 [] eq < 500 -> 100 [] eq < 1200 -> 115
      [] eq < 2000 -> 130 [] eq < 3500 -> 150 [] eq < 6000 -> 175
      [] OTHER -> Min({250, 175 + (eq - 6000) \div 100})

(* Python rounds a half to the even neighbour.                             *)
Rounded(a, b) ==
    LET q == a \div b  r == 2 * (a % b)
    IN  IF r > b \/ (r = b /\ q % 2 = 1) THEN q + 1 ELSE q

Clamp(x, lo, hi) == Max({lo, Min({x, hi})})

(* max_margin_usage_pct against the reference of 80; 0 reads as 80 too.    *)
Usage == IF dials.usage = 0 THEN 80 ELSE dials.usage

(* quantize_lot_mult of the tier times the aggression: steps of 0.02.      *)
LotTarget == Clamp(2 * Rounded(EquityLotBase(account.equity) * Min({Usage, 100}), 160), 30, 250)

(* conc_target in tenths of a per cent: as many names as are enabled at 2% *)
(* each and a tenth more, at least 5, at most 15 + 40 x aggression and 50. *)
CapTarget ==
    LET n == Max({1, Cardinality(enabled1R)})
    IN  Min({500, 150 + 5 * Min({Usage, 100}), Max({50, Rounded(22 * n * LotTarget, 100)})})

(* live_lot_multiplier, hundredths: the dial, or the operator's number.    *)
LiveMult ==
    IF dials.auto /\ ~dials.pinLot /\ dials.usage > 0 THEN LotTarget
    ELSE Max({10, dials.mult})

(* live_concurrent_pct, tenths of a per cent; 0 is off.                    *)
LiveCap == IF dials.auto /\ ~dials.pinCap THEN CapTarget ELSE dials.cap

-----------------------------------------------------------------------------
(* Shares and scales *)

(* _vacant_enabled_cfgs: enabled, below its cap, not refused.              *)
Vacant == (enabled1R \ Held1R) \ barred

(* The k-th smallest value of f over S, and twice the median.              *)
Kth(f, S, k) ==
    CHOOSE v \in {f[n] : n \in S} :
        /\ Cardinality({n \in S : f[n] < v}) < k
        /\ k <= Cardinality({n \in S : f[n] <= v})

TwiceMedian(f, S) ==
    LET c == Cardinality(S) IN Kth(f, S, (c + 1) \div 2) + Kth(f, S, c \div 2 + 1)

(* _min_budget_weight, thousandths: 2% or 15% of the median expectancy.    *)
MinWeight ==
    LET paid == {n \in Vacant : Spec1R[n].exp > 0}
        exp == [n \in Traded |-> Spec1R[n].exp]
    IN  IF paid = {} THEN 20 ELSE Max({20, (3 * TwiceMedian(exp, paid)) \div 4})

(* _symbol_budget_weight, thousandths *)
Weight1R(n) ==
    LET e == Spec1R[n].exp  h == Health[n]
        core == IF h = 0 THEN 10 * e ELSE IF e > 0 THEN (7 + 3 * h) * e ELSE 20 * h
    IN  core + MinWeight

AllWeights == SumFunction([n \in Vacant |-> Weight1R(n)])

(* edge_scale, tenths: the root of a symbol's net over drawdown against    *)
(* the median of the enabled ones, between 0.6 and 2.2.                    *)
Edge(n) == IF Spec1R[n].net > 0 /\ Spec1R[n].dd > 0
           THEN (100 * Spec1R[n].net) \div Spec1R[n].dd ELSE 0

EdgeScale(n) ==
    LET rated == {k \in enabled1R : Edge(k) > 0}
        edge == [k \in Traded |-> Edge(k)]
        twice == TwiceMedian(edge, rated)
    IN  IF ~ByEdge \/ n \notin rated \/ Cardinality(rated) < 3 THEN 10
        ELSE Max({6} \cup {e \in 6..(IF Spec1R[n].tight THEN 10 ELSE 22) :
                              e * e * twice <= 200 * edge[n]})

-----------------------------------------------------------------------------
(* Margin *)

Used == SumFunction([n \in Held1R |-> fills[n].lot * Spec1R[n].need])
FreeMargin == account.equity - Used

(* What the margin dial, the soft 95% and min_free_margin leave.           *)
MarginBudget ==
    LET dial == IF dials.usage > 0
                THEN Max({0, (account.equity * dials.usage) \div 100 - Used}) ELSE FreeMargin
        soft == (account.equity * 95) \div 100 - Used
        capped == IF dials.auto THEN Max({0, Min({dial, soft})}) ELSE dial
    IN  Max({0, Min({capped, FreeMargin - MinFree})})

(* Mutated form of MarginLots: a share below the minimum lot sizes nothing.*)
MarginLotsSplit(n, scale) ==
    LET s == Spec1R[n]
        weight == IF n \in Vacant THEN Weight1R(n) ELSE 0
        total == IF Vacant = {} THEN 1 ELSE AllWeights
    IN  Min({s.ceiling, (MarginBudget * scale * weight) \div (total * 10 * s.need)})

(* _margin_lot_ceiling: this symbol's share of the scaled budget, or all   *)
(* of it when the share is below the minimum lot and the whole is not.     *)
MarginLots(n, scale) ==
    LET s == Spec1R[n]
        whole == MarginBudget * scale
        weight == IF Vacant = {} THEN 1 ELSE IF n \in Vacant THEN Weight1R(n) ELSE 0
        total == IF Vacant = {} THEN 1 ELSE AllWeights
        least == 10 * s.need * s.floor
    IN  IF whole * weight < least * total /\ whole >= least
        THEN Min({s.ceiling, whole \div (10 * s.need)})
        ELSE Min({s.ceiling, (whole * weight) \div (total * 10 * s.need)})

-----------------------------------------------------------------------------
(* The lot *)

(* remaining_position_risk over the book, cents.                           *)
BookRisk == SumFunction([n \in Held1R |-> fills[n].risk])
NakedBook == \E n \in Held1R : fills[n].naked

(* The 1R ceiling in ten-thousandths of a cent: at least 2% of balance,    *)
(* times the account dial, times a throttle that never exceeds one.        *)
Ceiling1R(n, scale) ==
    account.balance * Max({Spec1R[n].percent, 20}) * Max({10, LiveMult}) * Min({10, scale})

Micro == 10000

(* book + this fill stay under the concurrent dial: equity x cap, cents.   *)
UnderCap(risk) == 10 * (BookRisk + risk) <= account.equity * LiveCap

(* Mutated form of FloorFits: the minimum lot always fits.                 *)
FloorFitsAlways(n, scale) == TRUE

(* The minimum lot may exceed the ceiling by half, or up to 4.5 times when *)
(* the concurrent dial is on and has room for its 1R.                      *)
FloorFits(n, scale) ==
    LET fill == Spec1R[n].floor * Spec1R[n].risk
    IN  \/ 2 * fill * Micro <= 3 * Ceiling1R(n, scale)
        \/ /\ 2 * fill * Micro < 9 * Ceiling1R(n, scale)
           /\ LiveCap > 0 /\ ~NakedBook /\ UnderCap(fill)

(* _risk_raw_lot: percent of balance times every factor, no ceiling, in    *)
(* steps; the edge is dropped where the stop sits at the broker's minimum. *)
RawMoney(n, scale) ==
    ((account.balance * Spec1R[n].percent * LiveMult * EdgeScale(n)) \div 10) * scale

(* lot_for when the margin of a lot cannot be read.                        *)
RawLot(n, scale) ==
    LET s == Spec1R[n]
        money == RawMoney(n, scale)
    IN  IF money = 0 \/ 2 * s.floor * s.risk * Micro > 3 * money THEN 0
        ELSE Min({s.ceiling, Max({s.floor, money \div (s.risk * Micro)})})

(* lot_for: the most steps that margin share, 1R ceiling and broker maximum  *)
(* allow, lifted to the minimum lot where that fits, else nothing.           *)
LotFor(n, scale) ==
    LET s == Spec1R[n]
        share == MarginLots(n, scale)
        fits == {k \in s.floor..s.ceiling :
                    k <= share /\ k * s.risk * Micro <= Ceiling1R(n, scale)}
    IN  IF s.percent = 0 \/ scale = 0 \/ share < s.floor THEN 0
        ELSE IF fits # {} THEN Max(fits)
        ELSE IF FloorFits(n, scale) THEN s.floor ELSE 0

-----------------------------------------------------------------------------
(* The gates *)

(* can_open, without the limits on counts and the distance between entries *)
(* of one symbol.                                                          *)
CanOpen1R(n, lot) ==
    LET need == lot * Spec1R[n].need
    IN  /\ ~NakedBook
        /\ fills[n] = Void
        /\ FreeMargin - need >= MinFree
        /\ dials.usage > 0 => 100 * (Used + need) <= account.equity * dials.usage
        /\ LiveCap > 0 => UnderCap(lot * Spec1R[n].risk)

-----------------------------------------------------------------------------
(* Entries *)

SizingInit ==
    /\ account \in Accounts
    /\ dials \in Panels /\ enabled1R \in Rosters
    /\ barred = {}
    /\ fills = [n \in Traded |-> Void]
    /\ answers = [n \in Traded |-> 0]
    /\ sized = Void

(* _try_entry up to its first can_open.                                    *)
SizeEntry(n, scale) ==
    /\ sized = Void /\ n \in enabled1R \ barred /\ answers[n] = 0
    /\ \E lot \in {LotFor(n, scale)} \cup (IF MarginFails THEN {RawLot(n, scale)} ELSE {}) :
          /\ lot > 0 /\ CanOpen1R(n, lot)
          /\ sized' = [name |-> n, lot |-> lot, ceiling |-> Ceiling1R(n, scale)]
    /\ UNCHANGED <<account, dials, enabled1R, barred, fills, answers>>

(* Under the lock, on fresh positions and a fresh account, the gates again *)
(* and the order: filled at once, or its answer is verified apart.         *)
SendEntry ==
    /\ sized # Void
    /\ LET n == sized.name IN
       /\ n \in enabled1R
       /\ CanOpen1R(n, sized.lot)
       /\ \/ /\ fills' = [fills EXCEPT ![n] =
                     [lot |-> sized.lot, risk |-> sized.lot * Spec1R[n].risk, naked |-> FALSE]]
             /\ UNCHANGED answers
          \/ /\ Verifies
             /\ answers' = [answers EXCEPT ![n] = sized.lot]
             /\ UNCHANGED fills
    /\ sized' = Void
    /\ UNCHANGED <<account, dials, enabled1R, barred>>

(* The gates refuse it, or the order fails.                                *)
DropEntry ==
    /\ sized # Void /\ sized' = Void
    /\ UNCHANGED <<account, dials, enabled1R, barred, fills, answers>>

(* A verified answer: the position is found, or there is none.             *)
AnswerEntry(n, filled) ==
    /\ answers[n] > 0 /\ fills[n] = Void
    /\ fills' = IF filled
                THEN [fills EXCEPT ![n] = [lot |-> answers[n], naked |-> FALSE,
                                           risk |-> answers[n] * Spec1R[n].risk]]
                ELSE fills
    /\ answers' = [answers EXCEPT ![n] = 0]
    /\ UNCHANGED <<account, dials, enabled1R, barred, sized>>

-----------------------------------------------------------------------------
(* The account, the book and the operator *)

TrailStop(n) ==
    /\ n \in Held1R /\ ~fills[n].naked /\ fills[n].risk > 0
    /\ fills' = [fills EXCEPT ![n].risk = 0]
    /\ UNCHANGED <<account, dials, enabled1R, barred, answers, sized>>

(* A position without a stop is seen, and repaired.                        *)
StopOnOff(n) ==
    /\ n \in Held1R
    /\ fills' = [fills EXCEPT ![n].naked = ~@]
    /\ UNCHANGED <<account, dials, enabled1R, barred, answers, sized>>

CloseFill(n) ==
    /\ n \in Held1R
    /\ fills' = [fills EXCEPT ![n] = Void]
    /\ UNCHANGED <<account, dials, enabled1R, barred, answers, sized>>

MoveAccount(a) ==
    /\ account' = a
    /\ UNCHANGED <<dials, enabled1R, barred, fills, answers, sized>>

EditPanel(d, roster) ==
    /\ MidEdits \/ sized = Void
    /\ dials' = d /\ enabled1R' = roster
    /\ UNCHANGED <<account, barred, fills, answers, sized>>

BarSymbol(n) ==
    /\ barred' = IF n \in barred THEN barred \ {n} ELSE barred \cup {n}
    /\ UNCHANGED <<account, dials, enabled1R, fills, answers, sized>>

SizingNext ==
    \/ \E n \in Traded :
          \/ \E scale \in Throttles : SizeEntry(n, scale)
          \/ \E filled \in BOOLEAN : AnswerEntry(n, filled)
          \/ TrailStop(n) \/ StopOnOff(n) \/ CloseFill(n) \/ BarSymbol(n)
    \/ SendEntry \/ DropEntry
    \/ \E a \in Accounts : MoveAccount(a)
    \/ \E d \in Panels, roster \in Rosters : EditPanel(d, roster)

SizingSpec == SizingInit /\ [][SizingNext]_sizingVars

-----------------------------------------------------------------------------
(* An entry that risks more than one and a half times its 1R ceiling is    *)
(* the broker's minimum lot, and it is sent only while the concurrent dial *)
(* is on and the whole book fits under it (lot_for, "Concurrent 0 = off -> *)
(* do not unlock here"), whatever moved between its size and its send.     *)
OversizeHasRoom ==
    [][SendEntry =>
          LET n == sized.name  risk == sized.lot * Spec1R[n].risk
          IN  2 * risk * Micro > 3 * sized.ceiling =>
                 /\ sized.lot = Spec1R[n].floor
                 /\ LiveCap > 0 /\ UnderCap(risk)]_sizingVars

(* A small account is not locked out by the number of its symbols: where   *)
(* the whole budget carries a minimum lot that the 1R ceiling allows, no   *)
(* split of the budget sizes the entry away.                               *)
SmallBookTrades ==
    \A n \in Vacant, scale \in Throttles \ {0} :
        /\ Spec1R[n].percent > 0
        /\ MarginBudget * scale >= 10 * Spec1R[n].need * Spec1R[n].floor
        /\ Spec1R[n].floor * Spec1R[n].risk * Micro <= Ceiling1R(n, scale)
        => LotFor(n, scale) >= Spec1R[n].floor

(* The supervisor's throttle only tightens: at a smaller scale no entry is *)
(* larger.                                                                 *)
ThrottleTightens ==
    \A n \in enabled1R : \A a, b \in Throttles :
        a <= b => LotFor(n, a) <= LotFor(n, b)

(* When an entry is sent, the book with it and with every order still in   *)
(* verification stays under the concurrent dial.                           *)
BookUnderDial ==
    [][SendEntry /\ LiveCap > 0 =>
          UnderCap(sized.lot * Spec1R[sized.name].risk
                   + SumFunction([n \in Traded |-> answers[n] * Spec1R[n].risk]))]_sizingVars
=============================================================================
