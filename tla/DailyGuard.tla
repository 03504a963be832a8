------------------------------ MODULE DailyGuard ------------------------------
(***************************************************************************)
(* The daily loss breaker: DailyGuard (src/micofx/risk.py) and the part of *)
(* Engine._cycle that feeds it (account snapshot, day rollover, external   *)
(* cash, check) and acts on it (flatten every cycle while the loss halt    *)
(* holds), with the per-symbol halts that live as long as its anchor.      *)
(*                                                                         *)
(* Actors: the poll thread, the market, the operator (moves cash, resumes, *)
(* attaches another account), the clock, whoever restarts the process.     *)
(***************************************************************************)
EXTENDS Integers, FiniteSets

CONSTANTS
    Logins,         \* accounts the terminal may be attached to
    First,          \* the one the guard is anchored on at the start
    Balance,        \* balance of every account at the start
    MaxBalance,     \* bound: balance of an account
    MaxDay,         \* bound: broker days
    MaxMoves,       \* bound: cash movements
    MaxRestarts,    \* bound: process restarts
    Limit,          \* SystemConfig.daily_loss_pct and daily_profit_pct
    Moves,          \* amounts of a cash movement
    Swings,         \* floating results of the open positions
    LateCash,       \* TRUE: cash may move before the guard anchored the account
                    \* on that day
    CashMidCycle    \* TRUE: cash may move between two reads of one cycle

ASSUME AccountsAssumption == IsFiniteSet(Logins) /\ First \in Logins
ASSUME AmountsAssumption  ==
    /\ Balance \in Nat \ {0} /\ MaxBalance \in Nat /\ Balance <= MaxBalance
    /\ Moves \subseteq Int /\ Swings \subseteq Int /\ 0 \in Swings
ASSUME LimitAssumption    ==
    /\ MaxDay \in Nat \ {0} /\ MaxMoves \in Nat /\ MaxRestarts \in Nat
    /\ Limit \in 1..100
ASSUME CashAssumption     == {LateCash, CashMidCycle} \subseteq BOOLEAN

VARIABLES
    \* the market and the operator
    day,        \* broker calendar day
    login,      \* the account the terminal is attached to
    balance,    \* per account
    floating,   \* result of the open positions of the attached account
    exposed,    \* positions are open
    cash,       \* external cash ever moved, per account
    midnight,   \* cash at the start of each day
    moves,      \* cash movements so far
    restarts,   \* process restarts so far
    \* the store: survives a restart
    day_key, start_login, start_balance, cash_flow,
    halt,       \* day_halted and day_loss_halted: none, profit or loss
    symbolHalt, \* settings.symbol_daily_halted: its day_key, 0 when empty
    \* the process: lost by a restart
    pc,         \* phase of the poll thread
    account,    \* the snapshot of this cycle
    flowAt,     \* _cash_flow_balance and whether _cash_flow_at is recent
    \* history
    anchorCash  \* cash of the account when it was anchored

market == <<day, login, balance, floating, exposed, cash, midnight, moves,
            restarts>>
anchor == <<day_key, start_login, start_balance, anchorCash>>
memory == <<pc, account, flowAt>>
vars   == <<market, anchor, cash_flow, halt, symbolHalt, memory>>

-----------------------------------------------------------------------------
Days      == 1..MaxDay
NoAccount == [login |-> First, balance |-> 0, equity |-> 0, cash |-> 0]
NoFlow    == [balance |-> -1, recent |-> FALSE]
Positive(x) == IF x > 0 THEN x ELSE 0

Init ==
    /\ day = 1 /\ login = First
    /\ balance = [l \in Logins |-> Balance] /\ floating = 0 /\ exposed = FALSE
    /\ cash = [l \in Logins |-> 0] /\ midnight = [d \in Days |-> [l \in Logins |-> 0]]
    /\ moves = 0 /\ restarts = 0
    /\ day_key = 1 /\ start_login = First /\ start_balance = Balance /\ cash_flow = 0
    /\ halt = "none" /\ symbolHalt = 0
    /\ pc = "idle" /\ account = NoAccount /\ flowAt = NoFlow
    /\ anchorCash = 0

-----------------------------------------------------------------------------
(* The world.                                                              *)

WorldOnly == UNCHANGED <<restarts, anchor, cash_flow, halt, symbolHalt, memory>>

\* The engine opens positions only while the guard allows it.
PositionOpens ==
    /\ ~exposed /\ halt = "none"
    /\ exposed' = TRUE
    /\ UNCHANGED <<day, login, balance, floating, cash, midnight, moves>>
    /\ WorldOnly

\* Only the account read sees it: a move during the rest of the cycle is one after it.
PriceMoves ==
    /\ exposed /\ pc = "idle"
    /\ floating' \in {f \in Swings : balance[login] + f \in 0..MaxBalance}
    /\ UNCHANGED <<day, login, balance, exposed, cash, midnight, moves>>
    /\ WorldOnly

Realise ==
    /\ balance' = [balance EXCEPT ![login] = @ + floating]
    /\ floating' = 0 /\ exposed' = FALSE

PositionCloses ==
    /\ exposed /\ Realise
    /\ UNCHANGED <<day, login, cash, midnight, moves>>
    /\ WorldOnly

\* A deposit or a withdrawal of the attached account.
CashMoves ==
    /\ moves < MaxMoves
    /\ CashMidCycle \/ pc = "idle"
    /\ LateCash \/ (day_key = day /\ start_login = login)
    /\ \E m \in Moves :
         /\ {balance[login] + m, balance[login] + m + floating} \subseteq 0..MaxBalance
         /\ balance' = [balance EXCEPT ![login] = @ + m]
         /\ cash' = [cash EXCEPT ![login] = @ + m]
    /\ moves' = moves + 1
    /\ UNCHANGED <<day, login, floating, exposed, midnight>>
    /\ WorldOnly

DayTurns ==
    /\ day < MaxDay
    /\ day' = day + 1
    /\ midnight' = [midnight EXCEPT ![day + 1] = cash]
    /\ UNCHANGED <<login, balance, floating, exposed, cash, moves>>
    /\ WorldOnly

\* The terminal logs in elsewhere: that account has no position of ours.
AccountSwitches ==
    /\ pc = "idle" /\ ~exposed
    /\ login' \in {l \in Logins \ {login} : LateCash \/ cash[l] = midnight[day_key][l]}
    /\ UNCHANGED <<day, balance, floating, exposed, cash, midnight, moves>>
    /\ WorldOnly

-----------------------------------------------------------------------------
(* The guard.                                                              *)

\* Mutated form of AnchorAt: the cash of the old anchor is kept.
AnchorAtKeepsCash(key) ==
    /\ day_key' = key /\ start_login' = account.login
    /\ start_balance' = account.balance /\ anchorCash' = account.cash
    /\ halt' = "none" /\ UNCHANGED cash_flow

\* The anchor moves to the snapshot; a halt and the cash of the old one go.
AnchorAt(key) ==
    /\ day_key' = key /\ start_login' = account.login
    /\ start_balance' = account.balance /\ anchorCash' = account.cash
    /\ cash_flow' = 0 /\ halt' = "none"

Rebinds == account.login # start_login /\ account.balance > 0

\* observe_account: another login than the anchored one.
Observe ==
    IF Rebinds THEN AnchorAt(day_key) ELSE UNCHANGED <<anchor, cash_flow, halt>>

RolledOver == day = day_key /\ start_balance > 0

\* Mutated form of NewDay: a balance of zero anchors the day too.
NewDayAtZero == ~RolledOver

\* rollover anchors a day once, on a real balance.
NewDay == ~RolledOver /\ account.balance > 0

\* Mutated form of Trading: a deposit counts as a result.
TradingWithCash == account.equity - start_balance

\* pnl_pct, as its two comparisons with the limits.
Trading == account.equity - cash_flow - start_balance

Capital   == start_balance + Positive(cash_flow)
LossHit   == start_balance > 0 /\ Trading * 100 <= -Limit * Capital
ProfitHit == start_balance > 0 /\ Trading * 100 >= Limit * Capital

-----------------------------------------------------------------------------
(* The cycle.                                                              *)

ReadAccount ==
    /\ pc = "idle"
    /\ account' = [login |-> login, balance |-> balance[login],
                   equity |-> balance[login] + floating, cash |-> cash[login]]
    /\ pc' = "anchor"
    /\ UNCHANGED <<market, anchor, cash_flow, halt, symbolHalt, flowAt>>

\* Mutated form of LiftsSymbolHalts: only another login lifts them.
LiftsForLogin == Rebinds

LiftsSymbolHalts == NewDay \/ Rebinds

\* _handle_daily_rollover: a new anchor takes the symbol halts along.
Rollover ==
    /\ pc = "anchor"
    /\ IF NewDay THEN AnchorAt(day) ELSE Observe
    /\ symbolHalt' = IF LiftsSymbolHalts THEN 0 ELSE symbolHalt
    /\ flowAt' = IF NewDay \/ Rebinds THEN [flowAt EXCEPT !.recent = FALSE] ELSE flowAt
    /\ pc' = "flow"
    /\ UNCHANGED <<market, account>>

\* Without a decision clock (the last tick is stale) the cycle only looks at the login.
ObserveOnly ==
    /\ pc = "anchor"
    /\ Observe
    /\ pc' = "flow"
    /\ UNCHANGED <<market, symbolHalt, account, flowAt>>

\* cash_flow_since the midnight of day_key.
FlowOfDay == cash[login] - midnight[day_key][login]

\* _refresh_cash_flow: skipped while recent and the balance did not move; a
\* read that fails leaves the last value.
FlowKnown == account.balance = flowAt.balance /\ flowAt.recent

SkipFlow ==
    /\ pc = "flow" /\ FlowKnown
    /\ pc' = "manage"
    /\ UNCHANGED <<market, anchor, cash_flow, halt, symbolHalt, account, flowAt>>

FlowFails ==
    /\ pc = "flow" /\ ~FlowKnown
    /\ pc' = "manage"
    /\ UNCHANGED <<market, anchor, cash_flow, halt, symbolHalt, account, flowAt>>

ReadFlow ==
    /\ pc = "flow" /\ ~FlowKnown
    /\ cash_flow' = FlowOfDay
    /\ flowAt' = [balance |-> account.balance, recent |-> TRUE]
    /\ pc' = "manage"
    /\ UNCHANGED <<market, anchor, halt, symbolHalt, account>>

\* The read of the positions fails: the cycle ends before the limits are looked at.
CycleBreaks ==
    /\ pc = "manage"
    /\ pc' = "idle" /\ account' = NoAccount
    /\ UNCHANGED <<market, anchor, cash_flow, halt, symbolHalt, flowAt>>

\* manage_positions finds a symbol over its own daily share, or not.
Manage ==
    /\ pc = "manage"
    /\ \/ UNCHANGED symbolHalt
       \/ exposed /\ start_balance > 0 /\ symbolHalt = 0 /\ symbolHalt' = day_key
    /\ pc' = "check"
    /\ UNCHANGED <<market, anchor, cash_flow, halt, account, flowAt>>

\* Mutated form of Check: the halt follows the equity.
CheckFlaps ==
    /\ pc = "check"
    /\ halt' = IF LossHit THEN "loss" ELSE IF ProfitHit THEN "profit" ELSE "none"
    /\ pc' = IF halt' = "loss" /\ exposed THEN "flatten" ELSE "idle"
    /\ account' = NoAccount
    /\ UNCHANGED <<market, anchor, cash_flow, symbolHalt, flowAt>>

\* Mutated form of Check: the positions are closed once, when the halt is set.
CheckFlattensOnce ==
    /\ pc = "check"
    /\ halt' = IF halt # "none" THEN halt
               ELSE IF LossHit THEN "loss" ELSE IF ProfitHit THEN "profit" ELSE "none"
    /\ pc' = IF halt # "loss" /\ halt' = "loss" /\ exposed THEN "flatten" ELSE "idle"
    /\ account' = NoAccount
    /\ UNCHANGED <<market, anchor, cash_flow, symbolHalt, flowAt>>

\* check: a halt stays, else the loss side goes first.  (It looks at the login again,
\* with the snapshot that Rollover or ObserveOnly has already bound to.)
Check ==
    /\ pc = "check"
    /\ halt' = IF halt # "none" THEN halt
               ELSE IF LossHit THEN "loss" ELSE IF ProfitHit THEN "profit" ELSE "none"
    /\ pc' = IF halt' = "loss" /\ exposed THEN "flatten" ELSE "idle"
    /\ account' = NoAccount
    /\ UNCHANGED <<market, anchor, cash_flow, symbolHalt, flowAt>>

\* close_all while the loss halt holds, again every cycle.
Flatten ==
    /\ pc = "flatten" /\ Realise
    /\ pc' = "idle"
    /\ UNCHANGED <<day, login, cash, midnight, moves, restarts, anchor, cash_flow,
                   halt, symbolHalt, account, flowAt>>

FlattenFails ==
    /\ pc = "flatten" /\ pc' = "idle"
    /\ UNCHANGED <<market, anchor, cash_flow, halt, symbolHalt, account, flowAt>>

FlowAges ==
    /\ flowAt.recent
    /\ flowAt' = [flowAt EXCEPT !.recent = FALSE]
    /\ UNCHANGED <<market, anchor, cash_flow, halt, symbolHalt, pc, account>>

\* /api/day/resume.
Resume ==
    /\ halt # "none" /\ halt' = "none"
    /\ UNCHANGED <<market, anchor, cash_flow, symbolHalt, memory>>

Restart ==
    /\ restarts < MaxRestarts /\ restarts' = restarts + 1
    /\ pc' = "idle" /\ account' = NoAccount /\ flowAt' = NoFlow
    /\ UNCHANGED <<day, login, balance, floating, exposed, cash, midnight, moves,
                   anchor, cash_flow, halt, symbolHalt>>

-----------------------------------------------------------------------------
World == PositionOpens \/ PriceMoves \/ PositionCloses \/ CashMoves \/ DayTurns
         \/ AccountSwitches

PollThread == ReadAccount \/ Rollover \/ ObserveOnly \/ SkipFlow \/ FlowFails
              \/ ReadFlow \/ CycleBreaks \/ Manage \/ Check \/ Flatten \/ FlattenFails

Next == World \/ PollThread \/ FlowAges \/ Resume \/ Restart

Spec == Init /\ [][Next]_vars

(* The loop goes on, the TTL of the flow ends, and what is tried every     *)
(* cycle (reading the history, reading the positions, the flatten)         *)
(* succeeds at some point.                                                 *)
Fairness ==
    /\ WF_vars(PollThread) /\ WF_vars(FlowAges)
    /\ SF_vars(ReadFlow) /\ SF_vars(Manage) /\ SF_vars(Flatten)

FairSpec == Spec /\ Fairness

-----------------------------------------------------------------------------
(* Properties.                                                             *)

Snapshot == [login : Logins, balance : Int, equity : Int, cash : Int]

TypeOK ==
    /\ day \in Days /\ login \in Logins
    /\ balance \in [Logins -> 0..MaxBalance] /\ floating \in Int /\ exposed \in BOOLEAN
    /\ cash \in [Logins -> Int] /\ midnight \in [Days -> [Logins -> Int]]
    /\ moves \in 0..MaxMoves /\ restarts \in 0..MaxRestarts
    /\ day_key \in Days /\ start_login \in Logins /\ start_balance \in Nat \ {0}
    /\ cash_flow \in Int /\ halt \in {"none", "profit", "loss"}
    /\ symbolHalt \in 0..MaxDay
    /\ pc \in {"idle", "anchor", "flow", "manage", "check", "flatten"}
    /\ account \in Snapshot /\ flowAt \in [balance : Int, recent : BOOLEAN]
    /\ anchorCash \in Int

\* The day is measured from one anchor: a restart, a balance that reads zero or
\* a stale clock never move it within a day of one account.
AnchorStays ==
    [][<<start_balance, anchorCash>>' # <<start_balance, anchorCash>>
         => day_key' # day_key \/ start_login' # start_login]_vars

\* A loss halt ends with its day, its account, or by the operator; not because
\* the equity came back, and not by a restart.
BreakerStays ==
    [][halt = "loss" /\ halt' # "loss"
         => Resume \/ day_key' # day_key \/ start_login' # start_login]_vars

\* What trading made of an account since its anchor, of the equity e and the
\* external cash c, reaches the limit.
LostShare(e, c) ==
    (e - start_balance - (c - anchorCash)) * 100
        <= -Limit * (start_balance + Positive(c - anchorCash))

\* The loss halt, which closes every position, is set by a trading loss: not by
\* cash that came, not by another account, not by another day.  (An account
\* without a balance cannot be anchored and is measured against the last one.
\* A withdrawal counts as a loss until the history can be read: set_cash_flow
\* holds the last value.)
HaltNeedsLoss ==
    [][halt = "none" /\ halt' = "loss" /\ account.balance > 0
         => LostShare(account.equity, account.cash)]_vars

\* A trading loss beyond the limit halts the day, whatever was deposited.
Lost ==
    /\ login = start_login /\ day = day_key
    /\ LostShare(balance[login] + floating, cash[login])

BreakerTrips == <>[]Lost => []<>(halt # "none")

\* A loss halt leaves no position open, however often the flatten fails.
LossFlattens == halt = "loss" /\ exposed ~> ~exposed \/ halt # "loss"

\* A symbol halt does not outlive its day.
SymbolHaltOfDay == symbolHalt \in {0, day_key}
=============================================================================
