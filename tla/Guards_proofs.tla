---------------------------- MODULE Guards_proofs -----------------------------
(***************************************************************************)
(* The two guards that take trading away and give it back.                 *)
(*                                                                         *)
(* DailyGuard, for every number of accounts, days, deposits and restarts,  *)
(* every loss limit and every result of the positions: the types, that a   *)
(* day keeps its anchor, that a loss halt stays, that symbol halts go with *)
(* their day, and the conditions under which only a trading loss sets the  *)
(* loss halt.                                                              *)
(*                                                                         *)
(* SymbolVerdicts, for every number of symbols and trades and every bar:   *)
(* the types, that only a symbol's own record suspends it, and that a      *)
(* lifted symbol trades small until it has proved itself.                  *)
(***************************************************************************)
EXTENDS DailyGuard, SymbolVerdicts, FiniteSetTheorems, TLAPS

\* The equity of the attached account is in range, and flat means no result.
EquityInv ==
    /\ balance[login] + floating \in 0..MaxBalance
    /\ ~exposed => floating = 0

\* Cash that only comes in, between the cycles, to an account that is anchored.
PlainCash == ~LateCash /\ ~CashMidCycle /\ \A m \in Moves : m >= 0

\* Then what the snapshot, the anchor and the flow say of the cash is right, or
\* less than what came in.
CashInv ==
    /\ day_key <= day
    /\ pc \in {"anchor", "flow", "manage", "check"} =>
         account.login = login /\ account.cash = cash[login]
    /\ pc \in {"flow", "manage", "check"} /\ account.balance > 0 => start_login = login
    /\ midnight[day_key][start_login] = anchorCash
    /\ day_key # day => \A l \in Logins : midnight[day][l] = cash[l]
    /\ login # start_login => midnight[day_key][login] = cash[login]
    /\ 0 <= cash_flow /\ cash_flow <= cash[start_login] - anchorCash

\* The inductive invariant.
IInv ==
    /\ TypeOK /\ EquityInv /\ SymbolHaltOfDay
    /\ PlainCash => CashInv

-----------------------------------------------------------------------------
(* The anchor.                                                             *)

\* An anchor is a real balance of the account in the snapshot.
LEMMA AnchorType ==
    ASSUME TypeOK, account.balance > 0, NEW key \in Days, AnchorAt(key)
    PROVE  /\ day_key' \in Days /\ start_login' \in Logins
           /\ start_balance' \in Nat \ {0} /\ anchorCash' \in Int
           /\ cash_flow' \in Int /\ halt' \in {"none", "profit", "loss"}
BY DEF AnchorAt, TypeOK, Snapshot

\* So the anchor is moved by another day or another account only.
LEMMA AnchorMoves ==
    ASSUME TypeOK
    PROVE  /\ Observe => \/ Rebinds /\ AnchorAt(day_key) /\ start_login' # start_login
                         \/ ~Rebinds /\ UNCHANGED <<anchor, cash_flow, halt>>
           /\ NewDay => day # day_key /\ account.balance > 0
           /\ Rebinds => account.balance > 0
BY DEF TypeOK, Observe, Rebinds, AnchorAt, NewDay, RolledOver

\* A rollover or a look at the login anchors on a real balance, or not at all.
LEMMA BindingEffect ==
    ASSUME TypeOK, Rollover \/ ObserveOnly
    PROVE  \/ /\ NewDay /\ day # day_key /\ AnchorAt(day) /\ account.balance > 0
              /\ symbolHalt' = 0
           \/ /\ Rebinds /\ AnchorAt(day_key) /\ account.balance > 0
              /\ start_login' # start_login
              /\ symbolHalt' \in {0, symbolHalt}
           \/ /\ ~Rebinds /\ UNCHANGED <<anchor, cash_flow, halt>>
              /\ symbolHalt' = symbolHalt
<1>1. CASE Rollover /\ NewDay
  <2>1. AnchorAt(day) /\ symbolHalt' = 0
    BY <1>1 DEF Rollover, LiftsSymbolHalts
  <2> QED
    BY <1>1, <2>1, AnchorMoves
<1>2. CASE Rollover /\ ~NewDay
  <2>1. Observe /\ symbolHalt' = IF Rebinds THEN 0 ELSE symbolHalt
    BY <1>2 DEF Rollover, LiftsSymbolHalts
  <2> QED
    BY <2>1, AnchorMoves
<1>3. CASE ObserveOnly
  <2>1. Observe /\ symbolHalt' = symbolHalt
    BY <1>3 DEF ObserveOnly
  <2> QED
    BY <2>1, AnchorMoves
<1> QED
  BY <1>1, <1>2, <1>3

-----------------------------------------------------------------------------
(* Types.                                                                  *)

LEMMA NullTypes ==
    /\ NoAccount \in Snapshot
    /\ NoFlow \in [balance : Int, recent : BOOLEAN]
BY AccountsAssumption DEF NoAccount, NoFlow, Snapshot

LEMMA TypeInit == Init => TypeOK /\ EquityInv
<1> SUFFICES ASSUME Init PROVE TypeOK /\ EquityInv
  OBVIOUS
<1>1. balance \in [Logins -> 0..MaxBalance] /\ cash \in [Logins -> Int]
  BY AmountsAssumption DEF Init
<1>2. midnight \in [Days -> [Logins -> Int]]
  BY DEF Init
<1>3. EquityInv
  BY <1>1, AccountsAssumption, AmountsAssumption DEF Init, EquityInv
<1>4. 1 \in Days /\ 0 \in 0..MaxDay /\ 0 \in 0..MaxMoves /\ 0 \in 0..MaxRestarts
  BY LimitAssumption DEF Days
<1> QED
  BY <1>1, <1>2, <1>3, <1>4, NullTypes, AccountsAssumption, AmountsAssumption
     DEF Init, TypeOK

\* What the positions made goes into the balance of the attached account.
LEMMA RealiseTypes ==
    ASSUME TypeOK, EquityInv, Realise, login' = login
    PROVE  /\ balance' \in [Logins -> 0..MaxBalance] /\ floating' \in Int
           /\ exposed' \in BOOLEAN /\ EquityInv'
<1>1. balance \in [Logins -> 0..MaxBalance] /\ login \in Logins
  BY DEF TypeOK
<1>2. /\ balance' = [balance EXCEPT ![login] = @ + floating]
      /\ floating' = 0 /\ exposed' = FALSE
  BY DEF Realise
<1>3. balance[login] + floating \in 0..MaxBalance
  BY DEF EquityInv
<1>4. balance' \in [Logins -> 0..MaxBalance]
  BY <1>1, <1>2, <1>3
<1>5. balance'[login'] + floating' \in 0..MaxBalance
  BY <1>1, <1>2, <1>3, AmountsAssumption
<1>6. EquityInv'
  BY <1>2, <1>5 DEF EquityInv
<1>7. exposed' \in BOOLEAN
  BY <1>2, Zenon
<1>8. floating' \in Int
  BY <1>2
<1> QED
  BY <1>4, <1>6, <1>7, <1>8

\* A step of the market, the operator or the clock keeps the types.
LEMMA WorldTypes ==
    ASSUME IInv, World
    PROVE  TypeOK' /\ EquityInv'
<1>0. TypeOK /\ EquityInv
  BY DEF IInv
<1>1. CASE PositionOpens
  BY <1>0, <1>1 DEF PositionOpens, WorldOnly, anchor, memory, TypeOK, EquityInv
<1>2. CASE PriceMoves
  BY <1>0, <1>2, AmountsAssumption
     DEF PriceMoves, WorldOnly, anchor, memory, TypeOK, EquityInv
<1>3. CASE PositionCloses
  BY <1>0, <1>3, RealiseTypes DEF PositionCloses, WorldOnly, anchor, memory, TypeOK
<1>4. CASE CashMoves
  <2>1. PICK m \in Moves :
          /\ {balance[login] + m, balance[login] + m + floating} \subseteq 0..MaxBalance
          /\ balance' = [balance EXCEPT ![login] = @ + m]
          /\ cash' = [cash EXCEPT ![login] = @ + m]
    BY <1>4 DEF CashMoves
  <2>2. balance' \in [Logins -> 0..MaxBalance] /\ cash' \in [Logins -> Int]
    BY <1>0, <2>1, AmountsAssumption DEF TypeOK
  <2>3. EquityInv'
    BY <1>0, <1>4, <2>1 DEF CashMoves, TypeOK, EquityInv
  <2>4. moves' \in 0..MaxMoves
    BY <1>0, <1>4, LimitAssumption DEF CashMoves, TypeOK
  <2> QED
    BY <1>0, <1>4, <2>2, <2>3, <2>4 DEF CashMoves, WorldOnly, anchor, memory, TypeOK
<1>5. CASE DayTurns
  <2>1. day' \in Days /\ midnight' \in [Days -> [Logins -> Int]]
    BY <1>0, <1>5, LimitAssumption DEF DayTurns, TypeOK, Days
  <2> QED
    BY <1>0, <1>5, <2>1 DEF DayTurns, WorldOnly, anchor, memory, TypeOK, EquityInv
<1>6. CASE AccountSwitches
  BY <1>0, <1>6 DEF AccountSwitches, WorldOnly, anchor, memory, TypeOK, EquityInv
<1> QED
  BY <1>1, <1>2, <1>3, <1>4, <1>5, <1>6 DEF World

\* A step of the poll thread keeps the types.
LEMMA PollTypes ==
    ASSUME IInv, PollThread
    PROVE  TypeOK' /\ EquityInv'
<1>0. TypeOK /\ EquityInv
  BY DEF IInv
<1>1. CASE ReadAccount
  <2>1. account' \in Snapshot
    BY <1>0, <1>1, AmountsAssumption DEF ReadAccount, TypeOK, Snapshot
  <2> QED
    BY <1>0, <1>1, <2>1 DEF ReadAccount, market, anchor, TypeOK, EquityInv
<1>2. CASE Rollover \/ ObserveOnly
  <2>1. /\ day_key' \in Days /\ start_login' \in Logins
        /\ start_balance' \in Nat \ {0} /\ anchorCash' \in Int
        /\ cash_flow' \in Int /\ halt' \in {"none", "profit", "loss"}
        /\ symbolHalt' \in 0..MaxDay
    BY <1>0, <1>2, BindingEffect, AnchorType, LimitAssumption DEF TypeOK, anchor
  <2>2. flowAt' \in [balance : Int, recent : BOOLEAN]
    BY <1>0, <1>2 DEF Rollover, ObserveOnly, TypeOK
  <2> QED
    BY <1>0, <1>2, <2>1, <2>2 DEF Rollover, ObserveOnly, market, TypeOK, EquityInv
<1>3. CASE SkipFlow \/ FlowFails
  BY <1>0, <1>3 DEF SkipFlow, FlowFails, market, anchor, TypeOK, EquityInv
<1>4. CASE ReadFlow
  <2>1. cash_flow' \in Int /\ flowAt' \in [balance : Int, recent : BOOLEAN]
    BY <1>0, <1>4 DEF ReadFlow, FlowOfDay, TypeOK, Snapshot
  <2> QED
    BY <1>0, <1>4, <2>1 DEF ReadFlow, market, anchor, TypeOK, EquityInv
<1>6. CASE CycleBreaks
  BY <1>0, <1>6, NullTypes DEF CycleBreaks, market, anchor, TypeOK, EquityInv
<1>7. CASE Manage
  BY <1>0, <1>7, LimitAssumption DEF Manage, market, anchor, TypeOK, EquityInv, Days
<1>8. CASE Check
  BY <1>0, <1>8, NullTypes DEF Check, market, anchor, TypeOK, EquityInv
<1>9. CASE Flatten
  BY <1>0, <1>9, RealiseTypes DEF Flatten, anchor, TypeOK
<1>10. CASE FlattenFails
  BY <1>0, <1>10 DEF FlattenFails, market, anchor, TypeOK, EquityInv
<1> QED
  BY <1>1, <1>2, <1>3, <1>4, <1>6, <1>7, <1>8, <1>9, <1>10 DEF PollThread

LEMMA TypeStep == IInv /\ [Next]_vars => TypeOK' /\ EquityInv'
<1> SUFFICES ASSUME IInv, [Next]_vars PROVE TypeOK' /\ EquityInv'
  OBVIOUS
<1>0. TypeOK /\ EquityInv
  BY DEF IInv
<1>1. CASE FlowAges
  BY <1>0, <1>1 DEF FlowAges, market, anchor, TypeOK, EquityInv
<1>2. CASE Resume
  BY <1>0, <1>2 DEF Resume, market, anchor, memory, TypeOK, EquityInv
<1>3. CASE Restart
  <2>1. account' \in Snapshot /\ flowAt' \in [balance : Int, recent : BOOLEAN]
    BY <1>3, NullTypes DEF Restart
  <2>2. restarts' \in 0..MaxRestarts
    BY <1>0, <1>3, LimitAssumption DEF Restart, TypeOK
  <2> QED
    BY <1>0, <1>3, <2>1, <2>2 DEF Restart, anchor, TypeOK, EquityInv
<1>4. CASE UNCHANGED vars
  BY <1>0, <1>4 DEF vars, market, anchor, memory, TypeOK, EquityInv
<1> QED
  BY <1>1, <1>2, <1>3, <1>4, WorldTypes, PollTypes DEF Next

-----------------------------------------------------------------------------
(* The anchor and the halts.                                               *)

\* Only Rollover and ObserveOnly touch the anchor, and only they, the reading of
\* the flow, Manage, Check and Resume what hangs on it.
LEMMA AnchorFrame ==
    ASSUME [Next]_vars, ~Rollover, ~ObserveOnly
    PROVE  /\ UNCHANGED anchor
           /\ Manage \/ symbolHalt' = symbolHalt
           /\ Check \/ Resume \/ halt' = halt
           /\ ReadFlow \/ cash_flow' = cash_flow
BY DEF Next, World, PollThread, PositionOpens, PriceMoves, PositionCloses, CashMoves,
       DayTurns, AccountSwitches, WorldOnly, ReadAccount, SkipFlow, FlowFails, ReadFlow,
       CycleBreaks, Manage, Check, Flatten, FlattenFails, FlowAges, Resume, Restart,
       vars, market, memory

\* A day of one account keeps its anchor.
LEMMA AnchorStep ==
    IInv /\ [Next]_vars =>
        (<<start_balance, anchorCash>>' # <<start_balance, anchorCash>>
            => day_key' # day_key \/ start_login' # start_login)
<1> SUFFICES ASSUME IInv, [Next]_vars,
                    day_key' = day_key, start_login' = start_login
             PROVE  <<start_balance, anchorCash>>' = <<start_balance, anchorCash>>
  OBVIOUS
<1>1. CASE Rollover \/ ObserveOnly
  BY <1>1, BindingEffect DEF IInv, AnchorAt, anchor
<1>2. CASE ~Rollover /\ ~ObserveOnly
  BY <1>2, AnchorFrame DEF anchor
<1> QED
  BY <1>1, <1>2

\* A halt is not lifted by the engine as long as its anchor holds.
LEMMA BreakerStep ==
    IInv /\ [Next]_vars =>
        (halt = "loss" /\ halt' # "loss"
            => Resume \/ day_key' # day_key \/ start_login' # start_login)
<1> SUFFICES ASSUME IInv, [Next]_vars, halt = "loss", ~Resume,
                    day_key' = day_key, start_login' = start_login
             PROVE  halt' = "loss"
  OBVIOUS
<1>1. CASE Rollover \/ ObserveOnly
  BY <1>1, BindingEffect DEF IInv, AnchorAt, anchor
<1>2. CASE Check
  BY <1>2 DEF Check
<1>3. CASE ~Rollover /\ ~ObserveOnly /\ ~Check
  BY <1>3, AnchorFrame
<1> QED
  BY <1>1, <1>2, <1>3

\* A symbol halt is set for the day of the anchor and goes with it.
LEMMA SymbolStep == IInv /\ [Next]_vars => SymbolHaltOfDay'
<1> SUFFICES ASSUME IInv, [Next]_vars PROVE SymbolHaltOfDay'
  OBVIOUS
<1>1. CASE Rollover \/ ObserveOnly
  BY <1>1, BindingEffect DEF IInv, AnchorAt, anchor, SymbolHaltOfDay
<1>2. CASE Manage
  BY <1>2 DEF Manage, anchor, IInv, SymbolHaltOfDay
<1>3. CASE ~Rollover /\ ~ObserveOnly /\ ~Manage
  BY <1>3, AnchorFrame DEF anchor, IInv, SymbolHaltOfDay
<1> QED
  BY <1>1, <1>2, <1>3

-----------------------------------------------------------------------------
(* The cash.                                                               *)

\* The broker's cash of the day and of the anchor, in the cases the cash of an
\* anchored account only grows between the cycles.
LEMMA CashStep ==
    ASSUME IInv, CashInv, PlainCash, [Next]_vars
    PROVE  CashInv'
<1>0. /\ TypeOK /\ cash \in [Logins -> Int] /\ login \in Logins /\ start_login \in Logins
      /\ midnight \in [Days -> [Logins -> Int]] /\ day \in Days /\ day_key \in Days
      /\ day \in Int /\ day_key \in Int /\ anchorCash \in Int /\ cash_flow \in Int
  BY DEF IInv, TypeOK, Days
<1>1. CASE PositionOpens \/ PriceMoves \/ PositionCloses
  BY <1>1 DEF PositionOpens, PriceMoves, PositionCloses, WorldOnly, anchor, memory, CashInv
<1>2. CASE CashMoves
  <2>1. PICK m \in Moves : cash' = [cash EXCEPT ![login] = @ + m]
    BY <1>2 DEF CashMoves
  <2>2. m \in Int /\ m >= 0
    BY AmountsAssumption DEF PlainCash
  <2>3. pc = "idle" /\ day_key = day /\ start_login = login
    BY <1>2 DEF CashMoves, PlainCash
  <2>4. cash'[start_login] \in Int /\ cash'[start_login] >= cash[start_login]
    BY <1>0, <2>1, <2>2, <2>3
  <2>5. UNCHANGED <<day, login, midnight, day_key, start_login, anchorCash, cash_flow,
                    pc, account>>
    BY <1>2 DEF CashMoves, WorldOnly, anchor, memory
  <2> QED
    BY <1>0, <2>3, <2>4, <2>5 DEF CashInv
<1>3. CASE DayTurns
  <2>1. /\ day' = day + 1 /\ day + 1 \in Days
        /\ midnight' = [midnight EXCEPT ![day + 1] = cash]
    BY <1>0, <1>3, LimitAssumption DEF DayTurns, Days
  <2>2. day_key # day + 1 /\ midnight'[day_key] = midnight[day_key]
    BY <1>0, <2>1 DEF CashInv
  <2>3. midnight'[day'] = cash
    BY <1>0, <2>1
  <2> QED
    BY <1>0, <1>3, <2>1, <2>2, <2>3 DEF DayTurns, WorldOnly, anchor, memory, CashInv
<1>4. CASE AccountSwitches
  <2>1. login' \in Logins /\ cash[login'] = midnight[day_key][login'] /\ pc = "idle"
    BY <1>4 DEF AccountSwitches, PlainCash
  <2> QED
    BY <1>0, <1>4, <2>1 DEF AccountSwitches, WorldOnly, anchor, memory, CashInv
<1>5. CASE ReadAccount
  BY <1>0, <1>5 DEF ReadAccount, market, anchor, CashInv
<1>6. CASE Rollover \/ ObserveOnly
  <2>1. /\ account.login = login /\ account.cash = cash[login]
        /\ UNCHANGED <<day, login, cash, midnight, account>> /\ pc' = "flow"
    BY <1>6 DEF Rollover, ObserveOnly, market, CashInv
  <2>2. CASE NewDay /\ day # day_key /\ AnchorAt(day) /\ account.balance > 0
    <3>1. midnight[day][login] = cash[login]
      BY <1>0, <2>2 DEF CashInv
    <3>2. /\ day_key' = day /\ start_login' = login /\ anchorCash' = cash[login]
          /\ cash_flow' = 0
      BY <2>1, <2>2 DEF AnchorAt
    <3> QED
      BY <1>0, <2>1, <3>1, <3>2 DEF CashInv
  <2>3. CASE Rebinds /\ AnchorAt(day_key)
    <3>1. midnight[day_key][login] = cash[login]
      BY <1>0, <2>1, <2>3 DEF Rebinds, CashInv
    <3>2. /\ day_key' = day_key /\ start_login' = login /\ anchorCash' = cash[login]
          /\ cash_flow' = 0
      BY <2>1, <2>3 DEF AnchorAt
    <3> QED
      BY <1>0, <2>1, <3>1, <3>2 DEF CashInv
  <2>4. CASE ~Rebinds /\ UNCHANGED <<anchor, cash_flow, halt>>
    BY <1>0, <2>1, <2>4 DEF Rebinds, anchor, CashInv
  <2> QED
    BY <1>0, <1>6, <2>2, <2>3, <2>4, BindingEffect
<1>7. CASE SkipFlow \/ FlowFails \/ Manage
  BY <1>7 DEF SkipFlow, FlowFails, Manage, market, anchor, CashInv
<1>8. CASE ReadFlow
  <2>1. cash_flow' = cash[login] - midnight[day_key][login]
    BY <1>8 DEF ReadFlow, FlowOfDay
  <2>2. 0 <= cash_flow' /\ cash_flow' <= cash[start_login] - anchorCash
    <3>1. CASE login = start_login
      BY <1>0, <2>1, <3>1 DEF CashInv
    <3>2. CASE login # start_login
      BY <1>0, <2>1, <3>2 DEF CashInv
    <3> QED
      BY <3>1, <3>2
  <2> QED
    BY <1>0, <1>8, <2>2 DEF ReadFlow, market, anchor, CashInv
<1>9. CASE CycleBreaks \/ Check \/ Flatten \/ FlattenFails \/ FlowAges \/ Resume \/ Restart
  BY <1>9 DEF CycleBreaks, Check, Flatten, FlattenFails, FlowAges, Resume, Restart,
              market, anchor, memory, CashInv
<1>10. CASE UNCHANGED vars
  BY <1>10 DEF vars, market, anchor, memory, CashInv
<1> QED
  BY <1>1, <1>2, <1>3, <1>4, <1>5, <1>6, <1>7, <1>8, <1>9, <1>10
     DEF Next, World, PollThread

\* A flow read too low asks for a larger loss than the one there is.
LEMMA LowFlow ==
    ASSUME NEW e \in Int, NEW s \in Nat, NEW L \in 1..100,
           NEW c \in Nat, NEW f \in 0..c,
           (e - f - s) * 100 <= -L * (s + f)
    PROVE  (e - s - c) * 100 <= -L * (s + c)
<1> DEFINE d == c - f
<1>1. d \in Nat /\ c = f + d
  OBVIOUS
<1>2. (100 - L) * d >= 0
  BY <1>1
<1> QED
  BY <1>1, <1>2

\* The loss halt is set by a trading loss.
LEMMA LossStep ==
    ASSUME IInv, PlainCash, [Next]_vars,
           halt = "none", halt' = "loss", account.balance > 0
    PROVE  LostShare(account.equity, account.cash)
<1>0. TypeOK /\ CashInv
  BY DEF IInv
<1>1. CASE Rollover \/ ObserveOnly
  BY <1>0, <1>1, BindingEffect DEF AnchorAt, anchor
<1>2. CASE Resume
  BY <1>2 DEF Resume
<1>3. CASE Check
  <2>1. LossHit /\ pc = "check"
    BY <1>3 DEF Check
  <2>2. account.cash = cash[start_login]
    BY <1>0, <2>1 DEF CashInv
  <2> DEFINE c == account.cash - anchorCash
  <2>3. /\ account.equity \in Int /\ start_balance \in Nat /\ Limit \in 1..100
        /\ c \in Nat /\ cash_flow \in 0..c
    BY <1>0, <2>2, LimitAssumption DEF TypeOK, Snapshot, CashInv
  <2>4. (account.equity - cash_flow - start_balance) * 100
            <= -Limit * (start_balance + cash_flow)
    BY <2>1, <2>3 DEF LossHit, Trading, Capital, Positive
  <2> HIDE DEF c
  <2>5. (account.equity - start_balance - c) * 100 <= -Limit * (start_balance + c)
    BY <2>3, <2>4, LowFlow
  <2>6. Positive(c) = c
    BY <2>3 DEF Positive
  <2> QED
    BY <2>5, <2>6 DEF LostShare, c
<1>4. CASE ~Rollover /\ ~ObserveOnly /\ ~Check /\ ~Resume
  BY <1>4, AnchorFrame
<1> QED
  BY <1>1, <1>2, <1>3, <1>4

-----------------------------------------------------------------------------
(* The invariant and what follows from it.                                 *)

THEOREM Invariant == Spec => []IInv
<1>1. Init => IInv
  <2> SUFFICES ASSUME Init PROVE IInv
    OBVIOUS
  <2>1. CashInv
    BY AccountsAssumption, LimitAssumption DEF Init, CashInv, Days
  <2> QED
    BY <2>1, TypeInit DEF IInv, Init, SymbolHaltOfDay
<1>2. IInv /\ [Next]_vars => IInv'
  <2> SUFFICES ASSUME IInv, [Next]_vars PROVE IInv'
    OBVIOUS
  <2>1. PlainCash => CashInv'
    BY CashStep DEF IInv
  <2> QED
    BY <2>1, TypeStep, SymbolStep DEF IInv, PlainCash
<1> QED
  BY <1>1, <1>2, PTL DEF Spec

\* Every reachable state is typed: in particular the anchor is never a balance
\* of zero (rollover and observe_account refuse it).
THEOREM Typing == Spec => []TypeOK
<1>1. IInv => TypeOK
  BY DEF IInv
<1> QED
  BY <1>1, Invariant, PTL

\* A symbol halt does not outlive the day of the anchor (_handle_daily_rollover,
\* _symbol_daily_halt).
THEOREM SymbolHaltSafe == Spec => []SymbolHaltOfDay
<1>1. IInv => SymbolHaltOfDay
  BY DEF IInv
<1> QED
  BY <1>1, Invariant, PTL

\* The anchor moves with the day or the account and for nothing else (rollover,
\* observe_account).
THEOREM AnchorStaysSafe == Spec => AnchorStays
<1>1. IInv /\ [Next]_vars =>
        [<<start_balance, anchorCash>>' # <<start_balance, anchorCash>>
            => day_key' # day_key \/ start_login' # start_login]_vars
  BY AnchorStep
<1> QED
  BY <1>1, Invariant, PTL DEF Spec, AnchorStays

\* A loss halt stays until the day, the account or the operator ends it (check,
\* loss_halted).
THEOREM BreakerStaysSafe == Spec => BreakerStays
<1>1. IInv /\ [Next]_vars =>
        [halt = "loss" /\ halt' # "loss"
            => Resume \/ day_key' # day_key \/ start_login' # start_login]_vars
  BY BreakerStep
<1> QED
  BY <1>1, Invariant, PTL DEF Spec, BreakerStays

\* If cash only comes in, between the cycles and to an account that is anchored,
\* then nothing but a trading loss sets the loss halt, whether the history can
\* be read or not (set_cash_flow, pnl_pct).
THEOREM HaltNeedsLossSafe ==
    ASSUME PlainCash
    PROVE  Spec => HaltNeedsLoss
<1>1. IInv /\ [Next]_vars =>
        [halt = "none" /\ halt' = "loss" /\ account.balance > 0
            => LostShare(account.equity, account.cash)]_vars
  BY LossStep
<1> QED
  BY <1>1, Invariant, PTL DEF Spec, HaltNeedsLoss

-----------------------------------------------------------------------------
(* The supervisor's records and verdicts.                                  *)

\* A symbol that is suspended or on probation has a record to be judged by,
\* and a review that is under way has read it.
HasRecord(s) ==
    /\ trades[s] # <<>>
    /\ history # None => history[s] # <<>>

\* The database holds the verdict in memory, and a clock that runs belongs to
\* a suspension.
Saved(s) ==
    verdict[s] # None =>
        /\ saved[s] = verdict[s]
        /\ verdict[s].running => verdict[s].state = "quarantine"

\* Outside a suspension, probation at full scale is a release that no review
\* has seen yet.
OnProbation(s) ==
    verdict[s] # None =>
        /\ verdict[s].state = "quarantine" \/ verdict[s].probation => HasRecord(s)
        /\ verdict[s].probation /\ verdict[s].state # "quarantine" /\ verdict[s].scale = Full
              => s \in unreviewed

\* What a review has read was there, and is not gone when it judges.
ReadIsThere(s) == history # None /\ history[s] # <<>> => trades[s] # <<>>

VerdictInv ==
    /\ VerdictTypeOK
    /\ \A s \in Symbols : Saved(s) /\ ReadIsThere(s)
    /\ ~BlindReads => \A s \in Symbols : OnProbation(s)

\* Taking a comparison from the trades of a record leaves a record as long.
LEMMA AgedRecord ==
    ASSUME NEW T \in Seq(Trades)
    PROVE  /\ Past(T) \in Seq(Trades) /\ Len(Past(T)) = Len(T)
           /\ Foreign(T) \in Seq(Trades) /\ Len(Foreign(T)) = Len(T)
<1>1. DOMAIN T = 1..Len(T) /\ Len(T) \in Nat /\ \A i \in DOMAIN T : T[i] \in Trades
  OBVIOUS
<1>2. /\ \A i \in 1..Len(T) : [T[i] EXCEPT !.since = FALSE] \in Trades
      /\ \A i \in 1..Len(T) : [T[i] EXCEPT !.own = FALSE] \in Trades
  BY <1>1 DEF Trades
<1>3. Past(T) \in [1..Len(T) -> Trades] /\ Foreign(T) \in [1..Len(T) -> Trades]
  BY <1>1, <1>2 DEF Past, Foreign
<1>4. \A F \in [1..Len(T) -> Trades] : F \in Seq(Trades) /\ Len(F) = Len(T)
  BY <1>1
<1> QED BY <1>3, <1>4

\* So is what the books look like once the stamps have moved.
LEMMA AgedTypes ==
    ASSUME NEW H \in [Symbols -> Seq(Trades)], NEW S
    PROVE  /\ Aged(H, S, Past) \in [Symbols -> Seq(Trades)]
           /\ Aged(H, S, Foreign) \in [Symbols -> Seq(Trades)]
           /\ \A s \in Symbols : /\ Len(Aged(H, S, Past)[s]) = Len(H[s])
                                 /\ Len(Aged(H, S, Foreign)[s]) = Len(H[s])
BY AgedRecord DEF Aged

\* A verdict judged on anything is a verdict.
LEMMA JudgedType ==
    ASSUME NEW v \in Verdicts, NEW worn \in BOOLEAN, NEW T
    PROVE  JudgeIdle(v, worn) \in Verdicts /\ JudgeRecord(T, v, worn) \in Verdicts
<1>1. \A w \in Verdicts : /\ Quarantine(w) \in Verdicts
                          /\ Slowed(w) \in Verdicts
                          /\ [w EXCEPT !.probation = FALSE] \in Verdicts
  BY DEF Quarantine, Slowed, Verdicts, Full, Watch
<1>5. \A w \in Verdicts : \A own : Probation(w, own) \in Verdicts
  BY <1>1 DEF Probation
<1>2. JudgeIdle(v, worn) \in Verdicts
  BY <1>1 DEF JudgeIdle, Verdicts, Full
<1> DEFINE base == [v EXCEPT !.state = "ok", !.scale = Full]
           lifted == [base EXCEPT !.running = FALSE, !.probation = TRUE]
<1>3. base \in Verdicts /\ [base EXCEPT !.state = "quarantine"] \in Verdicts /\ lifted \in Verdicts
  BY DEF Verdicts, Full
<1>4. JudgeRecord(T, v, worn) \in Verdicts
  BY <1>1, <1>3, <1>5 DEF JudgeRecord
<1> QED BY <1>2, <1>4

\* Only a broken record of its own, or the suspension it is already under,
\* leaves a symbol suspended; and whoever a review leaves on probation is
\* suspended or at the watch scale.
LEMMA Judged ==
    ASSUME NEW v \in Verdicts, NEW worn \in BOOLEAN, NEW T,
           v.running => v.state = "quarantine"
    PROVE  LET r == JudgeRecord(T, v, worn)
               d == JudgeIdle(v, worn)
           IN  /\ r.running => r.state = "quarantine"
               /\ d.running => d.state = "quarantine"
               /\ r.cleared = v.cleared
               /\ r.state = "quarantine" =>
                      v.state = "quarantine" \/ Broken(T, SinceEpoch(T, v))
               /\ d.state = "quarantine" => v.state = "quarantine"
               /\ d.probation = v.probation
               /\ r.probation /\ r.state # "quarantine" => r.scale # Full
<1> DEFINE own == SinceEpoch(T, v)
           base == [v EXCEPT !.state = "ok", !.scale = Full]
           lifted == [base EXCEPT !.running = FALSE, !.probation = TRUE]
           poor == worn \/ (Cardinality(Watched(T, v)) >= Bar /\ PfBelow(T, Watched(T, v), 1, 1))
           first == IF Broken(T, own) THEN Quarantine(v)
                    ELSE IF v.running /\ ~v.replaced THEN [base EXCEPT !.state = "quarantine"]
                    ELSE IF v.running THEN IF worn THEN Slowed(lifted) ELSE lifted
                    ELSE IF poor THEN Slowed(base) ELSE base
<1>1. JudgeRecord(T, v, worn) = Probation(first, own)
  BY DEF JudgeRecord
<1>2. /\ first \in Verdicts
      /\ first.cleared = v.cleared
      /\ first.running => first.state = "quarantine"
      /\ first.state = "quarantine" => v.running \/ Broken(T, own)
      /\ first.state \in {"quarantine", "ok", "watch"}
      /\ first.state = "watch" => first.scale = Watch
  <2> HIDE DEF own, poor
  <2> QED BY DEF Quarantine, Slowed, Verdicts, Full, Watch
<1> HIDE DEF first, own
<1>3. LET r == Probation(first, own)
      IN  /\ r.cleared = first.cleared
          /\ r.running => r.state = "quarantine"
          /\ r.state = "quarantine" => first.state = "quarantine"
          /\ r.probation /\ r.state # "quarantine" => r.scale # Full
  BY <1>2 DEF Probation, Slowed, Verdicts, Full, Watch
<1>4. LET d == JudgeIdle(v, worn)
      IN  /\ d.running => d.state = "quarantine"
          /\ d.state = "quarantine" => v.state = "quarantine"
          /\ d.probation = v.probation
  BY DEF JudgeIdle, Slowed, Verdicts, Full, Watch
<1> QED BY <1>1, <1>2, <1>3, <1>4 DEF own

-----------------------------------------------------------------------------
(* Types.                                                                  *)

\* What a review leaves is a verdict for every symbol.
LEMMA ReviewVerdicts ==
    ASSUME VerdictTypeOK, NEW worn \in SUBSET Symbols, Review(worn)
    PROVE  verdict' \in [Symbols -> Verdicts]
<1> DEFINE V == [s \in Symbols |-> Judge(s, history[s], s \in worn)]
           queue == job = None /\ Stale(V) # {}
<1>1. ASSUME NEW s \in Symbols PROVE V[s] \in Verdicts
  <2>1. Blank \in Verdicts
    BY DEF Blank, Verdicts, Full
  <2>2. verdict[s] # None => verdict[s] \in Verdicts
    BY DEF VerdictTypeOK
  <2> DEFINE v == IF verdict[s] = None THEN Blank ELSE verdict[s]
  <2>3. v \in Verdicts /\ (s \in worn) \in BOOLEAN
    BY <2>1, <2>2
  <2>4. Judge(s, history[s], s \in worn) =
            IF history[s] = <<>> THEN JudgeIdle(v, s \in worn)
                                 ELSE JudgeRecord(history[s], v, s \in worn)
    BY DEF Judge
  <2> HIDE DEF v
  <2> QED BY <2>3, <2>4, JudgedType
<1>2. verdict' = [s \in Symbols |-> IF queue /\ s \in Stale(V) THEN [V[s] EXCEPT !.cooling = TRUE]
                                    ELSE V[s]]
  BY DEF Review
<1> HIDE DEF V, queue
<1>3. \A w \in Verdicts : [w EXCEPT !.cooling = TRUE] \in Verdicts
  BY DEF Verdicts
<1> QED BY <1>1, <1>2, <1>3

\* Every step keeps the types.
LEMMA VerdictTypesStep ==
    ASSUME VerdictTypeOK, [VerdictNext]_verdictVars
    PROVE  VerdictTypeOK'
<1> USE VerdictBounds
<1>a. \A w \in Verdicts, b \in BOOLEAN :
          /\ [w EXCEPT !.running = FALSE] \in Verdicts
          /\ [w EXCEPT !.cooling = FALSE] \in Verdicts
          /\ [w EXCEPT !.replaced = TRUE] \in Verdicts
          /\ [w EXCEPT !.state = "ok", !.scale = Full, !.running = FALSE,
                       !.replaced = FALSE, !.cleared = TRUE, !.probation = b] \in Verdicts
  BY DEF Verdicts, Full
<1>b. ASSUME NEW s \in Symbols, Release(s)
      PROVE  /\ trades' \in [Symbols -> Seq(Trades)]
             /\ \A r \in Symbols : Len(trades'[r]) <= Window
             /\ history' = None \/ history' \in [Symbols -> Seq(Trades)]
             /\ verdict' \in [Symbols -> Verdicts \cup {None}] /\ saved' = verdict'
             /\ unreviewed' \subseteq Symbols
  <2>1. verdict' \in [Symbols -> Verdicts \cup {None}] /\ saved' = verdict'
    BY <1>a, <1>b DEF Release, Released, Suspended, VerdictTypeOK
  <2>2. Ages({s}, Past) /\ unreviewed' \subseteq Symbols
    BY <1>b DEF Release, VerdictTypeOK
  <2> QED BY <2>1, <2>2, AgedTypes DEF Ages, VerdictTypeOK
<1>1. ASSUME NEW s \in Symbols, Enter(s) PROVE VerdictTypeOK'
  <2>1. Gate(s) \in {0, Watch, Full}
    BY DEF Gate, VerdictTypeOK, Verdicts
  <2> QED BY <1>1, <2>1 DEF Enter, VerdictTypeOK
<1>2. ASSUME NEW s \in Symbols, NEW won \in BOOLEAN, Exit(s, won) PROVE VerdictTypeOK'
  <2> DEFINE kept == IF Len(trades[s]) = Window THEN Tail(trades[s]) ELSE trades[s]
             t == [won |-> won, own |-> TRUE, since |-> TRUE]
  <2>1. t \in Trades /\ trades[s] \in Seq(Trades) /\ Len(trades[s]) <= Window /\ Window \in Nat \ {0}
    BY DEF Trades, VerdictTypeOK
  <2>2. kept \in Seq(Trades) /\ Len(kept) < Window
    BY <2>1
  <2>3. trades' = [trades EXCEPT ![s] = Append(kept, t)]
    BY <1>2 DEF Exit
  <2> HIDE DEF kept, t
  <2>4. Append(kept, t) \in Seq(Trades) /\ Len(Append(kept, t)) <= Window
    BY <2>1, <2>2
  <2>5. /\ trades' \in [Symbols -> Seq(Trades)]
        /\ \A r \in Symbols : Len(trades'[r]) <= Window
    BY <2>3, <2>4 DEF VerdictTypeOK
  <2> QED BY <1>2, <2>5 DEF Exit, VerdictTypeOK
<1>3. ASSUME NEW s \in Symbols, Clear(s) PROVE VerdictTypeOK'
  BY <1>3, <1>b DEF Clear, VerdictTypeOK
<1>4. ASSUME NEW s \in Symbols, SwitchOff(s) PROVE VerdictTypeOK'
  BY <1>4 DEF SwitchOff, VerdictTypeOK
<1>5. ASSUME NEW s \in Symbols, SwitchOn(s) PROVE VerdictTypeOK'
  <2>1. CASE verdict[s] = None
    BY <1>5, <2>1 DEF SwitchOn, VerdictTypeOK
  <2>2. CASE verdict[s] # None
    BY <1>5, <2>2, <1>b DEF SwitchOn, VerdictTypeOK
  <2> QED BY <2>1, <2>2
<1>6. ASSUME NEW s \in Symbols, Readd(s) PROVE VerdictTypeOK'
  <2>1. <<>> \in Seq(Trades) /\ Len(<<>>) <= Window
    OBVIOUS
  <2> QED BY <1>6, <2>1 DEF Readd, VerdictTypeOK
<1>7. ASSUME NEW s \in Symbols, Expire(s) PROVE VerdictTypeOK'
  BY <1>7, <1>a DEF Expire, VerdictTypeOK
<1>8. ASSUME NEW s \in Symbols, Cool(s) PROVE VerdictTypeOK'
  BY <1>8, <1>a DEF Cool, VerdictTypeOK
<1>9. ASSUME ReviewReads PROVE VerdictTypeOK'
  <2>1. [s \in Symbols |-> <<>>] \in [Symbols -> Seq(Trades)]
    OBVIOUS
  <2>2. history' \in [Symbols -> Seq(Trades)]
    BY <1>9, <2>1 DEF ReviewReads, VerdictTypeOK
  <2> QED BY <1>9, <2>2 DEF ReviewReads, VerdictTypeOK
<1>10. ASSUME NEW worn \in SUBSET Symbols, Review(worn) PROVE VerdictTypeOK'
  <2>1. verdict' \in [Symbols -> Verdicts] /\ saved' = verdict'
    BY <1>10, ReviewVerdicts DEF Review
  <2>2. job' = None \/ job' \subseteq Symbols
    BY <1>10 DEF Review, Stale, VerdictTypeOK
  <2>3. history' = None /\ unreviewed' = {}
    BY <1>10 DEF Review
  <2>4. UNCHANGED <<trades, size, enabled, hardOnly>>
    BY <1>10 DEF Review
  <2> QED BY <2>1, <2>2, <2>3, <2>4 DEF VerdictTypeOK
<1>11. ASSUME OtherJob PROVE VerdictTypeOK'
  BY <1>11 DEF OtherJob, VerdictTypeOK
<1>12. ASSUME NEW won \in SUBSET Symbols, JobEnds(won) PROVE VerdictTypeOK'
  <2>1. Ages(won, Foreign)
    BY <1>12 DEF JobEnds
  <2>2. /\ trades' \in [Symbols -> Seq(Trades)]
        /\ \A r \in Symbols : Len(trades'[r]) <= Window
        /\ history' = None \/ history' \in [Symbols -> Seq(Trades)]
    BY <2>1, AgedTypes DEF Ages, VerdictTypeOK
  <2>3. /\ verdict' \in [Symbols -> Verdicts \cup {None}]
        /\ saved' \in [Symbols -> Verdicts \cup {None}]
    BY <1>12, <1>a DEF JobEnds, VerdictTypeOK
  <2> QED BY <1>12, <2>2, <2>3 DEF JobEnds, VerdictTypeOK
<1>13. ASSUME RestartOnSaved PROVE VerdictTypeOK'
  BY <1>13 DEF RestartOnSaved, VerdictTypeOK
<1>14. CASE UNCHANGED verdictVars
  BY <1>14 DEF verdictVars, VerdictTypeOK
<1> QED
  BY <1>1, <1>2, <1>3, <1>4, <1>5, <1>6, <1>7, <1>8, <1>9, <1>10, <1>11, <1>12, <1>13, <1>14
  DEF VerdictNext, Reviews

-----------------------------------------------------------------------------
(* What a step does to a symbol's verdict.                                 *)

\* A review of a symbol, seen from the one before it.
LEMMA ReviewOf ==
    ASSUME VerdictTypeOK, NEW worn \in SUBSET Symbols, Review(worn), NEW s \in Symbols,
           verdict[s] # None => (verdict[s].running => verdict[s].state = "quarantine")
    PROVE  LET v == IF verdict[s] = None THEN Blank ELSE verdict[s]
               w == verdict'[s]
               own == SinceEpoch(history[s], w)
           IN  /\ w \in Verdicts
               /\ w.running => w.state = "quarantine"
               /\ w.state = "quarantine" =>
                      \/ v.state = "quarantine"
                      \/ history[s] # <<>> /\ Broken(history[s], own)
               /\ w.probation =>
                      \/ v.probation /\ history[s] = <<>>
                      \/ history[s] # <<>> /\ (w.state = "quarantine" \/ w.scale # Full)
<1> DEFINE v == IF verdict[s] = None THEN Blank ELSE verdict[s]
           V == [r \in Symbols |-> Judge(r, history[r], r \in worn)]
           queue == job = None /\ Stale(V) # {}
<1>1. v \in Verdicts /\ (s \in worn) \in BOOLEAN /\ (v.running => v.state = "quarantine")
  BY DEF Blank, Verdicts, Full, VerdictTypeOK
<1>2. V[s] = IF history[s] = <<>> THEN JudgeIdle(v, s \in worn)
                                  ELSE JudgeRecord(history[s], v, s \in worn)
  BY DEF Judge
<1>3. verdict' = [r \in Symbols |-> IF queue /\ r \in Stale(V) THEN [V[r] EXCEPT !.cooling = TRUE]
                                    ELSE V[r]]
  BY DEF Review
<1> HIDE DEF v, queue
<1>4. PICK u : u = V[s]
  OBVIOUS
<1>5. verdict'[s] \in {u, [u EXCEPT !.cooling = TRUE]}
  BY <1>3, <1>4
<1> HIDE DEF V
<1>6. u \in Verdicts
  BY <1>1, <1>2, <1>4, JudgedType
<1>7. /\ u.running => u.state = "quarantine"
      /\ u.state = "quarantine" =>
             \/ v.state = "quarantine"
             \/ history[s] # <<>> /\ Broken(history[s], SinceEpoch(history[s], v)) /\ u.cleared = v.cleared
      /\ u.probation => \/ v.probation /\ history[s] = <<>>
                        \/ history[s] # <<>> /\ (u.state = "quarantine" \/ u.scale # Full)
  <2>1. PICK r, d : /\ r = JudgeRecord(history[s], v, s \in worn)
                    /\ d = JudgeIdle(v, s \in worn)
    OBVIOUS
  <2>2. /\ r.running => r.state = "quarantine"
        /\ d.running => d.state = "quarantine"
        /\ r.cleared = v.cleared
        /\ r.state = "quarantine" =>
               v.state = "quarantine" \/ Broken(history[s], SinceEpoch(history[s], v))
        /\ d.state = "quarantine" => v.state = "quarantine"
        /\ d.probation = v.probation
        /\ r.probation /\ r.state # "quarantine" => r.scale # Full
    <3>1. ASSUME NEW b \in BOOLEAN, r = JudgeRecord(history[s], v, b), d = JudgeIdle(v, b)
          PROVE  /\ r.running => r.state = "quarantine"
                 /\ d.running => d.state = "quarantine"
                 /\ r.cleared = v.cleared
                 /\ r.state = "quarantine" =>
                        v.state = "quarantine" \/ Broken(history[s], SinceEpoch(history[s], v))
                 /\ d.state = "quarantine" => v.state = "quarantine"
                 /\ d.probation = v.probation
                 /\ r.probation /\ r.state # "quarantine" => r.scale # Full
      BY <1>1, <3>1, Judged
    <3> QED BY <1>1, <2>1, <3>1
  <2>3. u = IF history[s] = <<>> THEN d ELSE r
    BY <1>2, <1>4, <2>1
  <2> QED BY <2>2, <2>3
<1>8. u.cleared = v.cleared => SinceEpoch(history[s], v) = SinceEpoch(history[s], u)
  BY DEF SinceEpoch
<1>9. PICK w : w = verdict'[s]
  OBVIOUS
<1>10. /\ w \in Verdicts /\ w.state = u.state /\ w.scale = u.scale /\ w.running = u.running
       /\ w.probation = u.probation /\ w.cleared = u.cleared
  BY <1>5, <1>6, <1>9 DEF Verdicts
<1>11. SinceEpoch(history[s], u) = SinceEpoch(history[s], w)
  BY <1>10 DEF SinceEpoch
<1> QED BY <1>7, <1>8, <1>9, <1>10, <1>11 DEF v

\* A broken record has as many losses as the breaker asks, or enough trades.
LEMMA BrokenRecord ==
    ASSUME NEW T \in Seq(Trades), NEW own \in SUBSET DOMAIN T, Broken(T, own)
    PROVE  \/ Cardinality({i \in own : ~T[i].won}) >= Losses
           \/ Cardinality(own) >= Bar
<1> DEFINE ends == {i \in own : \A j \in own : j >= i => ~T[j].won}
           losses == {i \in own : ~T[i].won}
<1>1. IsFiniteSet(1..Len(T)) /\ DOMAIN T = 1..Len(T)
  BY FS_Interval
<1>2. losses \subseteq 1..Len(T) /\ ends \subseteq losses
  <2>1. \A i \in own : i \in Int
    BY <1>1
  <2> QED BY <1>1, <2>1
<1>3. IsFiniteSet(losses)
  BY <1>1, <1>2, FS_Subset
<1>4. Cardinality(ends) <= Cardinality(losses)
  BY <1>2, <1>3, FS_Subset
<1>5. IsFiniteSet(ends)
  BY <1>2, <1>3, FS_Subset
<1>6. Cardinality(ends) \in Nat /\ Cardinality(losses) \in Nat
  BY <1>3, <1>5, FS_CardinalityType
<1>7. Streak(T, own) = Cardinality(ends)
  BY DEF Streak
<1> HIDE DEF ends, losses
<1>8. Losses \in Nat
  BY VerdictBounds
<1>9. Streak(T, own) >= Losses => Cardinality(losses) >= Losses
  BY <1>4, <1>6, <1>7, <1>8
<1> QED BY <1>9 DEF Broken, losses

-----------------------------------------------------------------------------
(* The invariant.                                                          *)

\* What one symbol owes the invariant.
OneVerdict(s) == Saved(s) /\ ReadIsThere(s) /\ (~BlindReads => OnProbation(s))

\* A record whose trades age is still a record.
LEMMA AgesKeepRecords ==
    ASSUME VerdictTypeOK, NEW S, Ages(S, Past) \/ Ages(S, Foreign), NEW s \in Symbols
    PROVE  /\ trades'[s] = <<>> <=> trades[s] = <<>>
           /\ history' # None => history # None /\ (history'[s] = <<>> <=> history[s] = <<>>)
<1>1. \A H \in [Symbols -> Seq(Trades)] :
          /\ Aged(H, S, Past)[s] = <<>> <=> H[s] = <<>>
          /\ Aged(H, S, Foreign)[s] = <<>> <=> H[s] = <<>>
  <2>1. \A T, U \in Seq(Trades) : Len(T) = Len(U) => (T = <<>> <=> U = <<>>)
    OBVIOUS
  <2>2. \A H \in [Symbols -> Seq(Trades)] :
            /\ H[s] \in Seq(Trades)
            /\ Aged(H, S, Past)[s] \in Seq(Trades) /\ Len(Aged(H, S, Past)[s]) = Len(H[s])
            /\ Aged(H, S, Foreign)[s] \in Seq(Trades) /\ Len(Aged(H, S, Foreign)[s]) = Len(H[s])
    BY AgedTypes
  <2> QED BY <2>1, <2>2
<1> QED BY <1>1 DEF Ages, VerdictTypeOK

\* A release, of this symbol or another.
LEMMA ReleaseVerdict ==
    ASSUME VerdictTypeOK, NEW s \in Symbols, Release(s), NEW r \in Symbols, OneVerdict(r)
    PROVE  OneVerdict(r)'
<1>1. /\ trades'[r] = <<>> <=> trades[r] = <<>>
      /\ history' # None => history # None /\ (history'[r] = <<>> <=> history[r] = <<>>)
  BY AgesKeepRecords DEF Release
<1>2. /\ saved' = verdict'
      /\ unreviewed' = unreviewed \cup {s}
      /\ r # s => verdict'[r] = verdict[r]
      /\ verdict[s] # None
  BY DEF Release, Released, VerdictTypeOK
<1>3. ReadIsThere(r)'
  BY <1>1 DEF OneVerdict, ReadIsThere
<1>4. CASE r # s
  BY <1>1, <1>2, <1>3, <1>4 DEF OneVerdict, Saved, OnProbation, HasRecord
<1>5. CASE r = s
  <2>1. /\ verdict'[r].state = "ok" /\ verdict'[r].running = FALSE
        /\ verdict'[r].probation = Suspended(r)
    BY <1>2, <1>5 DEF Release, Released, VerdictTypeOK, Verdicts
  <2> QED BY <1>1, <1>2, <1>3, <1>5, <2>1 DEF OneVerdict, Saved, OnProbation, HasRecord, Suspended
<1> QED BY <1>4, <1>5

\* Every step keeps it.
LEMMA OneVerdictStep ==
    ASSUME ~LateForget, VerdictTypeOK, \A q \in Symbols : OneVerdict(q),
           [VerdictNext]_verdictVars, NEW r \in Symbols
    PROVE  OneVerdict(r)'
<1>0. OneVerdict(r)
  OBVIOUS
<1> USE DEF OneVerdict, Saved, OnProbation, ReadIsThere, HasRecord
<1>1. ASSUME NEW s \in Symbols, Enter(s) PROVE OneVerdict(r)'
  BY <1>0, <1>1 DEF Enter
<1>2. ASSUME NEW s \in Symbols, NEW won \in BOOLEAN, Exit(s, won) PROVE OneVerdict(r)'
  <2> DEFINE kept == IF Len(trades[s]) = Window THEN Tail(trades[s]) ELSE trades[s]
             t == [won |-> won, own |-> TRUE, since |-> TRUE]
  <2>1. kept \in Seq(Trades) /\ t \in Trades
    BY VerdictBounds DEF VerdictTypeOK, Trades
  <2>2. trades' = [trades EXCEPT ![s] = Append(kept, t)]
    BY <1>2 DEF Exit
  <2> HIDE DEF kept, t
  <2>3. Append(kept, t) # <<>>
    BY <2>1
  <2>4. trades'[r] # <<>> \/ trades'[r] = trades[r]
    BY <2>2, <2>3 DEF VerdictTypeOK
  <2> QED BY <1>0, <1>2, <2>4 DEF Exit
<1>3. ASSUME NEW s \in Symbols, Clear(s) PROVE OneVerdict(r)'
  BY <1>0, <1>3, ReleaseVerdict DEF Clear
<1>4. ASSUME NEW s \in Symbols, SwitchOff(s) PROVE OneVerdict(r)'
  BY <1>0, <1>4 DEF SwitchOff
<1>5. ASSUME NEW s \in Symbols, SwitchOn(s) PROVE OneVerdict(r)'
  <2>1. CASE verdict[s] = None
    BY <1>0, <1>5, <2>1 DEF SwitchOn
  <2>2. CASE verdict[s] # None
    BY <1>0, <1>5, <2>2, ReleaseVerdict DEF SwitchOn
  <2> QED BY <2>1, <2>2
<1>6. ASSUME NEW s \in Symbols, Readd(s) PROVE OneVerdict(r)'
  BY <1>0, <1>6 DEF Readd, VerdictTypeOK
<1>7. ASSUME NEW s \in Symbols, Expire(s) PROVE OneVerdict(r)'
  BY <1>0, <1>7 DEF Expire, VerdictTypeOK, Verdicts
<1>8. ASSUME NEW s \in Symbols, Cool(s) PROVE OneVerdict(r)'
  <2>1. verdict[r] # None =>
            /\ saved'[r] = verdict'[r]
            /\ verdict'[r].state = verdict[r].state /\ verdict'[r].scale = verdict[r].scale
            /\ verdict'[r].running = verdict[r].running
            /\ verdict'[r].probation = verdict[r].probation
    <3>1. /\ verdict' = [verdict EXCEPT ![s].cooling = FALSE]
          /\ saved' = [saved EXCEPT ![s] = IF @ = None THEN None ELSE [@ EXCEPT !.cooling = FALSE]]
      BY <1>8 DEF Cool
    <3>2. CASE r # s
      BY <1>0, <3>1, <3>2 DEF VerdictTypeOK
    <3>3. CASE r = s
      <4>1. verdict[s] # None /\ verdict[s] \in Verdicts /\ saved[s] = verdict[s]
        BY <1>0, <1>8, <3>3 DEF Cool, VerdictTypeOK
      <4>2. /\ verdict'[s] = [verdict[s] EXCEPT !.cooling = FALSE]
            /\ saved'[s] = [verdict[s] EXCEPT !.cooling = FALSE]
        BY <3>1, <4>1 DEF VerdictTypeOK
      <4> QED BY <3>3, <4>1, <4>2 DEF Verdicts
    <3> QED BY <3>2, <3>3
  <2>2. verdict[r] = None => verdict'[r] = None
    BY <1>8 DEF Cool, VerdictTypeOK
  <2> QED BY <1>0, <1>8, <2>1, <2>2 DEF Cool
<1>9. ASSUME ReviewReads PROVE OneVerdict(r)'
  BY <1>0, <1>9 DEF ReviewReads, VerdictTypeOK
<1>10. ASSUME NEW worn \in SUBSET Symbols, Review(worn) PROVE OneVerdict(r)'
  <2> DEFINE v == IF verdict[r] = None THEN Blank ELSE verdict[r]
  <2>1. PICK w : w = verdict'[r]
    OBVIOUS
  <2>2. /\ w \in Verdicts
        /\ w.running => w.state = "quarantine"
        /\ w.state = "quarantine" => v.state = "quarantine" \/ history[r] # <<>>
        /\ w.probation => \/ v.probation /\ history[r] = <<>>
                          \/ history[r] # <<>> /\ (w.state = "quarantine" \/ w.scale # Full)
    BY <1>0, <1>10, <2>1, ReviewOf
  <2>3. /\ v.state = "quarantine" \/ v.probation => verdict[r] # None /\ v = verdict[r]
    BY DEF Blank
  <2>4. /\ saved' = verdict' /\ history' = None /\ unreviewed' = {} /\ trades' = trades
        /\ history # None
    BY <1>10 DEF Review
  <2> HIDE DEF v
  <2> QED BY <1>0, <2>1, <2>2, <2>3, <2>4
<1>11. ASSUME OtherJob PROVE OneVerdict(r)'
  BY <1>0, <1>11 DEF OtherJob
<1>12. ASSUME NEW won \in SUBSET Symbols, JobEnds(won) PROVE OneVerdict(r)'
  <2>1. /\ trades'[r] = <<>> <=> trades[r] = <<>>
        /\ history' # None => history # None /\ (history'[r] = <<>> <=> history[r] = <<>>)
    BY <1>12, AgesKeepRecords DEF JobEnds
  <2>2. verdict[r] = None => verdict'[r] = None
    BY <1>12 DEF JobEnds
  <2>3. ASSUME verdict[r] # None
        PROVE  /\ saved'[r] = verdict'[r]
               /\ verdict'[r].state = verdict[r].state /\ verdict'[r].scale = verdict[r].scale
               /\ verdict'[r].running = verdict[r].running
               /\ verdict'[r].probation = verdict[r].probation
    BY <1>0, <1>12, <2>3 DEF JobEnds, VerdictTypeOK, Verdicts
  <2> QED BY <1>0, <1>12, <2>1, <2>2, <2>3 DEF JobEnds
<1>13. ASSUME RestartOnSaved PROVE OneVerdict(r)'
  BY <1>0, <1>13 DEF RestartOnSaved
<1>14. CASE UNCHANGED verdictVars
  BY <1>0, <1>14 DEF verdictVars
<1> QED
  BY <1>1, <1>2, <1>3, <1>4, <1>5, <1>6, <1>7, <1>8, <1>9, <1>10, <1>11, <1>12, <1>13, <1>14
  DEF VerdictNext, Reviews

\* The types hold whatever is read and whenever the process ends.
THEOREM VerdictTypes == VerdictSpec => []VerdictTypeOK
<1>1. VerdictInit => VerdictTypeOK
  <2>1. <<>> \in Seq(Trades) /\ Len(<<>>) <= Window
    BY VerdictBounds
  <2> QED BY <2>1 DEF VerdictInit, VerdictTypeOK
<1>2. VerdictTypeOK /\ [VerdictNext]_verdictVars => VerdictTypeOK'
  BY VerdictTypesStep
<1> QED BY <1>1, <1>2, PTL DEF VerdictSpec

\* Where no delete and no crash falls between a verdict and its save, what is
\* saved is what is believed, a running clock is a suspension's, and, if the
\* deals can be read, probation is served at less than full size.
THEOREM VerdictInvariant == ASSUME ~LateForget PROVE VerdictSpec => []VerdictInv
<1>1. VerdictInit => VerdictInv
  <2>1. <<>> \in Seq(Trades) /\ Len(<<>>) <= Window
    BY VerdictBounds
  <2>2. VerdictInit => VerdictTypeOK
    BY <2>1 DEF VerdictInit, VerdictTypeOK
  <2>3. VerdictInit => history = None /\ \A s \in Symbols : verdict[s] = None
    BY DEF VerdictInit
  <2> QED BY <2>2, <2>3 DEF VerdictInv, Saved, ReadIsThere, OnProbation
<1>2. VerdictTypeOK /\ VerdictInv /\ [VerdictNext]_verdictVars => VerdictInv'
  <2> SUFFICES ASSUME VerdictTypeOK, VerdictInv, [VerdictNext]_verdictVars PROVE VerdictInv'
    OBVIOUS
  <2>1. \A q \in Symbols : OneVerdict(q)
    BY DEF VerdictInv, OneVerdict
  <2>2. ASSUME NEW r \in Symbols PROVE OneVerdict(r)'
    BY <2>1, OneVerdictStep
  <2>3. VerdictTypeOK'
    BY VerdictTypesStep
  <2> QED BY <2>2, <2>3 DEF VerdictInv, OneVerdict
<1> QED BY <1>1, <1>2, VerdictTypes, PTL DEF VerdictSpec

\* Only a review suspends.
LEMMA SuspendedByReview ==
    ASSUME ~LateForget, VerdictInv, VerdictNext, NEW s \in Symbols, Suspended(s)', ~Suspended(s)
    PROVE  \E worn \in SUBSET Symbols : Review(worn)
<1> SUFFICES ASSUME ~ \E worn \in SUBSET Symbols : Review(worn)
             PROVE  Suspended(s)' => Suspended(s)
  OBVIOUS
<1>1. VerdictTypeOK /\ Saved(s)
  BY DEF VerdictInv
<1>2. ASSUME NEW r \in Symbols, Release(r) PROVE Suspended(s)' => Suspended(s)
  BY <1>1, <1>2 DEF Release, Released, Suspended, VerdictTypeOK, Verdicts
<1>3. CASE \E r \in Symbols : Expire(r) \/ Cool(r)
  BY <1>1, <1>3 DEF Expire, Cool, Suspended, VerdictTypeOK, Verdicts
<1>4. CASE \E r \in Symbols : Clear(r) \/ SwitchOn(r)
  BY <1>2, <1>4 DEF Clear, SwitchOn, Suspended
<1>5. CASE \E won \in SUBSET Symbols : JobEnds(won)
  BY <1>1, <1>5 DEF JobEnds, Suspended, VerdictTypeOK, Verdicts
<1>6. CASE RestartOnSaved
  BY <1>1, <1>6 DEF RestartOnSaved, Suspended, Saved
<1>7. CASE \E r \in Symbols : Readd(r)
  BY <1>1, <1>7 DEF Readd, Suspended, VerdictTypeOK
<1>8. CASE \E r \in Symbols : Enter(r) \/ SwitchOff(r) \/ \E won \in BOOLEAN : Exit(r, won)
  BY <1>8 DEF Enter, SwitchOff, Exit, Suspended
<1>9. CASE ReviewReads \/ OtherJob
  BY <1>9 DEF ReviewReads, OtherJob, Suspended
<1> QED BY <1>3, <1>4, <1>5, <1>6, <1>7, <1>8, <1>9 DEF VerdictNext, Reviews

\* A symbol is suspended on its own record only, however it was read.
THEOREM OwnRecordOnlySafe == ASSUME ~LateForget PROVE VerdictSpec => OwnRecordOnly
<1> DEFINE OnOwn == \A s \in Symbols : Suspended(s)' /\ ~Suspended(s) => BrokeOnOwn(s)
<1>1. VerdictInv /\ [VerdictNext]_verdictVars => [OnOwn]_verdictVars
  <2> SUFFICES ASSUME VerdictInv, VerdictNext, NEW s \in Symbols, Suspended(s)', ~Suspended(s)
               PROVE  BrokeOnOwn(s)
    OBVIOUS
  <2>1. PICK worn \in SUBSET Symbols : Review(worn)
    BY SuspendedByReview
  <2>2. VerdictTypeOK /\ Saved(s) /\ history[s] \in Seq(Trades)
    BY <2>1 DEF VerdictInv, VerdictTypeOK, Review
  <2>3. LET v == IF verdict[s] = None THEN Blank ELSE verdict[s]
        IN  verdict'[s].state = "quarantine" =>
                v.state = "quarantine" \/ Broken(history[s], SinceEpoch(history[s], verdict'[s]))
    BY <2>1, <2>2, ReviewOf DEF Saved
  <2>4. (IF verdict[s] = None THEN Blank ELSE verdict[s]).state # "quarantine"
    BY DEF Suspended, Blank
  <2>5. PICK T, own : T = history[s] /\ own = SinceEpoch(T, verdict'[s])
    OBVIOUS
  <2>6. own \in SUBSET DOMAIN T
    BY <2>5 DEF SinceEpoch
  <2>7. Broken(T, own)
    BY <2>3, <2>4, <2>5, <2>6 DEF Suspended
  <2>8. \/ Cardinality({i \in own : ~T[i].won}) >= Losses
        \/ Cardinality(own) >= Bar
    BY <2>2, <2>5, <2>6, <2>7, BrokenRecord
  <2> QED BY <2>5, <2>8 DEF BrokeOnOwn, SinceEpoch
<1>2. VerdictSpec => [][OnOwn]_verdictVars
  BY <1>1, VerdictInvariant, PTL DEF VerdictSpec
<1> QED BY <1>2 DEF OwnRecordOnly

\* After a suspension is lifted the symbol trades small until it has proved
\* itself, where a review reads the deals there are.
THEOREM SmallUntilProvedSafe ==
    ASSUME ~LateForget, ~BlindReads PROVE VerdictSpec => SmallUntilProved
<1> DEFINE Small == \A s \in Symbols :
               size[s] = 0 /\ size'[s] = Full /\ verdict[s] # None =>
                   ~verdict[s].probation \/ s \in unreviewed
<1>1. VerdictInv /\ [VerdictNext]_verdictVars => [Small]_verdictVars
  <2> SUFFICES ASSUME VerdictInv, VerdictNext, NEW s \in Symbols,
                      size[s] = 0, size'[s] = Full, verdict[s] # None
               PROVE  ~verdict[s].probation \/ s \in unreviewed
    OBVIOUS
  <2>1. VerdictTypeOK /\ OnProbation(s)
    BY DEF VerdictInv
  <2>2. Enter(s)
    <3>1. size'[s] # size[s] /\ size'[s] # 0
      BY DEF Full
    <3>2. ASSUME NEW r \in Symbols, NEW won \in BOOLEAN, Exit(r, won) PROVE FALSE
      BY <2>1, <3>1, <3>2 DEF Exit, VerdictTypeOK
    <3>3. ASSUME NEW r \in Symbols, Enter(r) PROVE r = s
      BY <2>1, <3>1, <3>3 DEF Enter, VerdictTypeOK
    <3>4. ASSUME size' = size PROVE FALSE
      BY <3>1, <3>4
    <3> QED BY <3>2, <3>3, <3>4
      DEF VerdictNext, Reviews, Review, ReviewReads, Clear, SwitchOff, SwitchOn, Readd, Expire,
          Cool, OtherJob, JobEnds, RestartOnSaved
  <2>3. Gate(s) = Full
    BY <2>1, <2>2 DEF Enter, VerdictTypeOK
  <2>4. verdict[s].state # "quarantine" /\ verdict[s].scale = Full
    BY <2>3 DEF Gate, Full, Watch
  <2> QED BY <2>1, <2>4 DEF OnProbation
<1>2. VerdictSpec => [][Small]_verdictVars
  BY <1>1, VerdictInvariant, PTL DEF VerdictSpec
<1> QED BY <1>2 DEF SmallUntilProved
=============================================================================
