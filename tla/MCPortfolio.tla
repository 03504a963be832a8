----------------------------- MODULE MCPortfolio -----------------------------
(******************************************************************************)
(* Six machines that share no state, run side by side: the rows of the        *)
(* portfolio (SymbolBook), the link to the terminal (BrokerLink), the         *)
(* broker's clock (BrokerClock), a week of trading windows (SessionClock),    *)
(* one replayed window of bars (Replay) and one parameter search (GridSweep). *)
(* A behaviour is of one of them, so that the states add up and do not        *)
(* multiply.                                                                  *)
(******************************************************************************)
EXTENDS MCSymbolBook, BrokerLink, MCBrokerClock, MCResearch

VARIABLE desk

tradingVars  == <<bookVars, linkVars, brokerVars>>
researchVars == <<clockVars, replayVars, sweepVars>>
allVars      == <<desk, tradingVars, researchVars>>

Apart == {}

LinkRest ==
    /\ LinkInit
    /\ stage = [i \in Installs |-> "synced"] /\ pipe = [i \in Installs |-> TRUE]
    /\ path = (CHOOSE i \in Installs : TRUE)
BrokerRest ==
    /\ BrokerInit
    /\ zone = 0 /\ shut = FALSE /\ stamp = [q \in Quoted |-> 0]
WeekRest   == ClockInit /\ now = 0 /\ cfg = CHOOSE k \in Configs : TRUE
ReplayRest == ReplayInit /\ signals = {}

Init ==
    /\ BookInit /\ SweepInit
    /\ \/ desk \in {"book", "sweep"} /\ LinkRest /\ BrokerRest /\ WeekRest /\ ReplayRest
       \/ desk = "link" /\ LinkInit /\ BrokerRest /\ WeekRest /\ ReplayRest
       \/ desk = "clock" /\ BrokerInit /\ LinkRest /\ WeekRest /\ ReplayRest
       \/ desk = "week" /\ ClockInit /\ LinkRest /\ BrokerRest /\ ReplayRest
       \/ desk = "replay" /\ ReplayInit /\ LinkRest /\ BrokerRest /\ WeekRest

Next ==
    \/ desk = "book" /\ BookNext
       /\ UNCHANGED <<desk, linkVars, brokerVars, researchVars>>
    \/ desk = "link" /\ LinkNext
       /\ UNCHANGED <<desk, bookVars, brokerVars, researchVars>>
    \/ desk = "clock" /\ BrokerNext
       /\ UNCHANGED <<desk, bookVars, linkVars, researchVars>>
    \/ desk = "week" /\ ClockNext
       /\ UNCHANGED <<desk, replayVars, sweepVars, tradingVars>>
    \/ desk = "replay" /\ ReplayNext
       /\ UNCHANGED <<desk, clockVars, sweepVars, tradingVars>>
    \/ desk = "sweep" /\ SweepNext
       /\ UNCHANGED <<desk, clockVars, replayVars, tradingVars>>

Spec == Init /\ [][Next]_allVars
==============================================================================
