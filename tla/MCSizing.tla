------------------------------ MODULE MCSizing ------------------------------
(* A cheap symbol, one whose stored risk is above the 1R ceiling, and one     *)
(* whose minimum lot exceeds its ceiling; the account dials on, pinned, off.  *)
(* MCAlike, MCEven: three symbols that weigh the same.                        *)
EXTENDS Sizing
CONSTANTS cheap, bold, dear
Sym(need, risk, floor, pc, exp, net, tight) ==
    [need |-> need, risk |-> risk, floor |-> floor, ceiling |-> 8, percent |-> pc,
     exp |-> exp, net |-> net, dd |-> 10, tight |-> tight]
MCSpec1R == [n \in Traded |->
    CASE n = cheap -> Sym(4, 150, 1, 5, 20, 30, FALSE)
      [] n = bold -> Sym(2, 100, 2, 25, 60, 60, TRUE)
      [] OTHER -> Sym(10, 800, 1, 5, 0, 10, FALSE)]
MCAlike == [n \in Traded |-> Sym(4, 20, 1, 5, 20, 30, FALSE)]
MCEven == [n \in Traded |-> 0]
MCHealth == [n \in Traded |-> IF n = cheap THEN 1 ELSE IF n = dear THEN 2 ELSE 0]
Pan(auto, pin, usage, mult, cap) ==
    [auto |-> auto, pinLot |-> pin, pinCap |-> pin, usage |-> usage, mult |-> mult, cap |-> cap]
MCPanels == {Pan(TRUE, FALSE, 80, 100, 0), Pan(TRUE, TRUE, 20, 30, 80), Pan(FALSE, FALSE, 8, 250, 0),
             Pan(FALSE, FALSE, 0, 100, 100)}
MCAccounts == {[equity |-> 150, balance |-> 150], [equity |-> 300, balance |-> 150]}
MCRosters == {Traded, {}}
=============================================================================
