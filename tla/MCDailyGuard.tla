----------------------------- MODULE MCDailyGuard -----------------------------
(***************************************************************************)
(* DailyGuard on a small instance: a balance of 4, one deposit of 2 and    *)
(* losses of 2 at a time, so that the deposit covers one loss in full and  *)
(* two losses bring the balance to zero.                                   *)
(***************************************************************************)
EXTENDS DailyGuard

Amounts == {2}
Results == {-2, 0}
=============================================================================
