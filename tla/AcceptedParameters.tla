------------------------- MODULE AcceptedParameters -------------------------
(* What the writers of a symbol's parameters and the poll thread promise     *)
(* together, whatever the queues in between look like.  A writer that is     *)
(* answered "ok" decides what the symbol will run with (told); while the      *)
(* magic is occupied the family and the exit parameters of the live row do    *)
(* not move, and when it is not occupied the row is made what was told,       *)
(* neither an older candidate nor a mixture of two.                           *)
VARIABLES live, owed, told, occupied

vars == <<live, owed, told, occupied>>

(* The fields an open position is managed by.                                 *)
Guarded(p) == <<p.family, p.exit>>

Init == live = told /\ owed = told /\ occupied = FALSE

(* A candidate or an edit is accepted.                                        *)
Accept ==
    /\ owed' = told'
    /\ IF occupied THEN Guarded(live') = Guarded(live) ELSE live' = told'
    /\ UNCHANGED occupied

(* What is owed is written to the row of an unoccupied magic.                 *)
Land == ~occupied /\ live' = owed /\ UNCHANGED <<owed, told, occupied>>

(* What is owed is given up, with a warning.                                  *)
Drop == owed' = live /\ told' = live /\ UNCHANGED <<live, occupied>>

OpenOrClose == UNCHANGED <<live, owed, told>>

Next == Accept \/ Land \/ Drop \/ OpenOrClose

Spec == Init /\ [][Next]_vars
=============================================================================
