----------------------------- MODULE MCResearch -----------------------------
(***************************************************************************)
(* Values for three machines: a week of trading windows (SessionClock),    *)
(* one replayed window of bars (Replay) and one parameter search           *)
(* (GridSweep).                                                            *)
(***************************************************************************)
EXTENDS SessionClock, Replay, MCGridSweep

-----------------------------------------------------------------------------
(* Weeks: one window, two apart, two that overlap, two that touch, one     *)
(* over midnight, one with days of its own; wind-downs, blocked hours,     *)
(* all-hours trading, a weekend_open symbol, crypto.                       *)
At(h) == h * Hour
W(s, e) == [start |-> At(s), end |-> At(e), days |-> None]
On5(s, e, d) == [start |-> At(s), end |-> At(e), days |-> d]

Shapes ==
    { {W(9, 17)}, {W(8, 12), W(13, 17)}, {W(8, 12), W(9, 17)},
      {W(8, 12), W(12, 23)}, {W(21, 3)}, {W(22, 6), W(2, 8)},
      {On5(9, 17, {1, 5}), W(15, 20)}, {W(0, 23)}, {} }

With(shape, crypto, perp, all, days, blocked, flat, end) ==
    [crypto |-> crypto, weekend_open |-> perp, all_hours |-> all,
     use_sessions |-> TRUE, windows |-> shape, trade_days |-> days,
     blocked |-> blocked, flat |-> flat, day_end |-> end]

Weeks ==
    {With(s, c, FALSE, a, 1 .. 5, b, f, 0) :
        s \in Shapes, c \in BOOLEAN, a \in BOOLEAN, b \in {{}, {11, 16}},
        f \in {0, 1, Hour + 1}}
    \union
    {With(s, FALSE, p, FALSE, d, {}, Hour, 1) :
        s \in Shapes, p \in BOOLEAN, d \in {{}, {1, 3}, 1 .. 7}}

-----------------------------------------------------------------------------
Quotes == 0 .. 3
Wishes == {-1, 2}
=============================================================================
