--------------------------- MODULE MCSearchVerdict ---------------------------
(* Two configurations of one family and one of another, three markets.  In    *)
(* each market costs lower every number, and the sessions of that market are  *)
(* measured at three windows.                                                 *)
EXTENDS SearchVerdict

CONSTANTS burst1, burst2, fade1, burst, fade, day, night, late

Of == [k \in Rivals |-> IF k = fade1 THEN fade ELSE burst]

Shown(net, score, pr, fails) == [net |-> net, score |-> score, pr |-> pr, fails |-> fails]
Each(u, v, w) == [x \in Rivals |-> CASE x = burst1 -> u [] x = burst2 -> v [] OTHER -> w]
Win(rank, dd, enough, pays) ==
    [rank |-> rank, net |-> rank, dd |-> dd, enough |-> enough, pays |-> pays]
Clk(u, v, w) == [x \in Slots |-> CASE x = day -> u [] x = night -> v [] OTHER -> w]

Calm ==
    [of |-> [k \in BOOLEAN |->
               IF k THEN Each(Shown(100, 50, 8, {}), Shown(120, 60, 7, {}), Shown(100, 50, 8, {}))
                    ELSE Each(Shown(140, 80, 8, {}), Shown(120, 60, 8, {}), Shown(150, 90, 9, {}))],
     scale |-> 100,
     clock |-> Clk(Win(100, 40, TRUE, TRUE), Win(110, 20, TRUE, TRUE), Win(200, 40, FALSE, TRUE))]

Turned ==
    [of |-> [k \in BOOLEAN |->
               IF k THEN Each(Shown(-50, -50, 2, {"holdout"}), Shown(100, 50, 6, {"retention"}),
                             Shown(110, 60, 6, {}))
                    ELSE Each(Shown(60, 30, 5, {}), Shown(120, 60, 6, {}), Shown(130, 70, 9, {}))],
     scale |-> 100,
     clock |-> Clk(Win(100, 40, TRUE, FALSE), Win(110, 20, TRUE, TRUE), Win(130, 0, TRUE, TRUE))]

Wide ==
    [of |-> [k \in BOOLEAN |->
               IF k THEN Each(Shown(100, 50, 8, {}), Shown(60, 40, 7, {"cost"}),
                             Shown(-10, -10, 3, {"holdout", "validation"}))
                    ELSE Each(Shown(140, 80, 8, {}), Shown(120, 60, 8, {"edge"}),
                             Shown(150, 90, 9, {"slices", "selection"}))],
     scale |-> 125,
     clock |-> Clk(Win(100, 40, TRUE, TRUE), Win(100, 10, TRUE, TRUE), Win(-10, 40, TRUE, TRUE))]

All == {Calm, Turned, Wide}
=============================================================================
