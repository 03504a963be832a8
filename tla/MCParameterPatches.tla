------------------------- MODULE MCParameterPatches -------------------------
(***************************************************************************)
(* Two machines that share no state, run side by side; a behaviour is of   *)
(* one of them.  SearchVerdict: the series of results that decides what a  *)
(* symbol is offered.  ParameterPatches: how an offer lands, for one       *)
(* symbol with two families and two values of each field; the search       *)
(* brings a new family or new exits, the autopilot turns one dial at a     *)
(* time and by force, the panel applies a row of the history or a gate.    *)
(***************************************************************************)
EXTENDS ParameterPatches, MCSearchVerdict

CONSTANTS v1, v2

VARIABLE desk

deskVars == <<desk, vars, seriesVars>>

Start == [family |-> burst, exit |-> v1, gate |-> v1]

Off(f, e, g, good, forced) ==
    [cand |-> [family |-> f, exit |-> e, gate |-> g], good |-> good,
     forced |-> forced]

Calls ==
    [a \in Appliers |->
        CASE a = Search -> {Off(fade, v2, v2, TRUE, FALSE),
                            Off(burst, v2, v2, TRUE, FALSE)}
          [] a = Autopilot -> {Off(Keep, Keep, v2, TRUE, TRUE),
                               Off(Keep, v2, Keep, TRUE, TRUE)}
          [] OTHER -> {Off(fade, v1, v2, TRUE, TRUE),
                       Off(Keep, Keep, v2, FALSE, FALSE)}]

-----------------------------------------------------------------------------
DeskInit ==
    /\ desk \in {"patches", "series"} /\ Init /\ SeriesInit
    /\ desk = "patches" => /\ age = 0 /\ market = Calm /\ window = day
                           /\ stamp = StampOf(Starting, Calm, TRUE)

DeskNext ==
    \/ desk = "patches" /\ Next /\ UNCHANGED <<desk, seriesVars>>
    \/ desk = "series" /\ SeriesNext /\ UNCHANGED <<desk, vars>>

DeskSpec ==
    /\ DeskInit /\ [][DeskNext]_deskVars
    /\ WF_vars(PollNext)
    /\ \A a \in Appliers : WF_vars(ApplyNext(a))
=============================================================================
