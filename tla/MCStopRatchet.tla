---------------------------- MODULE MCStopRatchet -----------------------------
(***************************************************************************)
(* Three machines that share no state, run side by side.  StopRatchet:     *)
(* ticks of three, a risk of six, quotes under water, at the entry, past   *)
(* break-even and past the lock, two overlays that may replace each other. *)
(* SpreadCost: two symbols of two lives, three buckets, three samples.     *)
(* Sizing: three symbols on one account.  A behaviour is of one of them.   *)
(***************************************************************************)
EXTENDS StopRatchet, SpreadCost, MCSizing

CONSTANTS fx, bist

VARIABLE desk

deskVars == <<desk, vars, spreadVars, sizingVars>>

Quotes == {-7, 8, 14}
Swing  == {5}

Locked    == [sl_mult |-> 2, start |-> 3, step |-> 2, mode |-> "hybrid", be_at |-> 1,
              harvest_at |-> 0, harvest_step |-> 0, locks |-> {[at_r |-> 2, to_r |-> 1]}]
Harvested == [Locked EXCEPT !.be_at = 0, !.harvest_at = 2, !.harvest_step = 1, !.locks = {}]
Overlays  == {Locked, Harvested}

-----------------------------------------------------------------------------
StopRest == Init /\ side = "buy" /\ cfg = Locked /\ sl = None
SizingRest ==
    /\ SizingInit /\ enabled1R = {}
    /\ account = (CHOOSE x \in Accounts : TRUE)
    /\ dials = (CHOOSE d \in Panels : TRUE)

DeskInit ==
    /\ SpreadInit
    /\ \/ desk = "stops" /\ Init /\ SizingRest
       \/ desk = "spread" /\ StopRest /\ SizingRest
       \/ desk = "sizing" /\ StopRest /\ SizingInit

DeskNext ==
    \/ desk = "stops" /\ Next /\ UNCHANGED <<desk, spreadVars, sizingVars>>
    \/ desk = "spread" /\ SpreadNext /\ UNCHANGED <<desk, vars, sizingVars>>
    \/ desk = "sizing" /\ SizingNext /\ UNCHANGED <<desk, vars, spreadVars>>

DeskSpec == DeskInit /\ [][DeskNext]_deskVars

-----------------------------------------------------------------------------
(* Readings of up to three bands, above, at and below the cap they meet.   *)
Bands == [continuation : 0 .. 1, net : 0 .. 1, top : {2, 5, 8}]

ASSUME CapAssumption ==
    \A n \in 0 .. 3 : \A bands \in [1 .. n -> Bands], cap \in 2 .. 8,
       terms \in [frozen : {FALSE}, narrow : BOOLEAN, charging : {TRUE}, costs_more : BOOLEAN,
                  slices : {"erode", "unread"}, pin : {6, 100}] :
        Settles(bands, cap, terms)
===============================================================================
