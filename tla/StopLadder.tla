------------------------------ MODULE StopLadder ------------------------------
(***************************************************************************)
(* What the stop management promises of the level that stands at the       *)
(* broker, without saying how it is computed: a stop is attached once, and *)
(* from then on it only climbs, one rung or more at a time, until the      *)
(* position ends.  The only other thing that happens to it is that the     *)
(* operator takes it away or puts it somewhere else by hand.               *)
(***************************************************************************)
EXTENDS Integers

CONSTANT None               \* the position has no stop

VARIABLES level, open, hands    \* hands: edits by hand so far

ladder == <<level, open, hands>>

Init == level \in Int \cup {None} /\ open = TRUE /\ hands = 0

Attach == open /\ level = None /\ level' \in Int /\ UNCHANGED <<open, hands>>
Climb  == /\ open /\ level \in Int /\ level' \in Int /\ level' > level
          /\ UNCHANGED <<open, hands>>
Hand   == open /\ level' \in Int \cup {None} /\ hands' = hands + 1 /\ UNCHANGED open
End    == open /\ open' = FALSE /\ UNCHANGED <<level, hands>>

Next == Attach \/ Climb \/ Hand \/ End

Spec == Init /\ [][Next]_ladder
===============================================================================
