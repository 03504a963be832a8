---------------------------- MODULE SignalLedger -----------------------------
(***************************************************************************)
(* What the entry pipeline promises of its bookings, without saying how:   *)
(* fills are noted one at a time, and each is noted under the bar of a     *)
(* signal younger than every signal noted before it.  A signal is therefore*)
(* taken at most once, and never again after a later one was taken.        *)
(***************************************************************************)
EXTENDS Integers

CONSTANTS Tickets, Bars     \* names of fills; the bars, ordered by number

VARIABLE ledger             \* <<ticket, bar>> of every fill noted

Init == ledger = {}

Note(t, b) ==
    /\ \A p \in ledger : p[2] < b
    /\ ledger' = ledger \cup {<<t, b>>}

Next == \E t \in Tickets, b \in Bars : Note(t, b)

Spec == Init /\ [][Next]_ledger

\* A signal is taken at most once.
TakenOnce == \A p, q \in ledger : p[2] = q[2] => p = q
=============================================================================
