---------------------------- MODULE PositionExits ----------------------------
(***************************************************************************)
(* What the engine does with the open positions of one symbol: the flatten *)
(* of a window that must stay flat, the retry of a failed close, the       *)
(* one-shot scale-out (Engine.manage_positions, _close_tracked,            *)
(* _maybe_scale_out, MT5Client.close_position) and the record of every     *)
(* close (ExecutionMonitor.track, reap and forget, the restart scan of     *)
(* Engine._reconcile_untracked_closes, the autopsy ring).                  *)
(*                                                                         *)
(* Actors: the poll thread, the broker that closes positions on its own    *)
(* (stop, target, hand) and shows a deal in the history some time after    *)
(* the position left the book, the clock, whoever restarts the process.    *)
(***************************************************************************)
EXTENDS Integers, FiniteSets

CONSTANTS
    Tickets,        \* positions of the symbol, open when the process starts
    Lots,           \* lots of each
    MaxRestarts,    \* bound: process restarts
    MaxMisses,      \* execution.MAX_REAP_TRIES
    YoungPositions, \* TRUE: the opening deal is within the two-hour window
    HardCrash,      \* TRUE: the process may end in the middle of a cycle
    Chunks          \* TRUE: the broker may close a part of a position

ASSUME PositionsAssumption == IsFiniteSet(Tickets) /\ Lots \in Nat \ {0}
ASSUME LimitsAssumption    == MaxRestarts \in Nat /\ MaxMisses \in Nat \ {0, 1}
ASSUME SwitchAssumption    == {YoungPositions, HardCrash, Chunks} \subseteq BOOLEAN

VARIABLES
    \* the broker
    lots,       \* lots of each ticket that are still open
    deals,      \* who made the closing deals the history shows of a ticket
    late,       \* who made the ones it does not show yet
    \* the clock
    window,     \* the reasons to be flat that hold now
    \* the store: survives a restart
    owed,       \* per reason: settings.weekend_pending_tickets and
                \* settings.force_flat_pending_tickets
    halted,     \* settings.symbol_daily_halted of the symbol
    scaled,     \* settings.scale_out_done
    retry,      \* settings.close_retry_after, the tickets still in backoff
    saved,      \* settings.trade_autopsies: rows per ticket
    \* the process: lost by a restart
    pc,         \* phase of the poll thread
    book,       \* Engine._positions: lots per ticket
    todo,       \* tickets the loop of manage_positions has not reached
    slice,      \* the scale-out sent and not yet marked: its ticket
    open,       \* keys of ExecutionMonitor._open
    misses,     \* reap_tries of each
    swept,      \* Engine._untracked_closes_done
    rows,       \* Engine._trade_autopsies: rows per ticket
    restarts,
    \* history
    slices,     \* scale-out deals of each ticket
    unsure,     \* tickets of which a close was executed and not confirmed
    due,        \* tickets the loop has met inside a window
    overlooked  \* tickets whose deal came too late for the restart scan

broker == <<lots, deals, late>>
store  == <<owed, halted, scaled, retry, saved>>
memory == <<book, todo, slice, open, misses, swept, rows>>
ghosts == <<slices, unsure, due, overlooked>>
vars   == <<broker, window, store, pc, memory, restarts, ghosts>>

-----------------------------------------------------------------------------
Reasons == {"weekend", "flatten"}
Makers  == {"engine", "elsewhere"}
Phases  == {"down", "idle", "reap", "prune", "manage", "mark", "flush"}

Live(b) == {t \in Tickets : b[t] > 0}
Zero    == [t \in Tickets |-> 0]

\* scale_out_slice: about a third, at least one lot, leaving at least one.
Slice(v) == IF v \div 3 > 0 THEN v \div 3 ELSE 1
CanSplit(v) == v > 1

Init ==
    /\ lots = [t \in Tickets |-> Lots]
    /\ deals = [t \in Tickets |-> {}] /\ late = [t \in Tickets |-> {}]
    /\ window = {}
    /\ owed = [r \in Reasons |-> {}] /\ halted = FALSE
    /\ scaled = {} /\ retry = {} /\ saved = Zero
    /\ pc = "idle" /\ book = Zero /\ todo = {} /\ slice = {}
    /\ open = {} /\ misses = Zero /\ swept = FALSE /\ rows = Zero
    /\ restarts = 0
    /\ slices = Zero /\ unsure = {} /\ due = {} /\ overlooked = {}

-----------------------------------------------------------------------------
(* The broker and the clock.                                               *)

\* n lots of t are closed; the deal is in the history now or later.
Trades(t, n, maker) ==
    /\ lots' = [lots EXCEPT ![t] = @ - n]
    /\ \/ deals' = [deals EXCEPT ![t] = @ \cup {maker}] /\ UNCHANGED late
       \/ late' = [late EXCEPT ![t] = @ \cup {maker}] /\ UNCHANGED deals

\* A stop, a target, a margin call or a hand on another terminal.
ClosedElsewhere(t) ==
    /\ lots[t] > 0
    /\ \E n \in 1..lots[t] : (Chunks \/ n = lots[t]) /\ Trades(t, n, "elsewhere")
    /\ UNCHANGED <<window, store, pc, memory, restarts, ghosts>>

DealAppears(t) ==
    /\ late[t] # {}
    /\ deals' = [deals EXCEPT ![t] = @ \cup late[t]]
    /\ late' = [late EXCEPT ![t] = {}]
    /\ UNCHANGED <<lots, window, store, pc, memory, restarts, ghosts>>

\* weekend_closed, should_flatten and day_end_close come and go.
WindowTurns ==
    /\ window' \in SUBSET Reasons
    /\ UNCHANGED <<broker, store, pc, memory, restarts, ghosts>>

\* _handle_daily_rollover: a new broker day lifts the symbol halt.
DayTurns ==
    /\ pc = "idle" /\ halted
    /\ halted' = FALSE
    /\ UNCHANGED <<broker, window, owed, scaled, retry, saved, pc, memory, restarts,
                   ghosts>>

\* CLOSE_RETRY_BACKOFF_SEC are over.
RetryEnds(t) ==
    /\ t \in retry
    /\ retry' = retry \ {t}
    /\ UNCHANGED <<broker, window, owed, halted, scaled, saved, pc, memory, restarts,
                   ghosts>>

-----------------------------------------------------------------------------
(* The head of the cycle: read the book, account for what left it.         *)

\* Mutated form of CycleStarts: a failed read leaves an empty book and goes on.
CycleStartsEmpty ==
    /\ pc = "idle"
    /\ \E ok \in BOOLEAN : book' = IF ok THEN lots ELSE Zero
    /\ pc' = "reap"
    /\ UNCHANGED <<broker, window, store, todo, slice, open, misses, swept, rows,
                   restarts, ghosts>>

\* _reload_positions; without a book the cycle ends here.
CycleStarts ==
    /\ pc = "idle"
    /\ book' = lots /\ pc' = "reap"
    /\ UNCHANGED <<broker, window, store, todo, slice, open, misses, swept, rows,
                   restarts, ghosts>>

\* A closing deal that no order of the engine made.
Foreign(t)   == "elsewhere" \in deals[t]
\* Any deal of the position in the window: deals_since lists openings too.
InHistory(t) == deals[t] # {} \/ YoungPositions

\* Mutated form of Untracked: rows the ring already has are not looked up.
UntrackedAll == IF swept THEN {} ELSE {t \in Tickets \ Live(book) : Foreign(t)}

\* _reconcile_untracked_closes, once per process: closes nobody has a row of.
Untracked == IF swept THEN {}
             ELSE {t \in Tickets \ Live(book) : Foreign(t) /\ rows[t] = 0}

\* Mutated form of Waiting: a close without a deal is given up at once.
WaitingNot(t) == ~InHistory(t) /\ misses[t] + 1 < 1

\* reap: a close of which the history shows nothing at all yet.
Waiting(t) == ~InHistory(t) /\ misses[t] + 1 < MaxMisses

\* _reap_execution: track the book, report the foreign closes among the
\* tickets that are gone, keep the ones that wait for their deal, forget the
\* rest.  The history lags less than MaxMisses cycles.
Reap ==
    LET gone     == open \ Live(book)
        reported == Untracked \cup {t \in gone : Foreign(t)}
        waits    == {t \in gone : ~Foreign(t) /\ Waiting(t)}
    IN  /\ pc = "reap"
        /\ \A t \in gone : misses[t] + 1 = MaxMisses => late[t] = {}
        /\ swept' = TRUE
        /\ rows' = [t \in Tickets |-> IF t \in reported THEN rows[t] + 1 ELSE rows[t]]
        /\ open' = Live(book) \cup waits
        /\ misses' = [t \in Tickets |-> IF t \in waits THEN misses[t] + 1 ELSE 0]
        /\ pc' = "prune"
        /\ overlooked' = IF swept THEN overlooked
                         ELSE overlooked \cup {t \in Tickets : book[t] = 0 /\ late[t] # {}}
        /\ UNCHANGED <<broker, window, store, book, todo, slice, restarts, slices,
                       unsure, due>>

-----------------------------------------------------------------------------
(* manage_positions.                                                       *)

\* Whatever is no longer in the book owes nothing more.
Prune ==
    /\ pc = "prune"
    /\ owed' = [r \in Reasons |-> owed[r] \cap Live(book)]
    /\ scaled' = scaled \cap Live(book)
    /\ todo' = Live(book) /\ pc' = "manage"
    /\ UNCHANGED <<broker, window, halted, retry, saved, book, slice, open, misses,
                   swept, rows, restarts, ghosts>>

\* Nothing is sent (backoff, no tick, the ticket just left the book, no read)
\* or the broker refuses; a closed market and an unclear answer start a backoff.
CloseFails(t) ==
    /\ UNCHANGED <<lots, deals, late, unsure>>
    /\ retry' = retry \/ retry' = retry \cup {t}

\* Mutated form of CloseDone: the volume is not clamped to the live one.
CloseDoneUnclamped(t, n) ==
    /\ t \notin retry /\ Trades(t, n, "engine")
    /\ UNCHANGED <<retry, unsure>>

\* The close is executed, for all or a part of the n lots asked for.
CloseDone(t, n) ==
    /\ t \notin retry /\ n <= lots[t] /\ Trades(t, n, "engine")
    /\ UNCHANGED <<retry, unsure>>

\* The close is executed and the answer does not say so.
CloseUnclear(t, n) ==
    /\ t \notin retry /\ n <= lots[t] /\ Trades(t, n, "engine")
    /\ retry' = retry \cup {t} /\ unsure' = unsure \cup {t}

\* _close_tracked of the whole ticket: a full close writes its row.
CloseTicket(t) ==
    \/ CloseFails(t) /\ UNCHANGED rows
    \/ \E n \in 1..Lots :
         /\ CloseDone(t, n)
         /\ rows' = IF n >= book[t] THEN [rows EXCEPT ![t] = @ + 1] ELSE rows
    \/ \E n \in 1..Lots : CloseUnclear(t, n) /\ UNCHANGED rows

Reached(t) ==
    /\ pc = "manage" /\ t \in todo
    /\ todo' = todo \ {t}
    /\ due' = IF window # {} THEN due \cup {t} ELSE due

\* Sticky: a window once seen is owed until the ticket leaves the book.
Owe(r, t) ==
    owed' = IF r \in window THEN [owed EXCEPT ![r] = @ \cup {t}] ELSE owed

ManageUnchanged ==
    UNCHANGED <<window, scaled, saved, pc, book, slice, open, misses, swept, restarts,
                slices, overlooked>>

CloseForWeekend(t) ==
    /\ Reached(t)
    /\ Owe("weekend", t) /\ t \in owed'["weekend"]
    /\ CloseTicket(t)
    /\ UNCHANGED halted /\ ManageUnchanged

NotForWeekend(t) == t \notin owed["weekend"] /\ "weekend" \notin window

\* The symbol lost its daily share, today or just now.
CloseForLoss(t) ==
    /\ Reached(t) /\ NotForWeekend(t)
    /\ halted' = TRUE
    /\ CloseTicket(t)
    /\ UNCHANGED owed /\ ManageUnchanged

\* should_flatten or day_end_close, now or earlier.
CloseForFlatten(t) ==
    /\ Reached(t) /\ NotForWeekend(t) /\ ~halted
    /\ Owe("flatten", t) /\ t \in owed'["flatten"]
    /\ CloseTicket(t)
    /\ UNCHANGED halted /\ ManageUnchanged

Rides(t) ==
    /\ Reached(t) /\ NotForWeekend(t) /\ ~halted
    /\ t \notin owed["flatten"] /\ "flatten" \notin window

\* The position keeps its stop (or has it trailed).
Trail(t) ==
    /\ Rides(t)
    /\ UNCHANGED <<broker, owed, halted, retry, rows, unsure>> /\ ManageUnchanged

\* _maybe_scale_out, up to the broker's answer.
ScaleOut(t) ==
    /\ Rides(t)
    /\ t \notin scaled /\ CanSplit(book[t])
    /\ \/ /\ CloseFails(t) /\ UNCHANGED <<slices, slice, pc>>
       \/ \E n \in 1..Slice(book[t]) :
            /\ CloseDone(t, n)
            /\ slices' = [slices EXCEPT ![t] = @ + 1]
            /\ slice' = {t} /\ pc' = "mark"
       \/ \E n \in 1..Slice(book[t]) :
            /\ CloseUnclear(t, n)
            /\ slices' = [slices EXCEPT ![t] = @ + 1]
            /\ UNCHANGED <<slice, pc>>
    /\ UNCHANGED <<window, owed, halted, scaled, saved, book, open, misses, swept, rows,
                   restarts, overlooked>>

\* Mutated form of MarkSlice: the ticket is not remembered.
MarkSliceNot ==
    /\ pc = "mark"
    /\ slice' = {} /\ pc' = "manage"
    /\ UNCHANGED <<broker, window, store, book, todo, open, misses, swept, rows,
                   restarts, ghosts>>

\* Its last two lines: one-shot, whatever part was filled.
MarkSlice ==
    /\ pc = "mark"
    /\ scaled' = scaled \cup slice
    /\ slice' = {} /\ pc' = "manage"
    /\ UNCHANGED <<broker, window, owed, halted, retry, saved, book, todo, open, misses,
                   swept, rows, restarts, ghosts>>

ManageEnds ==
    /\ pc = "manage" /\ todo = {}
    /\ pc' = "flush"
    /\ UNCHANGED <<broker, window, store, memory, restarts, ghosts>>

\* _flush_trade_autopsies ends the cycle.
Flush ==
    /\ pc = "flush"
    /\ saved' = rows /\ pc' = "idle"
    /\ UNCHANGED <<broker, window, owed, halted, scaled, retry, memory, restarts, ghosts>>

-----------------------------------------------------------------------------
(* The process ends and starts again from the store.                       *)

Crash ==
    /\ restarts < MaxRestarts /\ pc # "down"
    /\ HardCrash \/ pc = "idle"
    /\ restarts' = restarts + 1
    /\ pc' = "down" /\ book' = Zero /\ todo' = {} /\ slice' = {}
    /\ open' = {} /\ misses' = Zero /\ swept' = FALSE /\ rows' = saved
    /\ UNCHANGED <<broker, window, store, ghosts>>

\* Mutated form of Boot: the flatten sets are not restored.
BootForgets ==
    /\ pc = "down" /\ \A t \in Tickets : late[t] = {}
    /\ pc' = "idle" /\ owed' = [r \in Reasons |-> {}]
    /\ UNCHANGED <<broker, window, halted, scaled, retry, saved, memory, restarts, ghosts>>

\* A process start outlasts the lag of the history.
Boot ==
    /\ pc = "down" /\ \A t \in Tickets : late[t] = {}
    /\ pc' = "idle"
    /\ UNCHANGED <<broker, window, store, memory, restarts, ghosts>>

-----------------------------------------------------------------------------
Broker == \E t \in Tickets : ClosedElsewhere(t) \/ DealAppears(t)
Clock  == WindowTurns \/ DayTurns \/ \E t \in Tickets : RetryEnds(t)

Manage(t) ==
    CloseForWeekend(t) \/ CloseForLoss(t) \/ CloseForFlatten(t) \/ Trail(t) \/ ScaleOut(t)

PollThread ==
    \/ CycleStarts \/ Reap \/ Prune
    \/ \E t \in Tickets : Manage(t)
    \/ MarkSlice \/ ManageEnds \/ Flush

Next == Broker \/ Clock \/ PollThread \/ Crash \/ Boot

Spec == Init /\ [][Next]_vars

(* The loop goes on, backoffs end, deals appear, and a close that is sent  *)
(* again and again is executed in full at some point (the venue reopens).  *)
FullClose(t) ==
    /\ CloseForWeekend(t) \/ CloseForFlatten(t) \/ (halted /\ CloseForLoss(t))
    /\ lots'[t] = 0

Fairness ==
    /\ WF_vars(PollThread) /\ WF_vars(Boot)
    /\ \A t \in Tickets : /\ WF_vars(RetryEnds(t)) /\ WF_vars(DealAppears(t))
                          /\ SF_vars(FullClose(t))

FairSpec == Spec /\ Fairness

-----------------------------------------------------------------------------
(* Properties.                                                             *)

TypeOK ==
    /\ lots \in [Tickets -> 0..Lots]
    /\ deals \in [Tickets -> SUBSET Makers] /\ late \in [Tickets -> SUBSET Makers]
    /\ window \subseteq Reasons /\ owed \in [Reasons -> SUBSET Tickets]
    /\ halted \in BOOLEAN /\ scaled \subseteq Tickets /\ retry \subseteq Tickets
    /\ saved \in [Tickets -> Nat] /\ rows \in [Tickets -> Nat]
    /\ pc \in Phases /\ book \in [Tickets -> 0..Lots]
    /\ todo \subseteq Tickets /\ slice \subseteq Tickets
    /\ open \subseteq Tickets /\ misses \in [Tickets -> 0..MaxMisses]
    /\ swept \in BOOLEAN /\ restarts \in 0..MaxRestarts

\* A ticket that owes a flatten owes it until it has left the book: through
\* partial closes, the end of the window, failed reads and restarts.
OwedStays ==
    [][\A r \in Reasons, t \in Tickets :
         t \in owed[r] /\ lots'[t] > 0 => t \in owed'[r]]_vars

\* And what is owed is closed in the end.
OwedCloses ==
    \A r \in Reasons, t \in Tickets : t \in owed[r] ~> lots[t] = 0

\* A position is scaled out once, whatever part of the slice was filled and
\* over restarts, unless the broker executed a slice it did not confirm.
ScaledOutOnce ==
    \A t \in Tickets \ unsure : slices[t] <= 1

\* No close has two rows in the ring: not one the engine sent and wrote down,
\* not one that was reported before a restart.
OneRowPerClose ==
    \A t \in Tickets : rows[t] <= 1

\* A position that only the broker closed is in the ring once the engine has
\* stopped watching it, also when its deal came late or the process was down.
ForeignCloseReported ==
    \A t \in Tickets \ overlooked :
        /\ lots[t] = 0 /\ deals[t] \cup late[t] = {"elsewhere"}
        /\ pc = "flush" /\ book[t] = 0 /\ t \notin open
        => rows[t] > 0

\* A position met inside a window is never again left to ride its stop.
NoRideAfterWindow ==
    [][\A t \in Tickets : Trail(t) => t \notin due]_vars
=============================================================================
