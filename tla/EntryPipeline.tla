---------------------------- MODULE EntryPipeline ----------------------------
(***************************************************************************)
(* The order entry of one symbol, from the bar that raises a signal to the *)
(* booked position: Engine._cycle, _evaluate, _try_entry, the background   *)
(* fill verification and the orphan scan (src/micofx/engine.py), the order *)
(* send of MT5Client (src/micofx/mt5client.py) and the two panel requests  *)
(* that take Engine.entry_lock (src/micofx/web/app.py).                    *)
(*                                                                         *)
(* Actors: the poll thread (one action per phase of a cycle, pc is the     *)
(* phase), the fill-verify thread, the web thread, the broker, the clock,  *)
(* and whoever restarts the process.  A step of the broker may fall        *)
(* between any two steps of the others; the web thread is kept out exactly *)
(* while the poll thread holds entry_lock.                                 *)
(***************************************************************************)
EXTENDS Integers, FiniteSets

CONSTANTS
    MaxBar,         \* bound: bars that close
    MaxSends,       \* bound: orders sent
    MaxRestarts,    \* bound: process restarts
    MaxEdits,       \* bound: magic changes; 0 also rules out a delete
    PositionCap,    \* SymbolConfig.max_positions of the symbol
    Replies,        \* the order_send outcomes the broker produces in the run
    BoundedLag,     \* TRUE: the broker settles an order within the code's waits
    ReadsMayFail    \* TRUE: positions_get may fail

ReplyKinds == {"rejected", "filled", "dealFirst", "unresolved", "unclear"}

ASSUME BoundsAssumption ==
    /\ MaxBar \in Nat /\ MaxSends \in Nat
    /\ MaxRestarts \in Nat /\ MaxEdits \in Nat
ASSUME CapAssumption == PositionCap \in Nat \ {0}
ASSUME RepliesAssumption == Replies \subseteq ReplyKinds
ASSUME EnvironmentAssumption ==
    BoundedLag \in BOOLEAN /\ ReadsMayFail \in BOOLEAN

VARIABLES
    \* the market and the broker
    bar,            \* the last closed bar, 0 before the first
    sig,            \* what compute() says of each closed bar
    sent,           \* orders sent so far: a ticket is the number of its order
    orders,         \* per ticket: the bar, the magic, the state at the broker
                    \* and the answer the engine acted on
    \* the store: survives a restart
    magic,          \* SymbolConfig.magic, 0 once the symbol is deleted
    filledBars,     \* settings.filled_bars of the symbol, 0 for none
    cooldown,       \* settings.entry_cooldowns of the symbol is in the future
    orphanScan,     \* settings.secondary_orphan_scan of the symbol
    orphanTickets,  \* settings.secondary_orphan_tickets
    ledger,         \* <<ticket, signal bar>> rows of ExecutionMonitor.note_fill
    \* the process: lost by a restart
    pc,             \* phase of the poll thread
    base,           \* magic of the config in this cycle's ready list, 0 for none
    positions,      \* Engine._positions
    lastBar,        \* SymbolState.last_bar
    primary,        \* SymbolState.primary_signal is not empty
    pending,        \* bar of SymbolState.pending_bar_key
    probe,          \* Engine._unfilled_probe of the symbol
    linkBackoff,    \* Engine._link_backoff of the symbol: off, or in the future
                    \* since this cycle (fresh) or an earlier one (on)
    verify,         \* _verify_inflight, the verifier's item and its result
    before,         \* before_tickets of the order being sent
    reply,          \* what order_send returned
    restarts        \* restarts so far

market == <<bar, sig>>
broker == <<sent, orders>>
store  == <<magic, filledBars, cooldown, orphanScan, orphanTickets, ledger>>
memory == <<base, positions, lastBar, primary, pending, probe, linkBackoff,
            verify, before, reply>>
vars   == <<market, broker, store, pc, memory, restarts>>

-----------------------------------------------------------------------------
Bars    == 1..MaxBar
Tickets == 1..MaxSends
Magics  == 1..(MaxEdits + 1)
Sides   == {"none", "buy", "sell"}

\* An order at the broker: accepted and not yet decided (work), executed and
\* not yet shown by positions_get (lag), shown (open), gone (closed), never
\* executed (dead).
OrderStates == {"none", "work", "lag", "open", "closed", "dead"}
Answers     == {"none", "rejected", "booked", "unfilled", "ambiguous", "scan",
                "safetyClosed", "orphan", "dropped"}
Order       == [bar : 0..MaxBar, magic : 0..(MaxEdits + 1),
                st : OrderStates, ans : Answers]
NoOrder     == [bar |-> 0, magic |-> 0, st |-> "none", ans |-> "none"]

Scan   == [phase : {"none", "active", "abandoned"},
           magic : 0..(MaxEdits + 1), known : SUBSET Tickets]
NoScan == [phase |-> "none", magic |-> 0, known |-> {}]

Verify   == [phase : {"none", "looking", "filled", "unfilled", "ambiguous"},
             bar : 0..MaxBar, magic : 0..(MaxEdits + 1), send : 0..MaxSends,
             known : SUBSET Tickets, ticket : 0..MaxSends]
NoVerify == [phase |-> "none", bar |-> 0, magic |-> 0, send |-> 0,
             known |-> {}, ticket |-> 0]

Probe   == [bar : 0..MaxBar, count : 0..MaxSends, attempts : 0..1]
NoProbe == [bar |-> 0, count |-> 0, attempts |-> 0]

Phases == {"down", "idle", "scan", "manage", "evaluate", "drain", "entry",
           "send", "order", "reply"}

\* entry_lock is held from the config re-check to the end of the ticket
\* resolution.
EntryLocked == pc \in {"order", "reply"}

\* What positions_get shows, and the part of it under one magic.
Visible        == {t \in Tickets : orders[t].st = "open"}
Under(book, m) == {t \in book : orders[t].magic = m}
\* No order is undecided or hidden at the broker.
Settled        == \A t \in Tickets : orders[t].st \notin {"work", "lag"}
\* A wait of the code (link backoff, cooldown, scan window, a process start)
\* may end: with BoundedLag not before the broker settled what it was sent.
WaitOver       == BoundedLag => Settled
\* A read of the book returns, or fails and leaves connected = False.
Reads          == IF ReadsMayFail THEN BOOLEAN ELSE {TRUE}
\* The tickets of T leave the book; their orders become s.
Close(ords, T) == [t \in Tickets |->
                     IF t \in T THEN [ords[t] EXCEPT !.st = "closed"] ELSE ords[t]]
Answer(ords, t, a) == [ords EXCEPT ![t].ans = a]

Init ==
    /\ bar = 0 /\ sig = [b \in Bars |-> "none"]
    /\ sent = 0 /\ orders = [t \in Tickets |-> NoOrder]
    /\ magic = 1 /\ filledBars = 0 /\ cooldown = FALSE
    /\ orphanScan = NoScan /\ orphanTickets = {} /\ ledger = {}
    /\ pc = "idle" /\ base = 0 /\ positions = {}
    /\ lastBar = 0 /\ primary = FALSE /\ pending = 0
    /\ probe = NoProbe /\ linkBackoff = "off" /\ verify = NoVerify
    /\ before = {} /\ reply = "none"
    /\ restarts = 0

-----------------------------------------------------------------------------
(* The market and the broker.                                              *)

\* A bar closes; the strategy reads a side, or none, off it.
BarCloses ==
    /\ bar < MaxBar
    /\ bar' = bar + 1
    /\ \E s \in Sides : sig' = [sig EXCEPT ![bar + 1] = s]
    /\ UNCHANGED <<broker, store, pc, memory, restarts>>

BrokerSets(t, from, to) ==
    /\ orders[t].st = from
    /\ orders' = [orders EXCEPT ![t].st = to]
    /\ UNCHANGED <<market, sent, store, pc, memory, restarts>>

OrderExecutes   == \E t \in Tickets : BrokerSets(t, "work", "open")
OrderDies       == \E t \in Tickets : BrokerSets(t, "work", "dead")
FillSurfaces    == \E t \in Tickets : BrokerSets(t, "lag", "open")
\* A stop is hit, or the operator closes the position by hand.
PositionCloses  == \E t \in Tickets : BrokerSets(t, "open", "closed")

-----------------------------------------------------------------------------
(* The head of a cycle: the book, the orphans.                             *)

\* _cycle re-reads the book and leaves the cycle when it cannot.
CycleStarts ==
    /\ pc = "idle"
    /\ \E ok \in Reads :
         IF ok THEN positions' = Visible /\ pc' = "scan"
               ELSE UNCHANGED <<positions, pc>>
    /\ linkBackoff' = IF linkBackoff = "off" THEN "off" ELSE "on"
    /\ UNCHANGED <<market, broker, store, base, lastBar, primary, pending,
                   probe, verify, before, reply, restarts>>

\* Mutated form of CloseScanned: a sent close counts as a closed ticket.
CloseScannedForgets(tickets) ==
    \E gone \in SUBSET tickets, ok \in Reads :
        /\ orders' = Close(orders, gone)
        /\ orphanScan' = NoScan
        /\ positions' = IF ok THEN Visible \ gone ELSE positions
        /\ pc' = IF ok THEN "manage" ELSE "idle"
        /\ UNCHANGED orphanTickets

\* _close_orphan_tickets: one close per ticket, any of which may fail or fill
\* partly, then a re-read of the book that says which are still there.  The
\* still-open ones become orphan tickets and the scan entry goes.
CloseScanned(tickets) ==
    \E gone \in SUBSET tickets, ok \in Reads :
        LET left == Visible \ gone
            still == IF ok THEN tickets \cap left ELSE tickets
        IN  /\ orders' = Close(orders, gone)
            /\ orphanTickets' = orphanTickets \cup still
            /\ orphanScan' = NoScan
            /\ positions' = IF ok THEN left ELSE positions
            /\ pc' = IF ok THEN "manage" ELSE "idle"

ScanUnchanged ==
    UNCHANGED <<market, sent, magic, filledBars, cooldown, ledger, base, lastBar, primary,
                pending, probe, linkBackoff, verify, before, reply, restarts>>

\* A ticket under the scanned magic that was not known: closed on sight.
ScanFinds ==
    /\ pc = "scan" /\ orphanScan.phase # "none"
    /\ LET new == Under(positions, orphanScan.magic) \ orphanScan.known
       IN  new # {} /\ CloseScanned(new)
    /\ ScanUnchanged

NothingScanned == Under(positions, orphanScan.magic) \subseteq orphanScan.known

\* No scan, or nothing new under it yet.
ScanWaits ==
    /\ pc = "scan"
    /\ orphanScan.phase # "none" => NothingScanned
    /\ pc' = "manage"
    /\ ScanUnchanged /\ UNCHANGED <<orders, orphanScan, orphanTickets, positions>>

\* 900 s without the ticket: abandoned, entries stay blocked.
ScanAbandons ==
    /\ pc = "scan" /\ orphanScan.phase = "active" /\ NothingScanned
    /\ orphanScan' = [orphanScan EXCEPT !.phase = "abandoned"]
    /\ pc' = "manage"
    /\ ScanUnchanged /\ UNCHANGED <<orders, orphanTickets, positions>>

\* The grace of an abandoned entry is over: one last look at the book, which
\* finds the ticket or drops the entry; put off while the book is unreadable.
LastLook ==
    /\ pc = "scan" /\ orphanScan.phase = "abandoned" /\ NothingScanned
    /\ WaitOver

ScanLastLookFinds ==
    /\ LastLook
    /\ LET new == Under(Visible, orphanScan.magic) \ orphanScan.known
       IN  new # {} /\ CloseScanned(new)
    /\ ScanUnchanged

\* Mutated form of ScanGivesUp: the entry is only dropped when a ticket was found.
ScanGivesUpKeepsEntry ==
    /\ LastLook
    /\ Under(Visible, orphanScan.magic) \subseteq orphanScan.known
    /\ pc' = "manage"
    /\ ScanUnchanged /\ UNCHANGED <<orders, orphanScan, orphanTickets, positions>>

ScanGivesUp ==
    /\ LastLook
    /\ Under(Visible, orphanScan.magic) \subseteq orphanScan.known
    /\ orphanScan' = NoScan
    /\ pc' = "manage"
    /\ ScanUnchanged /\ UNCHANGED <<orders, orphanTickets, positions>>

ScanPutsOff ==
    /\ LastLook /\ ReadsMayFail
    /\ pc' = "idle"
    /\ ScanUnchanged /\ UNCHANGED <<orders, orphanScan, orphanTickets, positions>>

\* manage_positions, the part of the entry pipeline: forget the orphan tickets
\* that left the book, try again to close the others.
ManagePositions ==
    /\ pc = "manage"
    /\ orphanTickets' = orphanTickets \cap positions
    /\ \E gone \in SUBSET (orphanTickets \cap positions \cap Visible) :
         orders' = Close(orders, gone)
    /\ pc' = "evaluate"
    /\ UNCHANGED <<market, sent, magic, filledBars, cooldown, orphanScan, ledger,
                   memory, restarts>>

-----------------------------------------------------------------------------
(* _evaluate: the signal of the newest bar the terminal gave.  The bar may *)
(* not have been fetched yet, so b is the old last_bar or the closed bar.  *)

SignalAt(b)  == IF b = lastBar THEN primary ELSE sig[b] # "none"
PendingAt(b) == IF ~SignalAt(b) THEN 0 ELSE IF b = lastBar THEN pending ELSE b

Evaluated(b) ==
    /\ pc = "evaluate" /\ magic # 0
    /\ lastBar' = b
    /\ pc' = "drain"
    /\ UNCHANGED <<market, broker, store, positions, probe, linkBackoff, verify,
                   before, reply, restarts>>

\* Stale clock, session or market closed, bar expired, symbol unresolved or
\* disabled: the signal is dropped.
EvaluateShut ==
    \E b \in {lastBar, bar} :
        /\ Evaluated(b)
        /\ primary' = FALSE /\ pending' = 0 /\ base' = 0

\* Trading off, a halt, the flatten window, a cooldown, a filled bar or no
\* signal: nothing is offered this cycle, the signal stays.
EvaluateHolds ==
    \E b \in {lastBar, bar} :
        /\ Evaluated(b)
        /\ primary' = SignalAt(b) /\ pending' = PendingAt(b) /\ base' = 0

\* Mutated form of EvaluateOffers: the filled-bar record is not consulted.
EvaluateOffersFilledBar ==
    \E b \in {lastBar, bar} :
        /\ SignalAt(b) /\ PendingAt(b) = b
        /\ ~cooldown
        /\ Evaluated(b)
        /\ primary' = TRUE /\ pending' = b /\ base' = magic

\* The signal of this bar, not filled yet, joins the ready list.
EvaluateOffers ==
    \E b \in {lastBar, bar} :
        /\ SignalAt(b) /\ PendingAt(b) = b
        /\ ~cooldown /\ filledBars # b
        /\ Evaluated(b)
        /\ primary' = TRUE /\ pending' = b /\ base' = magic

\* A deleted symbol is no longer in the loop.
EvaluateSkips ==
    /\ pc = "evaluate" /\ magic = 0
    /\ base' = 0 /\ pc' = "drain"
    /\ UNCHANGED <<market, broker, store, positions, lastBar, primary, pending, probe,
                   linkBackoff, verify, before, reply, restarts>>

-----------------------------------------------------------------------------
(* _drain_fill_verify: apply what the verifier found, then the ready list. *)

\* Mutated form of MarkFilled: the live bar is marked instead of the sent one.
MarkLiveBar(b) == filledBars' = lastBar /\ cooldown' = (b = b)

\* The bar whose signal was sent is marked and the cooldown starts.
MarkFilled(b) == filledBars' = b /\ cooldown' = TRUE

Drained(a) ==
    /\ orders' = Answer(orders, verify.send, a)
    /\ verify' = NoVerify
    /\ pc' = "entry"
    /\ UNCHANGED <<market, sent, magic, orphanScan, orphanTickets, base, lastBar,
                   before, reply, restarts>>

\* Mutated form of DrainNothing: results are only drained when a symbol is ready.
DrainNothingUnlessReady ==
    /\ pc = "drain" /\ (verify.phase \in {"none", "looking"} \/ base = 0)
    /\ pc' = "entry"
    /\ UNCHANGED <<market, broker, store, memory, restarts>>

DrainNothing ==
    /\ pc = "drain" /\ verify.phase \in {"none", "looking"}
    /\ pc' = "entry"
    /\ UNCHANGED <<market, broker, store, memory, restarts>>

\* states has no entry for a deleted symbol: the result is dropped.
DrainDropped ==
    /\ pc = "drain" /\ verify.phase \notin {"none", "looking"} /\ magic = 0
    /\ Drained("dropped")
    /\ UNCHANGED <<filledBars, cooldown, ledger, positions, primary, pending, probe,
                   linkBackoff>>

\* Mutated form of DrainBooked: the fill is noted under the live bar.
DrainBooksLiveBar ==
    /\ pc = "drain" /\ verify.phase = "filled" /\ magic # 0
    /\ MarkFilled(verify.bar)
    /\ ledger' = ledger \cup {<<verify.ticket, lastBar>>}
    /\ primary' = (primary /\ lastBar # verify.bar)
    /\ \E ok \in Reads : positions' = IF ok THEN Visible ELSE positions
    /\ Drained("booked")
    /\ UNCHANGED <<pending, probe, linkBackoff>>

\* _book_deferred_fill: the sent bar is marked, not the live one, and only the
\* sent bar's signal is consumed.
DrainBooked ==
    /\ pc = "drain" /\ verify.phase = "filled" /\ magic # 0
    /\ MarkFilled(verify.bar)
    /\ ledger' = ledger \cup {<<verify.ticket, verify.bar>>}
    /\ primary' = (primary /\ lastBar # verify.bar)
    /\ \E ok \in Reads : positions' = IF ok THEN Visible ELSE positions
    /\ Drained("booked")
    /\ UNCHANGED <<pending, probe, linkBackoff>>

\* Mutated form of DrainUnfilled: the symbol is not parked.
DrainUnfilledNoBackoff ==
    /\ pc = "drain" /\ verify.phase = "unfilled" /\ magic # 0
    /\ probe' = [bar |-> verify.bar, count |-> Cardinality(verify.known), attempts |-> 0]
    /\ Drained("unfilled")
    /\ UNCHANGED <<filledBars, cooldown, ledger, positions, primary, pending, linkBackoff>>

\* Nothing landed while the book was watched: park the symbol, remember the
\* bar and how many positions were open when the order went out.
DrainUnfilled ==
    /\ pc = "drain" /\ verify.phase = "unfilled" /\ magic # 0
    /\ linkBackoff' = "fresh"
    /\ probe' = [bar |-> verify.bar, count |-> Cardinality(verify.known), attempts |-> 0]
    /\ Drained("unfilled")
    /\ UNCHANGED <<filledBars, cooldown, ledger, positions, primary, pending>>

\* The book could not be read or shows several new tickets: the signal is
\* dropped; parked only on a connection-class retcode.
DrainAmbiguous ==
    /\ pc = "drain" /\ verify.phase = "ambiguous" /\ magic # 0
    /\ linkBackoff' \in {"fresh", linkBackoff}
    /\ primary' = FALSE /\ pending' = 0
    /\ Drained("ambiguous")
    /\ UNCHANGED <<filledBars, cooldown, ledger, positions, probe>>

-----------------------------------------------------------------------------
(* _try_entry.                                                             *)

\* RiskManager.can_open as far as the book decides it: room under the cap and
\* no position the other way.  Scale-in spacing, margin and stops may refuse
\* as well: every action below that needs CanOpen may also not be taken.
CanOpen(book) ==
    LET mine == Under(book, magic)
    IN  /\ Cardinality(mine) < PositionCap
        /\ \A t \in mine : sig[orders[t].bar] = sig[lastBar]

EntryDone ==
    /\ pc' = "idle" /\ base' = 0
    /\ UNCHANGED <<market, broker, magic, cooldown, orphanScan, orphanTickets, ledger,
                   positions, lastBar, primary, pending, linkBackoff, verify, before,
                   reply, restarts>>

\* No offer, a signal the drain consumed, a fill still being verified, the
\* link backoff, an open orphan scan, or one of the market, cost and risk
\* gates: no order this cycle.
EntryRefused ==
    /\ pc = "entry"
    /\ EntryDone /\ UNCHANGED <<filledBars, probe>>

\* Mutated form of EntryGatesPass: no check of _verify_inflight.
EntryGatesPassInFlight ==
    /\ pc = "entry" /\ base # 0 /\ primary
    /\ linkBackoff = "off" /\ orphanScan.phase = "none"
    /\ CanOpen(positions)

EntryGatesPass ==
    /\ pc = "entry" /\ base # 0 /\ primary
    /\ verify.phase = "none" /\ linkBackoff = "off" /\ orphanScan.phase = "none"
    /\ CanOpen(positions)

OpenCount == Cardinality(Under(positions, base))

\* The bar was already sent once and more positions are open than then: the
\* first order filled late, the bar counts as filled.
ProbeFindsLateFill ==
    /\ EntryGatesPass /\ probe.bar = lastBar /\ OpenCount > probe.count
    /\ filledBars' = lastBar
    /\ probe' = NoProbe
    /\ EntryDone

\* The one retry of this bar is spent.
ProbeExhausted ==
    /\ EntryGatesPass /\ probe.bar = lastBar /\ OpenCount <= probe.count
    /\ probe.attempts >= 1
    /\ EntryDone /\ UNCHANGED <<filledBars, probe>>

\* Mutated form of EntryProceeds: the tries are counted, their limit is not
\* looked at.
EntryProceedsAgain ==
    /\ EntryGatesPass
    /\ \/ /\ probe.bar = lastBar /\ OpenCount <= probe.count
          /\ probe' = [probe EXCEPT !.attempts = @ + 1]
       \/ probe.bar # lastBar /\ probe' = NoProbe
    /\ pc' = "send"
    /\ UNCHANGED <<market, broker, store, base, positions, lastBar, primary, pending,
                   linkBackoff, verify, before, reply, restarts>>

EntryProceeds ==
    /\ EntryGatesPass
    /\ \/ /\ probe.bar = lastBar /\ OpenCount <= probe.count /\ probe.attempts = 0
          /\ probe' = [probe EXCEPT !.attempts = 1]
       \/ /\ probe.bar # lastBar
          /\ probe' = NoProbe
    /\ pc' = "send"
    /\ UNCHANGED <<market, broker, store, base, positions, lastBar, primary, pending,
                   linkBackoff, verify, before, reply, restarts>>

\* Under entry_lock: the config must still be the one decided on, and the
\* book is read and judged again.
LockRefuses ==
    /\ pc = "send"
    /\ positions' \in {positions, Visible}
    /\ pc' = "idle" /\ base' = 0
    /\ UNCHANGED <<market, broker, store, lastBar, primary, pending, probe,
                   linkBackoff, verify, before, reply, restarts>>

\* Mutated form of LockRechecks: the cycle's book is trusted under the lock.
LockRechecksOldBook ==
    /\ pc = "send" /\ magic = base
    /\ CanOpen(positions)
    /\ before' = Under(positions, base)
    /\ pc' = "order"
    /\ UNCHANGED <<market, broker, store, base, positions, lastBar, primary, pending,
                   probe, linkBackoff, verify, reply, restarts>>

LockRechecks ==
    /\ pc = "send" /\ magic = base
    /\ positions' = Visible
    /\ CanOpen(Visible)
    /\ before' = Under(Visible, base)
    /\ pc' = "order"
    /\ UNCHANGED <<market, broker, store, base, lastBar, primary, pending, probe,
                   linkBackoff, verify, reply, restarts>>

-----------------------------------------------------------------------------
(* open_market, still under entry_lock: one order_send, then what its reply *)
(* and the book say became of it.                                           *)

ReplyDone ==
    /\ pc' = "idle" /\ base' = 0 /\ before' = {} /\ reply' = "none"
    /\ UNCHANGED <<market, sent, magic, lastBar, restarts>>

SendOrder(st, ans) ==
    /\ pc = "order" /\ sent < MaxSends
    /\ sent' = sent + 1
    /\ orders' = [orders EXCEPT ![sent + 1] =
                    [bar |-> lastBar, magic |-> base, st |-> st, ans |-> ans]]

\* No tick, no volume or an unreadable book before the send: nothing is sent.
SendImpossible ==
    /\ pc = "order"
    /\ pc' = "idle" /\ base' = 0 /\ before' = {}
    /\ UNCHANGED <<market, broker, store, positions, lastBar, primary, pending, probe,
                   linkBackoff, verify, reply, restarts>>

\* A plain reject; a non-retryable one also drops the signal.
SendRejected ==
    /\ "rejected" \in Replies
    /\ SendOrder("dead", "rejected")
    /\ \/ UNCHANGED <<primary, pending>>
       \/ primary' = FALSE /\ pending' = 0
    /\ pc' = "idle" /\ base' = 0 /\ before' = {}
    /\ UNCHANGED <<market, store, positions, lastBar, probe, linkBackoff, verify, reply,
                   restarts>>

\* The order is executed (its ticket known or not, shown in the book or not
\* yet), or order_send gave no answer.
SendReplied ==
    /\ \E kind \in Replies \ {"rejected"} :
         \/ kind = "filled" /\ SendOrder("open", "none") /\ reply' = "resolved"
         \/ kind = "dealFirst" /\ SendOrder("lag", "none") /\ reply' = "resolved"
         \/ /\ kind = "unresolved" /\ reply' = "unresolved"
            /\ SendOrder("open", "none") \/ SendOrder("lag", "none")
         \/ kind = "unclear" /\ SendOrder("work", "none") /\ reply' = "unclear"
    /\ pc' = "reply"
    /\ UNCHANGED <<market, store, base, positions, lastBar, primary, pending, probe,
                   linkBackoff, verify, before, restarts>>

\* Tickets under the magic that were not there before the send.
NewTickets == Under(Visible, base) \ before

\* The success path: the bar is marked, the signal consumed, the fill noted.
Books(t) ==
    /\ MarkFilled(lastBar)
    /\ ledger' = ledger \cup {<<t, lastBar>>}
    /\ probe' = NoProbe
    /\ primary' = FALSE
    /\ orders' = Answer(orders, sent, "booked")
    /\ ReplyDone
    /\ UNCHANGED <<orphanScan, orphanTickets, pending, linkBackoff, verify>>

ReplyResolved ==
    /\ pc = "reply" /\ reply = "resolved"
    /\ \E ok \in Reads : positions' = IF ok THEN Visible ELSE positions
    /\ Books(sent)

\* The reply carried no ticket, or there was no reply, and the book shows one
\* new ticket (or one whose open price is the fill price): adopted.
ReplyAdopts ==
    /\ pc = "reply" /\ reply \in {"unresolved", "unclear"}
    /\ positions' = Visible
    /\ \E t \in NewTickets :
         /\ NewTickets = {t} \/ (reply = "unresolved" /\ t = sent)
         /\ Books(t)

\* Executed, no ticket, and no candidate or no readable book: the symbol is
\* scanned from now on.  The signal stays as it is.
ReplyOpensScan ==
    /\ pc = "reply" /\ reply = "unresolved"
    /\ \E ok \in Reads :
         /\ ok => NewTickets = {}
         /\ positions' = IF ok THEN Visible ELSE positions
         /\ orphanScan' = [phase |-> "active", magic |-> base,
                           known |-> IF ok THEN Under(Visible, base) ELSE before]
    /\ orders' = Answer(orders, sent, "scan")
    /\ ReplyDone
    /\ UNCHANGED <<filledBars, cooldown, orphanTickets, ledger, primary, pending, probe,
                   linkBackoff, verify>>

\* Several candidates: all are closed.  Gone for good, the signal is dropped;
\* otherwise the rest are orphan tickets and the signal stays.
ReplySafetyCloses ==
    /\ pc = "reply" /\ reply = "unresolved" /\ Cardinality(NewTickets) > 1
    /\ \E gone \in SUBSET NewTickets, ok \in Reads :
         LET left == Visible \ gone
             flat == ok /\ gone = NewTickets
         IN  /\ orders' = Answer(Close(orders, gone), sent,
                                 IF flat THEN "safetyClosed" ELSE "orphan")
             /\ positions' = IF ok THEN left ELSE positions
             /\ orphanTickets' = IF ok THEN orphanTickets \cup (NewTickets \cap left)
                                       ELSE orphanTickets \cup NewTickets
             /\ primary' = (primary /\ ~flat)
             /\ pending' = IF flat THEN 0 ELSE pending
    /\ ReplyDone
    /\ UNCHANGED <<filledBars, cooldown, orphanScan, ledger, probe, linkBackoff, verify>>

\* No answer and nothing new yet: the verifier thread takes over.
ReplyDefers ==
    /\ pc = "reply" /\ reply = "unclear" /\ NewTickets = {}
    /\ verify' = [phase |-> "looking", bar |-> lastBar, magic |-> base,
                  send |-> sent, known |-> before, ticket |-> 0]
    /\ ReplyDone
    /\ UNCHANGED <<orders, filledBars, cooldown, orphanScan, orphanTickets, ledger,
                   positions, primary, pending, probe, linkBackoff>>

\* No answer and the book unreadable or with several new tickets: the signal
\* is dropped, the symbol is parked only on a connection-class retcode.
ReplyAmbiguous ==
    /\ pc = "reply" /\ reply = "unclear"
    /\ ReadsMayFail \/ Cardinality(NewTickets) > 1
    /\ linkBackoff' \in {"fresh", linkBackoff}
    /\ primary' = FALSE /\ pending' = 0
    /\ orders' = Answer(orders, sent, "ambiguous")
    /\ ReplyDone
    /\ UNCHANGED <<filledBars, cooldown, orphanScan, orphanTickets, ledger, positions,
                   probe, verify>>

-----------------------------------------------------------------------------
(* The fill-verify thread: it watches the book for about two seconds.      *)

VerifierSees(tickets) == tickets = Under(Visible, verify.magic) \ verify.known

VerifierReports(result, ticket) ==
    /\ verify.phase = "looking"
    /\ verify' = [verify EXCEPT !.phase = result, !.ticket = ticket]
    /\ UNCHANGED <<market, broker, store, pc, base, positions, lastBar, primary, pending,
                   probe, linkBackoff, before, reply, restarts>>

VerifierAdopts  == \E t \in Tickets : VerifierSees({t}) /\ VerifierReports("filled", t)
VerifierGivesUp == VerifierSees({}) /\ VerifierReports("unfilled", 0)
VerifierIsLost  ==
    /\ \/ ReadsMayFail
       \/ Cardinality(Under(Visible, verify.magic) \ verify.known) > 1
    /\ VerifierReports("ambiguous", 0)

-----------------------------------------------------------------------------
(* The clock.                                                              *)

\* 30 s are longer than the rest of the cycle that set them.
BackoffEnds ==
    /\ linkBackoff = "on" /\ WaitOver
    /\ linkBackoff' = "off"
    /\ UNCHANGED <<market, broker, store, pc, base, positions, lastBar, primary, pending,
                   probe, verify, before, reply, restarts>>

CooldownEnds ==
    /\ cooldown /\ WaitOver
    /\ cooldown' = FALSE
    /\ UNCHANGED <<market, broker, magic, filledBars, orphanScan, orphanTickets, ledger,
                   pc, memory, restarts>>

-----------------------------------------------------------------------------
(* The panel: both requests take entry_lock, read the book and refuse      *)
(* while a position or a scan of the symbol's magic is open.               *)

\* Mutated form of PanelMayEdit: an open orphan scan does not refuse.
PanelMayEditDuringScan ==
    pc # "down" /\ ~EntryLocked /\ magic # 0 /\ Under(Visible, magic) = {}

PanelMayEdit ==
    /\ pc # "down" /\ ~EntryLocked
    /\ magic # 0
    /\ Under(Visible, magic) = {}
    /\ orphanScan.phase # "none" => orphanScan.magic # magic

ChangeMagic ==
    /\ PanelMayEdit /\ magic <= MaxEdits
    /\ magic' = magic + 1
    /\ UNCHANGED <<market, broker, filledBars, cooldown, orphanScan, orphanTickets,
                   ledger, pc, memory, restarts>>

\* The row, its state and its filled bar go.
DeleteSymbol ==
    /\ PanelMayEdit /\ MaxEdits > 0
    /\ magic' = 0 /\ filledBars' = 0
    /\ lastBar' = 0 /\ primary' = FALSE /\ pending' = 0
    /\ UNCHANGED <<market, broker, cooldown, orphanScan, orphanTickets, ledger, pc, base,
                   positions, probe, linkBackoff, verify, before, reply, restarts>>

-----------------------------------------------------------------------------
(* The process ends anywhere and starts again from the store.              *)

Crash ==
    /\ pc # "down" /\ restarts < MaxRestarts
    /\ restarts' = restarts + 1
    /\ pc' = "down" /\ base' = 0 /\ positions' = {}
    /\ lastBar' = 0 /\ primary' = FALSE /\ pending' = 0
    /\ probe' = NoProbe /\ linkBackoff' = "off" /\ verify' = NoVerify
    /\ before' = {} /\ reply' = "none"
    /\ UNCHANGED <<market, broker, store>>

Boot ==
    /\ pc = "down" /\ WaitOver
    /\ pc' = "idle"
    /\ UNCHANGED <<market, broker, store, memory, restarts>>

-----------------------------------------------------------------------------
Broker == OrderExecutes \/ OrderDies \/ FillSurfaces \/ PositionCloses

PollThread ==
    \/ CycleStarts \/ ScanFinds \/ ScanWaits \/ ScanAbandons \/ ScanLastLookFinds
    \/ ScanGivesUp \/ ScanPutsOff \/ ManagePositions
    \/ EvaluateShut \/ EvaluateHolds \/ EvaluateOffers \/ EvaluateSkips
    \/ DrainNothing \/ DrainDropped \/ DrainBooked \/ DrainUnfilled \/ DrainAmbiguous
    \/ EntryRefused \/ ProbeFindsLateFill \/ ProbeExhausted \/ EntryProceeds
    \/ LockRefuses \/ LockRechecks
    \/ SendImpossible \/ SendRejected \/ SendReplied
    \/ ReplyResolved \/ ReplyAdopts \/ ReplyOpensScan \/ ReplySafetyCloses
    \/ ReplyDefers \/ ReplyAmbiguous

VerifyThread == VerifierAdopts \/ VerifierGivesUp \/ VerifierIsLost
Panel        == ChangeMagic \/ DeleteSymbol
Clock        == BackoffEnds \/ CooldownEnds

Next == BarCloses \/ Broker \/ PollThread \/ VerifyThread \/ Panel \/ Clock
        \/ Crash \/ Boot

Spec == Init /\ [][Next]_vars

(* The poll loop never stops by itself, the verifier thread and the waits  *)
(* of the code end, the broker decides what it was sent, and a close and a *)
(* last look that are tried again and again succeed at some point.  Bars,  *)
(* restarts, the panel and the stops owe nothing.                          *)
CloseSucceeds ==
    ManagePositions /\ \A t \in orphanTickets \cap positions : orders'[t].st # "open"

Fairness ==
    /\ WF_vars(PollThread) /\ WF_vars(VerifyThread)
    /\ WF_vars(BackoffEnds) /\ WF_vars(CooldownEnds)
    /\ WF_vars(OrderExecutes \/ OrderDies) /\ WF_vars(FillSurfaces)
    /\ WF_vars(CycleStarts) /\ WF_vars(Boot)
    /\ SF_vars(CloseSucceeds)
    /\ SF_vars(ScanAbandons) /\ SF_vars(ScanGivesUp) /\ SF_vars(ScanLastLookFinds)

FairSpec == Spec /\ Fairness

-----------------------------------------------------------------------------
(* Properties.                                                             *)

MarketType ==
    bar \in 0..MaxBar /\ sig \in [Bars -> Sides]

BrokerType ==
    sent \in 0..MaxSends /\ orders \in [Tickets -> Order]

StoreType ==
    /\ magic \in 0..(MaxEdits + 1) /\ filledBars \in 0..MaxBar
    /\ cooldown \in BOOLEAN /\ orphanScan \in Scan
    /\ orphanTickets \subseteq Tickets /\ ledger \subseteq Tickets \X Bars

SignalType ==
    /\ pc \in Phases /\ base \in 0..(MaxEdits + 1) /\ positions \subseteq Tickets
    /\ lastBar \in 0..MaxBar /\ primary \in BOOLEAN /\ pending \in 0..MaxBar
    /\ restarts \in 0..MaxRestarts

SendType ==
    /\ probe \in Probe /\ linkBackoff \in {"off", "fresh", "on"} /\ verify \in Verify
    /\ before \subseteq Tickets
    /\ reply \in {"none", "resolved", "unresolved", "unclear"}

TypeOK == MarketType /\ BrokerType /\ StoreType /\ SignalType /\ SendType

\* One signal never holds two positions: the bar-level promise of the probe,
\* the filled-bar record, the backoff and the cap together.
OneOpenPerBar ==
    \A t, u \in Visible : orders[t].bar = orders[u].bar => t = u

\* The broker never shows more positions of the symbol than max_positions,
\* whatever was in flight when can_open said yes.
OpenWithinCap ==
    \A m \in Magics : Cardinality(Under(Visible, m)) <= PositionCap

\* A bar marked as filled was really traded: no signal is written off because
\* of a fill that belongs to another bar.
Executed == {t \in Tickets : orders[t].st \in {"lag", "open", "closed"}}

MarkedBarTraded ==
    filledBars # 0 => \E t \in Executed : orders[t].bar = filledBars

\* A fill is noted under the bar whose signal sent it, also when the verifier
\* answers after the next bar has closed.
LedgerTruth ==
    \A p \in ledger : p[1] \in Executed /\ orders[p[1]].bar = p[2]

\* No bar is booked twice, over restarts and late answers.
BookedOnce ==
    \A p, q \in ledger : p[2] = q[2] => p = q

\* The bookings keep the promise of SignalLedger: each is for a younger bar
\* than all before it.
Abstract     == INSTANCE SignalLedger
    WITH Tickets <- Tickets, Bars <- Bars, ledger <- ledger
LedgerKept   == Abstract!Spec

\* Why no bar is booked twice.  Marks never pass the live bar;
MarksInv ==
    /\ filledBars <= bar /\ lastBar <= bar
    /\ lastBar # 0 => filledBars <= lastBar
    /\ primary => lastBar # 0

\* an order in flight holds the poll thread off the send, and its bar is
\* younger than every mark and not younger than the live bar;
FlightInv ==
    verify.phase # "none" =>
        /\ pc \notin {"send", "order", "reply"}
        /\ filledBars < verify.bar /\ verify.bar <= bar
        /\ lastBar # 0 => verify.bar <= lastBar
        /\ verify.phase = "filled" => verify.ticket # 0

\* the poll thread only offers, and under entry_lock only sends, the live
\* signal of a symbol that still has its magic, younger than the marks;
Offering == pc \in {"drain", "entry", "send", "order", "reply"} /\ base # 0 /\ primary

OfferInv ==
    /\ Offering => filledBars < lastBar
    /\ pc \in {"send", "order", "reply"} => base # 0
    /\ magic # 0 => base <= magic
    /\ pc = "send" /\ magic = base => primary
    /\ EntryLocked => magic = base /\ primary
    /\ pc = "reply" => sent # 0

\* and a booked bar is marked, by itself or by a younger one.
BookedInv == magic # 0 => \A p \in ledger : p[2] <= filledBars

BookingInv ==
    MarksInv /\ FlightInv /\ OfferInv /\ BookedInv

\* While a ticket is searched, its symbol keeps the magic it is searched
\* under: the panel can neither re-magic nor delete it.
ScanOfLiveSymbol ==
    orphanScan.phase # "none" => magic # 0 /\ orphanScan.magic = magic

\* Every open position belongs to the config in the book, which manages it.
Managed ==
    \A t \in Visible : orders[t].magic = magic

\* No order leaves while an earlier one is undecided or hidden at the broker.
SendsNow == sent' # sent
NoSendWhileUnsettled == [][SendsNow => Settled]_vars

\* A bar whose order came back unfilled is tried again once, not more.
RetryCapped ==
    \A b \in Bars :
        Cardinality({t \in Tickets : orders[t].bar = b /\ orders[t].ans = "unfilled"}) <= 2

\* Whatever the verifier found is applied, also when nothing is ever offered.
VerifyAnswered == verify.phase # "none" ~> verify.phase = "none"

\* A scan ends: it does not block the symbol for ever.
ScanEnds == orphanScan.phase # "none" ~> orphanScan.phase = "none"

\* A fill whose ticket the reply did not resolve does not stay open unmanaged.
UnresolvedFillCloses ==
    \A t \in Tickets : orders[t].ans = "scan" ~> orders[t].st = "closed"
=============================================================================
