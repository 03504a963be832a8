# MicoFX in TLA+

MicoFX is a Python program that trades a portfolio of symbols on a MetaTrader 5
account: it evaluates every closed bar, sends market orders with a stop, moves
the stops, closes what must not stay open, searches its own parameters while it
trades, and keeps a record of everything in SQLite. These modules model the
parts of it in which several threads, a broker that answers late, a clock that
may stand still and a process that may end at any time meet, and the pure parts
(session rules, the simulator, the parameter sweep, the arithmetic of sizes and
spreads) on which the others depend.

1. [The system](#1-the-system)
2. [The modules](#2-the-modules)
3. [The runs](#3-the-runs)
4. [Fairness](#4-fairness)
5. [The proofs](#5-the-proofs)
6. [Where code and text disagree](#6-where-code-and-text-disagree)
7. [What is not modelled](#7-what-is-not-modelled)
8. [The plan](#8-the-plan)

## 1. The system

### Threads and locks

| actor | code | shares |
|---|---|---|
| poll thread | `Engine._run` → `_cycle` | everything below |
| fill verifier, one per ambiguous send | `Engine._run_fill_verify` | its result list under `_fill_verify_lock` |
| web threads | `web/app.py` (FastAPI) | the store, `Engine.entry_lock`, `DailyGuard` without a lock |
| optimizer thread and its pool | `Optimizer._run` | the store, `entry_lock` for the write of an apply |
| supervisor, autopilot | called by the poll thread | verdicts under the supervisor's lock, the store |
| broker | the MT5 server, seen through `MT5Client` under `MT5Client._lock` | orders, positions, deals, quotes |
| terminal | `terminal64.exe`, known by its day log | the pipe `initialize` waits on |
| operator | stops the process, edits in the panel, trades by hand, moves cash | |

`Engine.entry_lock` is held from the last book read before a send to the end of
its booking, and by every request that changes a magic, deletes a symbol or
writes parameters. Nothing else is locked across a broker call. What survives a
restart is what `Store.set_setting` and `save_symbol` wrote.

### Components

| component | state | hard part | correct when | module |
|---|---|---|---|---|
| Entry pipeline (`engine.py`, `mt5client.py`) | signal state, `filled_bars`, cooldown, probe, backoff, the send being verified, orphan scan and tickets | an answer that is late, wrong or missing; edits and restarts while an order is on its way | one signal makes one position, the cap holds, a fill is booked under its own bar | EntryPipeline |
| Position exits | `weekend_pending`, `force_flat_pending`, `scale_out_done`, `_close_retry_after` | partial fills, refused closes, windows that end first, restarts | what must be flat gets flat; a scale-out happens once | PositionExits |
| Close records (`execution.py`) | watched tickets, retries, ring | the deal history lags the book | every close is reported once | PositionExits |
| Daily guard (`risk.py`) | anchor, cash flow, halts | stale cash, restarts, account switches, failing closes | a trading loss trips it and closes everything; nothing else does | DailyGuard |
| Stops (`engine.py`, `exits.py`) | the stop at the broker, fill notes | rounding, several rules on one level, lost answers | the risk never widens, no lock without a gain | StopRatchet |
| Parameters (`optimizer.py`, `engine.py`, `web/app.py`) | the row, two queues, the force flag | "is it flat" read from a snapshot; many writers | what lands is what the last writer was told, on a flat magic | ParameterPatches |
| Optimizer jobs | plan, pool, results, job mark | broken pools, cancel in a close-out, edits meanwhile | each symbol reported once, nothing written after a cancel, an end | OptimizerJobs |
| Search verdicts | incumbent and stamp | markets move between searches | no churn | SearchVerdict |
| Spread cost | histogram in memory and on disk | a name that is deleted and comes back | a symbol is priced by its own spread | SpreadCost |
| Supervisor | verdicts, streaks, quarantine | stale deals, several ways out of a suspension | own record only, small until proved, no dead end | SymbolVerdicts |
| Symbol book, autopilot (`store.py`, `web/app.py`, `autopilot.py`) | rows, magics, operator marks | reads and writes apart; magics in use elsewhere | one magic, one owner; off stays off | SymbolBook |
| Sizing and risk gates (`risk.py`, `kasa_sizing.py`) | the dials | the book moves between size and send | an oversized minimum lot only with room | Sizing |
| Terminal link (`mt5client.py`) | link, path, latch, symbol map | a pipe that hangs, a second terminal | own terminal, one hang per boot | BrokerLink |
| Broker clock (`mt5client.py`) | newest stamp, its anchor | it stands still, it jumps on attach | no old decision, no lockout | BrokerClock |
| Sessions (`sessions.py`, `backtest.py`) | none | two implementations of one set of windows | they agree, no flatten and re-entry | SessionClock |
| Simulator, sweep (`backtest.py`) | trade, pool of cells | order within a bar; few cells tried | no trade outlives its stop; no lone spike | Replay, GridSweep |

Each cycle of the poll thread runs in this order, and the modules follow it:
link, account, day rollover, cash flow, positions, close records, pending
patches, orphan scan, open positions, daily check and flatten, supervisor and
autopilot, evaluation of every symbol, the verifier's answers, entries, flushes.

The list of hazards, each at its line and with the properties that catch it, is
in `PROJECT.json`.

## 2. The modules

A module has one action per phase or handler; a comment above it names what it
stands for, and `PROJECT.json` ("map") gives the lines. A definition whose
comment begins with "Mutated form of" is not part of the model: it is a plausible
bug, kept to show that a property notices it. Constants that switch on what the
code does not survive (`HardCrash`, `Gaps`, `MidRead` ...) are off in the runs
that hold; section 6 says what each of them breaks.

### EntryPipeline, SignalLedger

The way of one symbol from a closed bar to a booked fill. `pc` is the phase of
the poll thread. A step of the broker, of the verifier, of the panel or the end
of the process may come between any two phases; the panel is kept out exactly
while `EntryLocked` holds.

| model | code |
|---|---|
| `orders[t]` (bar, magic, state, answer acted on) | the broker's side of ticket `t`; only `Visible` tickets can be read |
| `positions` | `Engine._positions`, stale until the next read |
| `magic`, `filledBars`, `cooldown`, `orphanScan`, `orphanTickets`, `ledger` | settings that survive |
| `base`, `lastBar`, `primary`, `pending`, `probe`, `linkBackoff`, `verify`, `before`, `reply` | memory of the process |
| `CycleStarts`, `Scan*`, `ManagePositions`, `Evaluate*`, `Drain*`, `Entry*`, `Probe*`, `Lock*`, `Send*`, `Reply*` | the cycle, branch by branch |
| `Verifier*` | the verify thread |
| `ChangeMagic`, `DeleteSymbol` | the two panel requests |

A signal is an arbitrary choice per bar, the many gates before the send are one
choice (`EntryRefused`), a price, a lot and a text are nothing. `can_open` keeps
its cap. `SignalLedger` is what the pipeline promises of its bookings: fills are
noted one at a time, each for a younger bar than all before it. `LedgerKept`
states that EntryPipeline implements it.

### PositionExits

`manage_positions` over the tickets of one symbol, the close with its partial
fills, refusals, unclear answers and persisted backoff, the one-shot scale-out
in two steps (the broker's fill and the mark), and the record of closes from the
watch list to the ring. The broker closes positions on its own, and the deal of
a close becomes visible when it likes, but before the retries of `reap` are used
up. Lots are whole numbers and the trail is one action that changes nothing here.

### DailyGuard

The class and the part of the cycle around it, against two accounts, a calendar,
an operator who moves cash and a market that makes results. `cash` and
`midnight` are what the broker knows of external cash; `cash_flow` is what the
engine believes; `anchorCash` is history. The guard works on the snapshot of the
account, so a move within a cycle is one after it.

### StopRatchet, StopLadder

The stop of one position over whole-number prices, as its distance from the
entry in the direction of the trade, so that a buy and a sell are one case
except for the side the chart is drawn on (`Spread`). `Consults` and what it
uses are `_update_stop` with the overlays (break-even, locks, harvest, ATR and
swing trail), `Placeable` and the refusals are `modify_sl`, `PollNext` also
repairs a position without a stop. The fill notes (`originals`, `best` as
tracked by ExecutionMonitor) are lost by a restart that comes too early. The
level implements `StopLadder`: attached once, it only climbs.

### ParameterPatches, AcceptedParameters

One row and everybody who writes it: apply from the search, the autopilot and
the panel (`Begin`, `Measured`, `Write`, `Return`), the panel's own edit
(`DecideEdit`, `WriteEdit`), the poll thread that reads the book, lands what
waited and sends (`ReadBook`, `LandPending`, `SendEntry`). A row has a family,
exits and gates. `AcceptedParameters` knows neither queues nor threads: what is
live, what is owed, what the last accepted writer was told; `AsTold` is the
refinement.

### OptimizerJobs, SearchBudget, SearchPick, SearchVerdict

OptimizerJobs is the search as a job: plans per symbol, one pool of sweeps,
close-outs, the serial rest after a broken pool, cancel, and the operator who
closes, deletes and restarts meanwhile. SearchBudget (size, order, workers of a
run) and SearchPick (candidate, retention, window shortlist) are functions,
checked against reference definitions over bounded inputs by assumptions of
MCOptimizerJobs. SearchVerdict is a long series of searches under markets and
cost settings that change: which candidate replaces the incumbent, against which
benchmark a family flip is measured, which window is kept.

### SessionClock, Replay, GridSweep

SessionClock has each rule twice, as `sessions.py` and as the masks of
`backtest.py` write it, on a broker's week of shortened hours, and carries one
position through it. Replay is `simulate` for one slot, one bar per step, any
prices. GridSweep is `walk_forward` from the draw of cells to the pick; a
backtest is a score per cell.

### SpreadCost

The counts of live spreads per symbol, in memory and on disk, over the lives of
a name; the flush and the delete in their steps; the medians the search and the
gate read; `calibrate` as a function (`Settles` is its reference).

### SymbolVerdicts

A verdict per symbol. `review` is two steps, because the deals are read outside
the lock it judges them under. Times are kept as the comparisons the code makes:
a trade knows whether it belongs to the config (`own`) and to the time after the
last release (`since`).

### SymbolBook

Rows, magics, positions, scans and recent deals. A request of the panel is the
sequence of its reads and writes; a step under `entry_lock` is one action. The
autopilot queues a symbol nobody has searched and switches on a stamped one.

### Sizing

`lot_for` and the book-wide gates of `can_open`, in the integers of the code's
units: dollars, cents, volume steps. An entry is sized, the world moves, and the
gates look again.

### BrokerLink, BrokerClock

BrokerLink has the terminals with their day logs and pipes on one side and
`connect`, `ensure`, `reconnect` and `resolve` on the other; a hang is counted
where `initialize` waits on a pipe nobody answers. BrokerClock has quotes that
age, a market that shuts and opens, an attach that may change the zone, and the
tests `decision_now` makes of its yardstick. Thirty, forty-five and six hundred
seconds are 2, 3 and 4 units: only their order matters to the code.

### How they fit

All modules share the poll thread and meet in positions and rows. They are
separate because each depends on the others only through actions it leaves to
its environment: `PositionCloses` of EntryPipeline stands for every close,
PositionExits starts with open positions, `Flatten` of DailyGuard is a run of
closes, an apply of OptimizerJobs writes or refuses, the search of SymbolVerdicts
lands a config or does not, and SessionClock, Sizing and BrokerClock are one
refusal each in EntryPipeline. Composed by refinement are EntryPipeline with
SignalLedger, StopRatchet with StopLadder, ParameterPatches with
AcceptedParameters. MCPortfolio, MCParameterPatches and MCStopRatchet put
machines that share no state side by side in one run: a behaviour chooses one of
them at the start, so their states add up. MCResearch and MCSizing hold values.

## 3. The runs

| run | checks | instance | result |
|---|---|---|---|
| entry_cap1 | one position per bar, the cap, bookings that match the broker | 2 bars, 3 sends, 1 restart, all replies, lag within the code's waits | holds |
| entry_live | answers are applied, unresolved fills are closed | 1 bar, 2 sends, 1 restart, 1 magic change or delete, failing reads, lag within the code's waits | holds |
| entry_any_lag | SignalLedger | 2 bars, 2 sends, 1 restart, 1 magic change or delete, failing reads, any lag | holds |
| entry_retry_cap | a bar is retried once | cap 1, unclear answers only | violated |
| exits_sticky | owed closes happen, one scale-out, one row per close, foreign closes reported | 1 ticket of 3 lots, 1 restart, 2 reads of the history | holds |
| guard_day | the breaker trips, stays, flattens, and only for a loss | 2 accounts, 2 days, 1 deposit, 1 restart, losses to zero | holds |
| stops_ladder | the level climbs, a lock was earned; a symbol is priced by its own spread; oversize has room | both sides, 3 bars, 2 overlays, 1 trouble; 2 names of 2 lives, 3 samples; 3 symbols, 2 accounts, 4 panels | holds |
| patches_queue | AcceptedParameters, nothing waits for ever; flips do not churn | 3 writers, 2 calls, 1 edit or restart, 2 orders; 3 configurations, 3 markets, 2 changes | holds |
| optimizer_jobs | one report, cancel stops writes, the job ends | 2 symbols, 2 sweeps each, 2 workers, 1 cancel, 1 edit, 1 trouble | holds |
| portfolio_rows | one magic one owner, managed, clean record, off stays off; own terminal, one hang; fresh clock that answers; masks cover entries, no re-entry; no trade outlives its stop or loses more than 1R; no lone spike | 2 symbols over 2 magics, 2 deals; 2 terminals, 2 boots, 2 attaches; 2 quotes, 2 zones, 11 units; 270 weekly configurations, minute by minute; 4 bars over 4 prices; a 3×3 grid, 1 round | holds |
| supervision | own record only, small until proved, suspensions end | 1 symbol, streak of 2, average of 3, window of 3 | holds |
| clock_shut | a shut market does not read as a running clock | 2 quotes, 11 units | violated |

Why the bounds are enough to show something. Two bars are what it takes for an
answer to arrive on a bar that is not its own; three sends are a first try, its
retry and an order of the next bar; one restart can fall between any two steps.
Three lots split into a slice of one and a remainder of two. A balance of four,
losses of two and a deposit of two let the deposit cover a loss in full, and two
losses bring the balance to the zero that `rollover` refuses. Ticks of three with
an entry off the grid make every rounding go both ways; the quotes lie under
water, at break-even and past the lock. Two calls of apply are one that queues
and one that takes its place; the second order fills after the first has closed.
Two names and two magics with one row shipped are what a number handed out twice
needs. Two terminals are the configured one and a foreign one. Eleven units are
more than an attach, a window, an age limit and the lag together. With more of
each (three calls of apply, three magics, more quotes for the stop) the properties
held as well, in runs too long to keep.

Deadlock is checked, except in four runs whose bounded machine really ends: the
position of stops_ladder is closed, the job of optimizer_jobs is over and nothing
may be started any more, the replay and the search of portfolio_rows reach their
last bar and pick, and the machine time of clock_shut runs out.

## 4. Fairness

* The poll loop runs until the process is stopped, and a stopped process is
  started again: weak fairness of `PollThread`, `PollNext`, `ThreadNext` and
  `Boot` (EntryPipeline also names `CycleStarts`, because a scan could otherwise
  postpone it). The number of restarts is bounded, so a process that is restarted
  for ever is not covered.
* The verifier's look-ups are bounded by a deadline, a backoff, a cooldown and a
  quarantine clock are times, a call of apply and a thread of the search return:
  weak fairness.
* The broker decides what it was sent and shows what it did: weak fairness.
* What the code repeats every cycle until it works (a close, the last look of a
  scan, the cash history, the positions read before the daily check, a review)
  succeeds at some point: strong fairness, because each is disabled between two
  tries. A venue that refuses for ever gives no close, and the properties do not
  say otherwise.
* `SuspensionEnds` supposes that a search that is repeated lands a config at some
  point. A symbol for which no search ever finds one stays suspended; that is
  what the code says too.
* Prices, cash, bars, stops, the panel, the calendar and the operator owe nothing.

## 5. The proofs

`tlapm` checks the eight proof modules for every value of the constants that the
named ASSUMEs allow (sets are finite where they are counted, bounds are natural
numbers, limits are in their range). The bounds on bars, sends, restarts, days,
calls, boots and time are constants of the modules, so a theorem holds for any of
them. A theorem that needs more says so in a hypothesis of its own. The runs that
check the properties satisfy these hypotheses, so they are not empty, and section 6
names the behaviour each one leaves out. FiniteFacts holds the lemmas several proofs
share: the greatest and the least of finitely many numbers, induction over the
subsets of a finite set, that the folds of the library exist on every finite set,
and what follows for its sums (they are numbers, split, are monotone, linear,
additive over disjoint parts).

Every type invariant the modules state is proved without a hypothesis,
with all of its switches on: `Typing`, `TypesHold`, `StopTypes`, `SpreadTypes`,
`SizingTyped`, `PatchTypes`, `SeriesTyped`, `VerdictTypes`, `BookTypes`,
`LinkTyped`, `BrokerTyped`, `ClockTyped`, `ReplayTyped`, `SweepTyped`.

| module | proves about | hypotheses |
|---|---|---|
| EntryPipeline_proofs | EntryPipeline, SignalLedger | none for the ledger; `Prompt` for the cap |
| PositionExits_proofs | PositionExits | none for the debts; `~HardCrash`, `~Chunks`, `~YoungPositions` one each |
| Guards_proofs | DailyGuard, SymbolVerdicts | none for the breaker; `PlainCash`; `~LateForget`, `~BlindReads` |
| Risk_proofs | StopRatchet, StopLadder, SpreadCost, Sizing | `~HandInCycle`, `Wide` for the ladder, and `Steady` for what is earned; none for the recorded peak; `~Overlaps ~DiskFails ~Crashes` for the own spread; `~MidEdits` and `MarginFails => ModestRisks` for the oversized lot, none for the small account |
| Parameters_proofs | ParameterPatches, AcceptedParameters, SearchVerdict | `Fresh ~EditOverPending ~UnclearSends` for the refinement; none for the single pending patch, the flips, the losers and the seats |
| Search_proofs | OptimizerJobs, SearchBudget, SearchPick, Replay, GridSweep | `Weight > 0` for the spike, else none |
| Portfolio_proofs | BrokerClock, BrokerLink, SessionClock, SymbolBook | the lag within the windows; paths not alike; `NoLateOpening` for re-entries; `OneDesk` for the numbers, marks and switches of the book, `~ReadsMayFail` for clean numbers |
| FiniteFacts | folds, sums and maxima of the library | none |

**EntryPipeline_proofs.** `IInv` is `TypeOK /\ BookingInv /\ ScanOfLiveSymbol /\
BookedOnce`. That no bar is booked twice is not inductive: it needs to be known
that a bar that is offered or in flight is younger than the persisted mark
(`OfferInv`, `FlightInv`), that marks never pass the live bar (`MarksInv`), and
that every booking is covered by a mark (`BookedInv`). The restart keeps all of
that because the mark is in the store. `BookedOnceSafe`, `BookingSafe`,
`ScanSafe` and `Typing` follow; `LedgerRefines` shows that every step is a step of
SignalLedger or a stutter, whatever the lag, the replies and the edits.

What the broker holds rests on a second invariant, `OneOrder`, under `Prompt`:
the broker decides within the code's waits (`BoundedLag`) and the book can be
read. Only the last ticket may be undecided (`LastInv`); as long as it is,
something keeps the symbol from sending again, be it the verification, the link
backoff, the orphan scan or the cooldown (`HeldInv`); once the gates let an offer
through, nothing of it comes back (`GateInv`); an answer and a scan are of that
order (`ReplyInv`, `VerifyInv`, `ScanInv`). `SendsSettled`, `OpenWithinCapSafe` (for
every cap) and `LedgerTruthSafe` follow, and with a cap of one and a magic that
stays `OneOpenPerBarSafe`: every order carries that magic (`Unedited`), so the cap
is the bound of the bar.

**PositionExits_proofs.** `IInv` adds to the types that within a cycle no
position has more lots than the book says (`BookCovers`). That is why the prune
at the head of the loop cannot drop a debt of an open ticket: `OwedStaysSafe`,
without any assumption on crashes, partial fills or reads. With
`~HardCrash` a position that was scaled out and is still open is in the one-shot
set or about to enter it (`SliceInv`): `ScaledOutOnceSafe`. With `~Chunks` a row
means the position is closed, and one that the broker closed has left the book
and the watch list by the time it has a row (`RowInv`): `OneRowPerCloseSafe`,
for crashes anywhere. `ForeignCloseReportedSafe`, with crashes and partial closes
of the broker, from `ReportInv`: after the first reap of a process an open position
is watched, one that is closed and no longer watched has its row unless its deal
came too late for the restart scan, and the deal arrives before the tries end.

**Guards_proofs.** `AnchorStaysSafe`, `BreakerStaysSafe` and `SymbolHaltSafe`
rest on the types alone, of which the deep part is that the anchor is never
zero. `HaltNeedsLossSafe` needs `PlainCash`: cash only comes in, between the
cycles, and only to an account anchored on that day. Then (`CashInv`) the flow the
engine believes lies between zero and what really came since the anchor, and the
lemma `LowFlow` says that a flow read too low asks for a larger loss than the one
there is, for every limit up to 100 %.
For SymbolVerdicts, `VerdictInv`: what is saved is what is believed, the clock that
runs belongs to the suspension that stands, and whoever is suspended or on
probation has a record that a review has read (`Saved`, `ReadIsThere`,
`OnProbation`). `OwnRecordOnlySafe` and `SmallUntilProvedSafe` follow.

**Risk_proofs.** `LadderInv` says that the stop is on the grid, that what a cycle
has read is not above the stop at the broker, and that a repair whose answer was
lost lies no higher than the fallback of that cycle (`OnGrid`, `NoLower`,
`NoHigher`). The arithmetic it needs is stated as lemmas: the level on the grid
next to a level is idempotent and never falls when the level climbs, for every
tick and every level, although each rounds the other way at its half.
`RatchetSafe` is the refinement of StopLadder: a step moves the stop up or not at
all. `Wide` says that the broker's minimum distance is not wider than the fallback
of the configured stop. `EarnedOnlySafe` adds that one risk is on record for a
ticket and the right one until it is forgotten (`OneRisk`), that nothing on record
is better than the best price the chart has shown (`BestYet`), and that a level in
profit was asked for by a rule whose threshold that best price has reached
(`ProfitEarned`). `Steady` says that the fallback for a forgotten fill is no
smaller than the risk it was opened with, and that no distance is rounded to
nothing.
`PeakSurvives` needs none of these: what is stored is what is remembered of the fill,
and the best excursion tracked so far is on that record or, before there is one, on
the tracked position that the record starts from (`PeakInv`).
`SpreadIsOwn`: the invariant says that the counts in memory and on disk name no
life but the live one (`CountsAgree`) and that a name out of the book has none left
(`LivesAgree`), so an added name starts from nothing. `SpreadTypes` bounds the
stamp: the counts add up to a number, the median of a histogram is one of its buckets
(`MedianBound`), so a scale is one or at most the ceiling (`ScaleBound`).
`OversizeHasRoomSafe`: a lot from the set that fits is within the ceiling, so one
that is not is the minimum lot, and `lot_for` gave it only under a concurrent dial
that is on (`OversizeIsFloor`). An account that moves changes the size of an
automatic dial, never that it is on (`LiveCapOn`: it is clamped from below), so
`SizedInv` holds until the gates look again. Where the margin of a lot cannot be
read the raw lot is sized without the ceiling; it stays within one and a half times
of it by itself if no throttle is above one and no edge (up to 2.2) lifts a stored
risk over the 2 % the ceiling starts from: `ModestRisks`, `RawNeverOversize`.
`SizingTyped`: no lot that waits, is verified or is held exceeds `volume_max`, with
`MarginFails` and `MidEdits` too. `SmallBookSafe`: where the whole margin budget
carries a minimum lot the 1R ceiling allows, its split over the vacant symbols never
sizes the entry away (`SmallBookTrades`; `risk.py:749-761` says so). A vacant symbol
weighs at least 20 thousandths, because the median the floor is taken from exists
(`KthExists`), so the shares are shares of a positive sum (`AllWeightsType`).

**Parameters_proofs.** `PatchInv` says that the two queues never hold both
(`RowsShape`), that a call in flight that changes the family names every field
(`CallsShape`), and that a cycle that read a flat magic keeps it flat until it has
landed, because only the cycle itself sends and what may still surface is scanned
for (`FlatInv`). With `told = Owed` every step is a step of AcceptedParameters or
none: `PatchesAsTold`. `OnePatchWaits` rests on `RowsShape` and `CallsShape` with the
types (`TypedInv`), so it holds with overtaken writers, edits over a pending patch and
unclear sends too.
`NoReturnSafe`, for every market, age and minimum age: what a chain of flips gave
up in a market earns less there than what it trades now (`ClimbInv`), because an
unforced flip has to beat the incumbent by more than nothing on its own holdout.
`NoLoserDefended`: a search that measured the incumbent at a loss refuses nothing for
the incumbent's sake, because the reason is that of one of the gates (`HeldByReason`)
and these three compare with a measured incumbent in profit only. `SeatIsKept`: a
live window that earns is given up for one that ranks higher, or with its family.
The second takes from `RankAssumption` that a window in profit ranks above zero.

**Search_proofs.** A planned symbol is somewhere: its sweeps are counted down to
its close-out, and from then on it is in the close-out or reported (`Accounted`),
and what a harvest holds is still owed (`BatchOwed`), also over a broken pool and a
close-out that raises: `OneReportSafe`. After a cancel at most the close-out under
way writes: `CancelStopsWritesSafe`.
For the replay, `Carried`: a trade carried into a bar was filled on it or before,
its stop is no further than its stop distance however often it was trailed, and
what it has banked is no worse than its commission. `LossIsOneRSafe` and
`NothingSurvivesSafe` follow, for every set of prices, costs, overlays and
distances, and `FillTradedSafe`: a trade leaves at a price its last bar printed.
For the sweep, `SweepInv`: what is drawn, covered, thinned and refined are cells of
the grid, tested once, within the passes begun. The draw, the thinning and the
covering are folds and recursive functions; that they end in cells of the grid is
an induction over subsets (`OnSubsets`). `BudgetSafe` counts the passes, and
`NoSpikeSafe` needs more: a cell among tested losers is blended with the mean of its
neighbours, a fraction, so a cell that scores as well with neighbours that earn has
the larger one and stands before the spike wherever the weight is positive.
For a run's size, `CoverageKept` (the total does not exceed the flat cap, no family
falls below it or exceeds its grid, a larger grid never gets less) and
`CostAnnounced` (what is announced is what the sweeps may spend, counted one by
one: a bijection from pairs to products). For the pick, `PickSafe`.

**Portfolio_proofs.** For the book: `OneDesk` is one request thread and no `Gaps`. A request that
has read a number holds it until it writes (`SavesFresh`, `NoTickInGap`), the mark of the
operator and the flag agree between requests (`FlagsTold`), and a tick decides from
rows that are still there (`TickOpen`): `UniqueMagicSafe`, `ManagedSafe`,
`OffStaysSafe`. With deals that can be read, a number on its way to a row has no
recent deal of another symbol (`DealsAvoided`): `CleanMagicSafe`. Without `OneDesk`
TLC violates the first three.

For the clock: `ClockInv` relates the yardstick to the quotes: its stamp
is the newest one read in this attach, not ahead of the broker; its two anchors
are one pair of readings; after a poll of a running market the stamp is at most
the lag behind. `DecisionIsFresh` holds for every window and limit.
`ClockDoesAnswer` needs the lag to be at most four windows (or the pace of a
slow feed is not reached) and at most the age limit.
`TradesOnOwnTerminal` from `TerminalInv` (a link that is on is at the path, unless
the panel's move is under way; every name and every read under way is of this
attach), for paths no two of which are alike. `OneHang` from `HangInv`: a hang is
counted only for the key of the boot it happened in, and from then on that key is
latched until the operator asks again. It needs days that do not turn, because the
key of a rolled log is another; with them `LinkTyped` still bounds the waits for a
boot by two. `ClockTyped` gives the types of the week.
`EntriesScoredSafe` needs no hypothesis: a minute that the session, the blocked hours
and both wind-downs admit lies in the mask, because the last window to close has
more left than the wind-down, and the mask cuts a window no earlier. `NoReentrySafe`
from `LeftRunsOut`: while a window that was flattened still runs, whatever runs is
inside its wind-down. A running window loses a minute each minute, over midnight
and over the end of the week (`NextMinute`, `WindowWanes`), so only a window that
opens late could break it; `NoLateOpening` is that condition on the configuration.
`FlatBeforeCloseSafe` needs none: the last minute of the last window lies in every
wind-down (`WindowEnds`), so a position held there is marked.

Only model-checked: every liveness property (`OwedCloses`, `BreakerTrips`,
`LossFlattens`, `PendingLands`, `JobEnds`, `SuspensionEnds`, `VerifyAnswered`,
`UnresolvedFillCloses`: the prover has no fairness). Of the functions, the order
within four thirds of the shortest run (`NearShortest`, over every assignment of
jobs to workers), the window shortlist (`ShortlistKept`) and `calibrate`
(`Settles`): TLC evaluates them against their references over bounded inputs.

## 6. Where code and text disagree

Findings in `PROJECT.json`, each with its run:

* **Retry without a count** (entry_retry_cap). A deferred send that comes back
  unfilled is written to the probe without its number of attempts, so the limit
  of one retry is never reached.
* **Frozen quotes that run** (clock_shut). The comment on the thresholds speaks of
  sixty seconds and a half, the constants are thirty seconds and a fifth, and the
  branch for a slow feed counts the reading of a second frozen stamp as a recent
  advance: after an attach on a Saturday, quotes four seconds apart are answered
  as the time for fifteen seconds, quotes ten minutes apart for ten minutes.

Met while modelling, stated in the modules or shown by a switch, not given a run:

*Entries, exits, guard*
* The late fill of a first order is recognised in the book of the cycle's head
  (`engine.py:3435`); one that executes after it gives the bar a second position
  where the cap is above one (`OneOpenPerBar` with `PositionCap = 2`).
* A delete looks at positions and scans, not at the send that is being verified
  (`web/app.py:1447`; `Managed` of EntryPipeline with `MaxEdits = 1`).
* A ticket under a symbol halt never enters the sticky set of a window
  (`engine.py:4188`; `NoRideAfterWindow`).
* `YoungPositions`: the opening deal counts as "has a deal", so a late closing
  deal is not waited for (`execution.py:533`).
* `LateCash`: a deposit between midnight and the anchor is subtracted although
  the anchor contains it; without a trade the loss halt closes everything
  (`engine.py:5515`).
* A restart while an order is verified forgets it; with `max_positions = 2` the
  bar is sent again. An ambiguous answer ends in "look by hand" after the waits;
  if the order executes later still, the next bar may pass the cap. The cooldown
  is looked at before the drain books a late fill, so a newer signal of that same
  cycle is sent. `ReadsMayFail`: when the book cannot be read at the end of a
  verification, the fill is not seen and the cap may be passed (`OpenWithinCap`,
  `LedgerTruth` with failing reads).
* `HardCrash`: a process that ends between the fill of a slice and the write of
  `scale_out_done` scales out again. `Chunks`: a position closed in part by the
  broker and then in full by the engine has two rows.
* The restart scan of closes marks itself done before it has read the history.
* An account switch while the broker clock is stale replaces the anchor and keeps
  the old account's symbol halts. A withdrawal whose history read fails counts as
  a loss, a deposit between the account read and the cash read of one cycle too
  (`CashMidCycle`). A profit halt masks a later loss limit.

*Stops*
* `HandInCycle`: a stop moved by hand between the book read of a cycle and its
  modify is moved back. `_repair_stopless_stop` (`engine.py:4767`) speaks of the
  original risk; after a restart that lost the fill note it is another one.
  The branch 4773-4779 is reached only with a zero minimum distance.
* Without `Wide`, where the spread sets the minimum distance above the configured
  stop, the fallback follows the spread: a repair whose answer is lost is placed,
  the update of the same cycle measures with a wider spread and sends a level
  below it (`engine.py:4767`, 4810; TLC with minimum distances of 4 and 10 and the
  structure trail).

*Parameters*
* `Fresh = FALSE`: two writers that decided from one row both write.
  `EditOverPending`: a panel edit of a row with a pending patch is overwritten by
  it (`store.py:376-381`). `UnclearSends`: an order whose answer is open is not a
  position, and parameters land under it (`engine.py:4599`).
* `ForceForItsRun`: the waiver of a forced search stays on the optimizer and
  waives the gates of later applies ("for that run", `optimizer.py:1018`, 1021).
* `HoldbackKept`: a second apply that names no exits wipes exits an earlier one
  held back (`optimizer.py:3897-3899`).

*Search*
* `ClosedNotApplied`: the check that a closed symbol is not rewritten uses the
  config of the plan, not the live one (`optimizer.py:2067`, comments 1026, 2072).
* The exception path leaves `last_opt_job` "running". `cancel()` is outside the
  lock of `start()`.
* A drawdown of zero reads as a return of 1e9; a retention of zero or less counts
  as "not measurable" and passes `_generalises` (other gates refuse it). The
  progress of a run never reaches its end when a budget has a remainder or a
  symbol was removed (1684-1695).
* `_cover_short_axes` says "guarantee", but a later axis may evict a cell an
  earlier one needed (`backtest.py:1137`, 1162-1171): 27 of the 84 samples of a
  three by three grid.
* Of two windows of one family and timeframe that score exactly the same the one
  whose sweep came back first wins, and the pool returns sweeps as they end
  (`optimizer.py:2283-2284` "stable across list order").
* The recalibration writes the ceiling in a summary it read at its start (3009);
  "one-way widen only" (`app.py:1849`) against `spread_narrow_on_calm`; a gate
  that was off is turned on by a first recalibration.

*Sessions and simulator*
* `NoReentry` holds of windows that do not overlap by less than the wind-down;
  others are flattened and entered again (`sessions.py:288-297`; the instance
  has pairs that overlap by more).
* A window over midnight is flattened in its evening half live and in its morning
  half in the simulator (`backtest.py:330` "Mirrors"). `weekend_open` is not read
  by the masks; with windows the mask does not exclude the weekend (a test marked
  xfail says so). Empty `trade_days` means no day live and weekdays in the replay.
* A blocked hour or the Friday wind-down hides the close of the session from
  `should_flatten`.

*Portfolio*
* `Gaps`: the enabled flag and the operator's mark are two writes
  (`app.py:1387`, 1400), the lists of marks are read and written unlocked, and
  `sort_symbols_by_group` writes stale copies: what was switched off may come
  back on, a deleted row too. `Threads` of two: two adds hand out one magic.
  `ReadsMayFail`: a number with a record is handed out when the deals cannot be
  read. A wipe puts the shipped numbers back unread; a longer lookback brings old
  deals back under a new owner; a delete does not clear the operator's mark.
* The autopilot queues the first newcomer by name; one whose search leaves no
  stamp is queued for ever, the ones behind it wait (`autopilot.py:1034-1036`).
* `ThrottleTightens` of Sizing: the supervisor's scale is multiplied into the
  margin share, and where the scaled share no longer carries the minimum lot the
  whole budget is given: a budget of 10, four symbols, a margin of 2 per 0.01 lot
  give 0.01 at scale 1.0 and 0.03 at 0.7 (`risk.py:760`; docstring 777, comment
  842). `Verifies`: orders in verification are missing from the book's risk
  (758-760). `MidEdits`: the panel turns the concurrent dial off between size and
  gates (867 "do not unlock here"). `MarginFails`: the fallback ignores the 1R
  ceiling; without `ModestRisks` an edge of 2.2 lifts a lot over it.
* `EarnsItBack` of SymbolVerdicts: `clear()` gives full scale until the next
  review (`supervisor.py:786-798`). `BlindReads`: a review of deals that could
  not be read forgets the probation. `LateForget`: a delete between the deals of a
  review and its verdicts, or a crash before the save, gives a new symbol the old
  record (`app.py:1464-1468`). The docstring of `is_suspended` ("cannot open")
  against `hard_block_only_quarantine`, which enabling any symbol resets for all.

*Link, clock, spread*
* `Midnight`: a log that rolls gives the boot another key, and the latch is lost
  (docstring `mt5client.py:566`). `MidRead`: a name read before a reconnect is
  written after it. `Alike`: a directory name that is part of another path is
  taken for it (431-432). A latch on the key of a dead terminal keeps autostart
  from starting another (745-751).
* The comment of `tick()` ("never reset, not even by reconnect()", 923) against
  the reset in `_after_connect` (696-704).
* `Overlaps`, `DiskFails`, `Crashes`: a delete during a running cycle, a failed
  write or a death between the row and its histogram leaves counts behind
  ("leaves nothing behind", `engine.py:1905-1914`).

## 7. What is not modelled

* Strategies and indicators, the holdout measure, the statistics of a backtest:
  floating point without control flow that the properties could tell apart. They
  appear as choices: a signal, a score, a verdict of a gate.
* The tally of refused entries (`engine.py:1776-2221`), slippage samples, MFE and
  MAE, the fairness verdicts of closes: records nobody decides by.
* The measured clock skew (`engine.py:5620-5735`), the recalibration of old
  winners, the loop of the simulator over several slots, the autopilot's tunes
  of a live row other than through apply.
* Several symbols in EntryPipeline, PositionExits and StopRatchet: they share the
  account-wide gates and the order of the cycle; each symbol has its own state.
* Store writes that fail (apart from SpreadCost), and the order of the single
  settings one operation writes.
* The front end, the log, the launcher, the audit, the scripts and the tests,
  which were read for what the code promises.

## 8. The plan

Done: EntryPipeline with SignalLedger, PositionExits, DailyGuard, StopRatchet
with StopLadder, ParameterPatches with AcceptedParameters, OptimizerJobs with
SearchBudget and SearchPick, SearchVerdict, SessionClock, Replay, GridSweep,
SpreadCost, SymbolVerdicts, SymbolBook, Sizing, BrokerLink, BrokerClock. Every
safety and action property of the runs is proved, and so are the three
refinements and every type invariant the modules state.

Left, in this order:

1. EntryPipeline: what the cap becomes where the book cannot be read
   (`OpenWithinCap` fails there; by how much is not stated yet).
2. SymbolVerdicts under `LateForget`: what a new symbol may inherit at worst.
