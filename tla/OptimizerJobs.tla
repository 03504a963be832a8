--------------------------- MODULE OptimizerJobs ---------------------------
(* The search as a job: Optimizer.start, cancel and the thread behind them    *)
(* (optimizer.py _run, _run_all, _search_parallel, _finish_symbol).           *)
(*                                                                            *)
(* Every symbol of the run is planned (bars fetched, one sweep for each       *)
(* window, timeframe and family), the sweeps go to one pool, and a symbol is  *)
(* closed out when its last sweep is in.  The pool may break, a close-out may *)
(* raise, and the operator cancels, closes and deletes symbols meanwhile.     *)
(* What a sweep computes and what apply writes are left to other modules: a   *)
(* close-out finds a candidate or it does not, an apply writes or refuses.    *)
EXTENDS Integers, FiniteSets

CONSTANTS
    Symbols,
    Windows,        \* session windows a shortlist may hold
    Frames,         \* timeframes of the run
    Families,       \* strategy families of the run
    Permitted,      \* strategy_allows_timeframe: family, timeframe pairs
    None,
    Requests,       \* what start is asked for: symbols, apply_best, source
    Workers,        \* _worker_count
    MaxBatch,       \* bound on the sweeps one wait returns
    MaxStarts,      \* bound on calls of start
    MaxCancels,     \* bound on calls of cancel
    MaxEdits,       \* bound on what the operator does to the symbols, and restarts
    MaxTroubles     \* bound on broken pools and exceptions

ASSUME NullAssumption == None \notin Symbols
ASSUME RequestAssumption ==
    Requests \subseteq [names : (SUBSET Symbols) \ {{}}, apply : BOOLEAN,
                        source : {"manual", "onboarding"}]
ASSUME PermittedAssumption == Permitted \subseteq Families \X Frames
ASSUME BoundAssumption ==
    /\ Workers \in Nat \ {0} /\ MaxBatch \in Nat \ {0}
    /\ MaxStarts \in Nat /\ MaxCancels \in Nat
    /\ MaxEdits \in Nat /\ MaxTroubles \in Nat
ASSUME FiniteAssumption ==
    IsFiniteSet(Windows) /\ IsFiniteSet(Frames) /\ IsFiniteSet(Families)

VARIABLES
    book,       \* store.symbols
    on,         \* those that are enabled
    stamped,    \* those with opt_updated_at
    thread,     \* the thread of _run, None when it is not alive
    job,        \* self.job["state"]
    last,       \* the stored last_opt_job's state
    cancel,     \* the _cancel event
    canceller,  \* where the panel is in cancel()
    targets, todo,  \* symbols of the run, and those not yet planned
    plans,      \* the plan of each symbol
    batch,      \* finished sweeps the harvest has taken but not noted
    closing,    \* the symbol in _finish_symbol
    reports,    \* how often each symbol is in job["results"]
    late,       \* history: symbols written since the cancel
    starts, cancels, edits, troubles

control == <<job, last, cancel, canceller>>
run == <<targets, todo, plans, batch, closing, reports, late>>
store == <<book, on, stamped>>
bounds == <<starts, cancels, edits, troubles>>
vars == <<store, thread, control, run, bounds>>

Sweeps == Windows \X Frames \X Families

Thread == [at : {"ensure", "plan", "sweep", "finish", "ended"},
           mode : {"pool", "serial"}, apply : BOOLEAN,
           source : {"manual", "onboarding"}, cancelled : BOOLEAN]
Plan == [on : BOOLEAN, stamped : BOOLEAN, jobs : SUBSET Sweeps,
         measured : SUBSET Sweeps, outstanding : Int]
Closing == [symbol : Symbols, at : {"decide", "apply", "record"},
            apply : BOOLEAN, again : BOOLEAN]
ASSUME AbsentAssumption == None \notin Thread \cup Plan \cup Closing

States == {"idle", "running", "cancelled", "done"}

TypeOK ==
    /\ book \subseteq Symbols /\ on \subseteq book /\ stamped \subseteq book
    /\ thread \in Thread \cup {None}
    /\ job \in States /\ last \in States /\ cancel \in BOOLEAN
    /\ canceller \in {None, "set", "store", "mark"}
    /\ targets \subseteq Symbols /\ todo \subseteq targets
    /\ plans \in [Symbols -> Plan \cup {None}]
    /\ \A s \in Symbols : plans[s] # None =>
          /\ plans[s].measured \subseteq plans[s].jobs
          /\ plans[s].outstanding <= Cardinality(plans[s].jobs)
    /\ batch \subseteq Symbols \X Sweeps
    /\ closing \in Closing \cup {None}
    /\ reports \in [Symbols -> Nat] /\ late \in Nat
    /\ starts \in 0..MaxStarts /\ cancels \in 0..MaxCancels
    /\ edits \in 0..MaxEdits /\ troubles \in 0..MaxTroubles

NoRun ==
    /\ targets = {} /\ todo = {} /\ plans = [s \in Symbols |-> None]
    /\ batch = {} /\ closing = None
    /\ reports = [s \in Symbols |-> 0] /\ late = 0

Init ==
    /\ book = Symbols /\ on = Symbols /\ stamped \in SUBSET Symbols
    /\ thread = None /\ job = "idle" /\ last = "idle"
    /\ cancel = FALSE /\ canceller = None
    /\ NoRun
    /\ starts = 0 /\ cancels = 0 /\ edits = 0 /\ troubles = 0

Busy == thread # None

-----------------------------------------------------------------------------
(* start and cancel, called by the panel or, for start, by the autopilot.     *)

(* The whole of start holds the job lock: one search at a time, the symbols   *)
(* still in the book, a fresh cancel event, the stored job marked running.    *)
(* Without charge_costs apply_best is off.                                    *)
Start(r) ==
    /\ ~Busy /\ starts < MaxStarts
    /\ r.names \cap book # {}
    /\ cancel' = FALSE /\ job' = "running" /\ last' = "running"
    /\ thread' = [at |-> "ensure", apply |-> r.apply, source |-> r.source,
                  mode |-> IF Workers > 1 THEN "pool" ELSE "serial",
                  cancelled |-> FALSE]
    /\ targets' = r.names \cap book /\ todo' = targets'
    /\ plans' = [s \in Symbols |-> None]
    /\ batch' = {} /\ closing' = None
    /\ reports' = [s \in Symbols |-> 0] /\ late' = 0
    /\ starts' = starts + 1
    /\ UNCHANGED <<store, canceller, cancels, edits, troubles>>

CancelSet ==
    /\ canceller = None /\ cancels < MaxCancels
    /\ cancel' = TRUE /\ canceller' = "set" /\ cancels' = cancels + 1
    /\ UNCHANGED <<store, thread, job, last, run, starts, edits, troubles>>

CancelLook ==
    /\ canceller = "set"
    /\ canceller' = IF Busy \/ job = "running" THEN "store" ELSE None
    /\ UNCHANGED <<store, thread, job, last, cancel, run, bounds>>

CancelStore ==
    /\ canceller = "store"
    /\ last' = "cancelled" /\ canceller' = "mark"
    /\ UNCHANGED <<store, thread, job, cancel, run, bounds>>

CancelMark ==
    /\ canceller = "mark"
    /\ job' = "cancelled" /\ canceller' = None
    /\ UNCHANGED <<store, thread, last, cancel, run, bounds>>

-----------------------------------------------------------------------------
(* The thread: planning.                                                      *)

Step(at) ==
    /\ thread # None /\ thread.at = at
    /\ closing = None

(* Mutated form of Failed: an exception leaves the thread without a handler.  *)
FailedSilently ==
    /\ thread' = None
    /\ UNCHANGED job

(* What _run does with an exception, and _run_unsafe with a terminal that     *)
(* does not answer: the job is done with an error; last_opt_job is not told.  *)
Failed ==
    /\ thread' = None
    /\ job' = "done"

Ensure ==
    /\ Step("ensure")
    /\ \/ thread' = [thread EXCEPT !.at = "plan"] /\ UNCHANGED job
       \/ Failed
    /\ UNCHANGED <<store, last, cancel, canceller, run, bounds>>

(* Mutated form of Wanted: only what start was asked for.                     *)
WantedAtStart == thread.apply

(* close_out and _finish_symbol both ask this before they let apply write.    *)
Wanted == thread.apply /\ ~cancel

CloseOut(s, again) == [symbol |-> s, at |-> "decide", apply |-> Wanted, again |-> again]

(* One sweep for each permitted family and timeframe of which the terminal    *)
(* gave enough bars, in each window of the shortlist.                         *)
Planned(shortlist, enough) ==
    {j \in shortlist \X enough \X Families : <<j[3], j[2]>> \in Permitted}

(* _plan_symbol: the plan keeps the config as it is now.                      *)
PlanOf(s, jobs) ==
    [on |-> s \in on, stamped |-> s \in stamped, jobs |-> jobs,
     measured |-> {}, outstanding |-> Cardinality(jobs)]

(* A symbol without sweeps is closed out at once, a deleted one is left out.  *)
PlanNext(s, shortlist, enough) ==
    LET jobs == Planned(shortlist, enough) IN
    /\ Step("plan") /\ ~cancel
    /\ s \in todo /\ todo' = todo \ {s}
    /\ IF s \in book
         THEN /\ plans' = [plans EXCEPT ![s] = PlanOf(s, jobs)]
              /\ closing' = IF jobs = {} THEN CloseOut(s, FALSE) ELSE None
         ELSE UNCHANGED <<plans, closing>>
    /\ UNCHANGED <<store, thread, control, targets, batch, reports, late, bounds>>

PlansMade ==
    /\ Step("plan") /\ todo = {} /\ ~cancel
    /\ thread' = [thread EXCEPT !.at = "sweep"]
    /\ UNCHANGED <<store, control, run, bounds>>

-----------------------------------------------------------------------------
(* The thread: sweeping.                                                      *)

(* Mutated form of Unmeasured: every sweep of the plan is run again.          *)
UnmeasuredAll(s) ==
    IF plans[s] = None \/ plans[s].outstanding <= 0 THEN {} ELSE plans[s].jobs

(* The sweeps of a plan still to run, in the pool and in the single-process   *)
(* fallback alike.                                                            *)
Unmeasured(s) ==
    IF plans[s] = None \/ plans[s].outstanding <= 0 THEN {}
    ELSE plans[s].jobs \ plans[s].measured

Pending == UNION {{s} \X Unmeasured(s) : s \in Symbols}

(* One wait on the pool returns some finished sweeps; the serial loop runs    *)
(* one at a time.                                                             *)
Harvest(done) ==
    /\ Step("sweep") /\ ~cancel
    /\ batch = {} /\ done # {} /\ done \subseteq Pending
    /\ Cardinality(done) <= IF thread.mode = "pool" THEN MaxBatch ELSE 1
    /\ batch' = done
    /\ UNCHANGED <<store, thread, control, targets, todo, plans, closing,
                   reports, late, bounds>>

(* note: the outcome joins the attempts; the last one closes the symbol out.  *)
Note(s, j) ==
    /\ Step("sweep") /\ <<s, j>> \in batch
    /\ batch' = batch \ {<<s, j>>}
    /\ plans' = [plans EXCEPT ![s].measured = @ \cup {j}, ![s].outstanding = @ - 1]
    /\ closing' = IF plans[s].outstanding - 1 <= 0 THEN CloseOut(s, FALSE) ELSE None
    /\ UNCHANGED <<store, thread, control, targets, todo, reports, late, bounds>>

(* Mutated form of PoolBreaks: the fallback plans the whole book.             *)
PoolBreaksWide ==
    /\ Step("sweep") /\ thread.mode = "pool" /\ Pending # {} /\ ~cancel
    /\ troubles < MaxTroubles /\ troubles' = troubles + 1
    /\ thread' = [thread EXCEPT !.at = "plan", !.mode = "serial"]
    /\ todo' = {s \in book : plans[s] = None}
    /\ batch' = {}
    /\ UNCHANGED <<store, control, targets, plans, closing, reports, late,
                   starts, cancels, edits>>

(* A dead worker: what the pool had not answered goes to the serial loop,     *)
(* which first plans the symbols that have no plan.                           *)
PoolBreaks ==
    /\ Step("sweep") /\ thread.mode = "pool" /\ Pending # {} /\ ~cancel
    /\ troubles < MaxTroubles /\ troubles' = troubles + 1
    /\ thread' = [thread EXCEPT !.at = "plan", !.mode = "serial"]
    /\ todo' = {s \in targets : plans[s] = None}
    /\ batch' = {}
    /\ UNCHANGED <<store, control, targets, plans, closing, reports, late,
                   starts, cancels, edits>>

(* All sweeps are in, or the cancel is seen between two steps.                *)
SweepsEnd ==
    /\ \/ Step("sweep") /\ batch = {} /\ (cancel \/ Pending = {})
       \/ Step("plan") /\ cancel
    /\ thread' = [thread EXCEPT !.at = "finish"]
    /\ UNCHANGED <<store, control, run, bounds>>

-----------------------------------------------------------------------------
(* The thread: _finish_symbol.                                                *)

ClosingAt(at) == thread # None /\ closing # None /\ closing.at = at

(* A symbol that was closed when it was planned is only reported, unless it   *)
(* was never stamped or the run is the autopilot's onboarding.                *)
ReportOnly(s) ==
    /\ ~plans[s].on
    /\ plans[s].stamped /\ thread.source # "onboarding"

(* good: a robust, validated candidate that reject_reason does not hold back. *)
Decide(good) ==
    /\ ClosingAt("decide")
    /\ closing' = [closing EXCEPT !.at =
          IF good /\ closing.apply /\ Wanted /\ ~ReportOnly(closing.symbol)
            THEN "apply" ELSE "record"]
    /\ UNCHANGED <<store, thread, control, targets, todo, plans, batch, reports,
                   late, bounds>>

ApplyWrites ==
    /\ ClosingAt("apply")
    /\ closing.symbol \in book
    /\ stamped' = stamped \cup {closing.symbol}
    /\ late' = IF cancel THEN late + 1 ELSE late
    /\ closing' = [closing EXCEPT !.at = "record"]
    /\ UNCHANGED <<book, on, thread, control, targets, todo, plans, batch,
                   reports, bounds>>

ApplyRefuses ==
    /\ ClosingAt("apply")
    /\ closing' = [closing EXCEPT !.at = "record"]
    /\ UNCHANGED <<store, thread, control, targets, todo, plans, batch, reports,
                   late, bounds>>

(* record_opt_run, and the report joins the results.                          *)
Record ==
    /\ ClosingAt("record")
    /\ reports' = [reports EXCEPT ![closing.symbol] = @ + 1]
    /\ closing' = None
    /\ UNCHANGED <<store, thread, control, targets, todo, plans, batch, late, bounds>>

(* The close-out raises.  The harvest takes the exception for the sweep's own *)
(* and notes the sweep again, which closes the symbol out a second time;      *)
(* anywhere else it ends the run.                                             *)
Raise ==
    /\ thread # None /\ closing # None
    /\ troubles < MaxTroubles /\ troubles' = troubles + 1
    /\ \/ /\ thread.mode = "pool" /\ thread.at = "sweep" /\ ~closing.again
          /\ plans' = [plans EXCEPT ![closing.symbol].outstanding = @ - 1]
          /\ closing' = CloseOut(closing.symbol, TRUE)
          /\ UNCHANGED <<thread, job, batch>>
       \/ /\ thread.mode = "serial" \/ thread.at = "plan" \/ closing.again
          /\ Failed
          /\ closing' = None /\ batch' = {}
          /\ UNCHANGED plans
    /\ UNCHANGED <<store, last, cancel, canceller, targets, todo, reports, late,
                   starts, cancels, edits>>

(* The end of _run_unsafe: the job first, then its stored copy.               *)
FinishJob ==
    /\ Step("finish")
    /\ job' = IF cancel THEN "cancelled" ELSE "done"
    /\ thread' = [thread EXCEPT !.at = "ended", !.cancelled = cancel]
    /\ UNCHANGED <<store, last, cancel, canceller, run, bounds>>

FinishStore ==
    /\ Step("ended")
    /\ last' = IF thread.cancelled THEN "cancelled" ELSE "done"
    /\ thread' = None
    /\ UNCHANGED <<store, job, cancel, canceller, run, bounds>>

-----------------------------------------------------------------------------
(* The operator, while the search runs.                                       *)

Operator(next) ==
    /\ edits < MaxEdits /\ edits' = edits + 1
    /\ next
    /\ UNCHANGED <<starts, cancels, troubles>>

Toggle(s) ==
    Operator(/\ s \in book
             /\ on' = IF s \in on THEN on \ {s} ELSE on \cup {s}
             /\ UNCHANGED <<book, stamped, thread, control, run>>)

Delete(s) ==
    Operator(/\ s \in book
             /\ book' = book \ {s} /\ on' = on \ {s} /\ stamped' = stamped \ {s}
             /\ UNCHANGED <<thread, control, run>>)

(* The process ends: only the symbols and last_opt_job are stored.            *)
Restart ==
    Operator(/\ thread' = None /\ job' = "idle"
             /\ cancel' = FALSE /\ canceller' = None
             /\ targets' = {} /\ todo' = {} /\ plans' = [s \in Symbols |-> None]
             /\ batch' = {} /\ closing' = None
             /\ reports' = [s \in Symbols |-> 0] /\ late' = 0
             /\ UNCHANGED <<store, last>>)

-----------------------------------------------------------------------------
ThreadNext ==
    \/ Ensure \/ PlansMade \/ SweepsEnd \/ Record \/ FinishJob \/ FinishStore
    \/ \E s \in Symbols, shortlist \in (SUBSET Windows) \ {{}}, enough \in SUBSET Frames :
          PlanNext(s, shortlist, enough)
    \/ \E done \in SUBSET Pending : Harvest(done)
    \/ \E x \in batch : Note(x[1], x[2])
    \/ \E good \in BOOLEAN : Decide(good)
    \/ ApplyWrites \/ ApplyRefuses

Next ==
    \/ \E r \in Requests : Start(r)
    \/ CancelSet \/ CancelLook \/ CancelStore \/ CancelMark
    \/ ThreadNext \/ PoolBreaks \/ Raise
    \/ \E s \in Symbols : Toggle(s) \/ Delete(s)
    \/ Restart

Spec == Init /\ [][Next]_vars

(* A sweep ends, a wait on the pool returns at least every half second, and   *)
(* the thread goes on.  Nobody owes a start or a cancel.                      *)
FairSpec == Spec /\ WF_vars(ThreadNext)

-----------------------------------------------------------------------------
(* Properties.                                                                *)

(* Every symbol of a run is reported once: not twice when the pool breaks and *)
(* the rest is swept serially, not twice when a close-out raises, and a run   *)
(* that ends without cancel or error has reported each symbol it planned.     *)
OneReport ==
    /\ \A s \in Symbols : reports[s] <= 1
    /\ thread # None /\ thread.at = "ended" /\ ~thread.cancelled
       => \A s \in targets : plans[s] # None => reports[s] = 1

(* Cancel means: stop writing the live book.  Of all the symbols whose sweeps *)
(* are already in, at most the one that was past its last check is written    *)
(* after the cancel.                                                          *)
CancelStopsWrites == late <= 1

(* Nothing downstream of start leaves the job "running" for ever: not a       *)
(* broken pool, an exception, a cancel or a deleted symbol.                   *)
JobEnds == job = "running" ~> job # "running"

(* A disabled symbol that was searched before is not rewritten by an ordinary *)
(* search (the comment at optimizer.py:1028).                                 *)
ClosedNotApplied ==
    [][\A s \in Symbols :
          ApplyWrites /\ closing.symbol = s /\ thread.source = "manual"
          => s \in on \/ s \notin stamped]_vars
=============================================================================
