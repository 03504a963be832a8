-------------------------- MODULE ParameterPatches --------------------------
(* The parameters of one symbol and everybody who writes them: the search,    *)
(* the autopilot and the panel through Optimizer.apply (optimizer.py), the    *)
(* panel's own edits (web/app.py patch_symbol) and the poll thread, which     *)
(* lands what had to wait for the position to close (engine.py                *)
(* _apply_pending_exits).                                                     *)
(*                                                                            *)
(* A row is reduced to the three kinds of fields the code tells apart: the    *)
(* family (strategy and timeframe), the exit fields (EXIT_RISK_FIELDS) and    *)
(* every other searched field (gate).  Writers read the row, take seconds to  *)
(* decide and then write under entry_lock, which is one step here because     *)
(* nothing that lock guards can move inside it.                               *)
EXTENDS Naturals

CONSTANTS
    Families,       \* strategy/timeframe pairs
    Values,         \* values of the exit fields and of the gates
    First,          \* the row the symbol starts with
    Keep,           \* a field the candidate does not name
    None,           \* no pending patch, no call
    Appliers,       \* threads that call Optimizer.apply
    Autopilot,      \* the one that runs on the poll thread
    Search,         \* the one whose force flag is set by Optimizer.start
    Offers,         \* the calls each thread may make: candidate, verdict, force
    MaxPositions,   \* cfg.max_positions
    MaxCalls,       \* bound on calls of apply
    MaxEdits,       \* bound on edits by the panel and restarts
    MaxOrders,      \* bound on orders sent
    Fresh,          \* TRUE: no row changes between a writer's read and its write
    EditOverPending,\* TRUE: the panel may edit while a patch is pending
    UnclearSends    \* TRUE: an unclear send is in flight before its scan starts

Params == [family : Families, exit : Values, gate : Values]
Candidates == [family : Families \cup {Keep}, exit : Values \cup {Keep},
               gate : Values \cup {Keep}]
Offer == [cand : Candidates, good : BOOLEAN, forced : BOOLEAN]

ASSUME FirstAssumption == First \in Params
ASSUME ThreadAssumption == Autopilot \in Appliers /\ Search \in Appliers
ASSUME NullAssumption ==
    Keep \notin Families \cup Values /\ None \notin Values \cup Params
(* A candidate of another family comes from a search and names every field.   *)
ASSUME OfferAssumption ==
    /\ Offers \in [Appliers -> SUBSET Offer]
    /\ \A a \in Appliers : \A o \in Offers[a] :
          o.cand.family # Keep => Keep \notin {o.cand.exit, o.cand.gate}
ASSUME BoundAssumption ==
    /\ MaxPositions \in Nat \ {0}
    /\ MaxCalls \in Nat /\ MaxEdits \in Nat /\ MaxOrders \in Nat

VARIABLES
    row,        \* the live SymbolConfig
    queued,     \* cfg.pending_primary_patch
    held,       \* cfg.pending_exit_patch
    shown,      \* positions under the magic that the terminal lists
    sent,       \* an order of the magic whose outcome is not known
    scan,       \* secondary_orphan_scan names the magic
    allowed,    \* families opt_params' strategy_timeframes still permits
    poll,       \* where the poll thread is in its cycle
    seen,       \* what the cycle's read found under the magic
    force,      \* optimizer._force_apply
    call,       \* the call of apply each thread is in
    edit,       \* the edit the panel is deciding
    told,       \* history: what the last accepted writer was told will be live
    calls, edits, orders

book == <<shown, sent, scan, orders>>
patches == <<row, queued, held, told>>
vars == <<patches, book, allowed, poll, seen, force, call, edit, calls, edits>>

Call == [cfg : Params, cand : Candidates, good : BOOLEAN, forced : BOOLEAN,
         before : BOOLEAN, at : {"measuring", "passed", "returning"}]
Edit == [cfg : Params, field : {"exit", "gate"}, value : Values]

TypeOK ==
    /\ row \in Params /\ told \in Params
    /\ queued \in Params \cup {None} /\ held \in Values \cup {None}
    /\ shown \in 0..MaxPositions /\ sent \in BOOLEAN /\ scan \in BOOLEAN
    /\ allowed \subseteq Families
    /\ poll \in {"start", "read", "landed", "autopilot"}
    /\ seen \in {"flat", "scan", "open"} /\ force \in BOOLEAN
    /\ call \in [Appliers -> Call \cup {None}]
    /\ edit \in Edit \cup {None}
    /\ calls \in 0..MaxCalls /\ edits \in 0..MaxEdits /\ orders \in 0..MaxOrders

Init ==
    /\ row = First /\ told = First /\ queued = None /\ held = None
    /\ shown = 0 /\ sent = FALSE /\ scan = FALSE
    /\ allowed = Families
    /\ poll = "start" /\ seen = "flat" /\ force = FALSE
    /\ call = [a \in Appliers |-> None] /\ edit = None
    /\ calls = 0 /\ edits = 0 /\ orders = 0

-----------------------------------------------------------------------------
(* What a writer sees of the positions, and what a candidate comes to.        *)

(* client.positions() under the magic, or the persisted scan: what apply and  *)
(* the panel call occupied.                                                   *)
Occupied == shown > 0 \/ scan

Flips(c, cfg) == c.family # Keep /\ c.family # cfg.family

(* Mutated form of Filled: a partial candidate is written as it came.         *)
FilledNot(c, cfg) == c

(* A same-family candidate is filled with the row the call started from.      *)
Filled(c, cfg) ==
    IF Flips(c, cfg) THEN c
    ELSE [c EXCEPT !.exit = IF @ = Keep THEN cfg.exit ELSE @,
                   !.gate = IF @ = Keep THEN cfg.gate ELSE @]

(* The row a candidate comes to on top of the row p.                          *)
Over(c, p) == [p EXCEPT !.family = IF c.family = Keep THEN @ ELSE c.family,
                        !.exit = c.exit, !.gate = c.gate]

(* What will be live once the magic is flat.                                  *)
Owed ==
    IF queued # None THEN queued
    ELSE IF held # None THEN [row EXCEPT !.exit = held] ELSE row

-----------------------------------------------------------------------------
(* The poll thread.                                                           *)

ReadBook ==
    /\ poll = "start"
    /\ poll' = "read"
    /\ seen' = IF shown > 0 THEN "open" ELSE IF scan THEN "scan" ELSE "flat"
    /\ UNCHANGED <<patches, book, allowed, force, call, edit, calls, edits>>

(* Mutated form of LandPrimary: a family that is no longer permitted is left  *)
(* for the next cycle.                                                        *)
LandPrimaryRetried ==
    /\ queued # None
    /\ IF queued.family \in allowed
         THEN row' = queued /\ queued' = None /\ held' = None
         ELSE UNCHANGED <<row, queued, held>>
    /\ UNCHANGED told

(* _land_pending_primary: the queued family with its parameters, unless it    *)
(* is no longer permitted; the held exits go with it.                         *)
LandPrimary ==
    /\ queued # None
    /\ IF queued.family \in allowed
         THEN row' = queued /\ UNCHANGED told
         ELSE UNCHANGED row /\ told' = row
    /\ queued' = None /\ held' = None

LandExits ==
    /\ queued = None /\ held # None
    /\ row' = [row EXCEPT !.exit = held]
    /\ held' = None
    /\ UNCHANGED <<queued, told>>

LandPending ==
    /\ poll = "read"
    /\ poll' = "landed"
    /\ \/ seen = "flat" /\ (LandPrimary \/ LandExits)
       \/ seen # "flat" /\ UNCHANGED patches
       \/ queued = None /\ held = None /\ UNCHANGED patches
    /\ UNCHANGED <<book, allowed, seen, force, call, edit, calls, edits>>

(* The end of the cycle: a verification that has ended without an answer has  *)
(* become a scan.                                                             *)
EndCycle ==
    /\ poll \in {"landed", "autopilot"}
    /\ poll = "autopilot" => call[Autopilot] = None
    /\ poll' = "start"
    /\ seen' = "flat"
    /\ scan' \in {scan, scan \/ sent}
    /\ UNCHANGED <<patches, shown, sent, orders, allowed, force, call, edit,
                   calls, edits>>

(* An entry: filled, or sent with an unclear answer.  An unsettled order or   *)
(* a scan of the magic refuses the next one.                                  *)
SendEntry ==
    /\ poll = "landed"
    /\ ~sent /\ ~scan /\ shown < MaxPositions /\ orders < MaxOrders
    /\ orders' = orders + 1
    /\ \/ shown' = shown + 1 /\ UNCHANGED <<sent, scan>>
       \/ sent' = TRUE /\ scan' = ~UnclearSends /\ UNCHANGED shown
    /\ poll' = "start" /\ seen' = "flat"
    /\ UNCHANGED <<patches, allowed, force, call, edit, calls, edits>>

-----------------------------------------------------------------------------
(* The MT5 server, and the scan that follows it.                              *)

Broker(next) == next /\ UNCHANGED <<patches, orders, allowed, poll, seen, force,
                                    call, edit, calls, edits>>

FillSurfaces == Broker(sent /\ sent' = FALSE /\ shown' = shown + 1 /\ UNCHANGED scan)
OrderDies == Broker(sent /\ sent' = FALSE /\ UNCHANGED <<shown, scan>>)
PositionCloses == Broker(shown > 0 /\ shown' = shown - 1 /\ UNCHANGED <<sent, scan>>)
ScanEnds == Broker(scan /\ ~sent /\ scan' = FALSE /\ UNCHANGED <<shown, sent>>)

-----------------------------------------------------------------------------
(* Optimizer.apply.                                                           *)

Idle(a) == call[a] = None

(* Optimizer.start keeps its force argument on the instance, where every      *)
(* later apply reads it.                                                      *)
StartSearch(f) ==
    /\ Idle(Search) /\ calls < MaxCalls
    /\ force' = f
    /\ force # f
    /\ calls' = calls + 1
    /\ UNCHANGED <<patches, book, allowed, poll, seen, call, edit, edits>>

(* A call starts: the panel and the autopilot set the flag for a forced call  *)
(* and remember what it was, the row is read, an unpermitted family and a     *)
(* candidate that changes nothing are refused.  The autopilot turns its gates *)
(* only while no search runs and the cycle saw no position; its exit change   *)
(* (maybe_land_pending_xau_sl) has neither guard.                             *)
Begin(a, o) ==
    LET c == o.cand
        forced == IF a = Search THEN force ELSE o.forced IN
    /\ Idle(a) /\ calls < MaxCalls
    /\ a = Autopilot =>
          /\ poll = "landed"
          /\ c.exit = Keep => seen # "open" /\ Idle(Search)
    /\ (IF c.family = Keep THEN row.family ELSE c.family) \in allowed
    /\ forced \/ force \/ Over(Filled(c, row), row) # row
    /\ force' = (force \/ forced)
    /\ call' = [call EXCEPT ![a] =
          [cfg |-> row, cand |-> c, good |-> o.good, forced |-> forced,
           before |-> force, at |-> "measuring"]]
    /\ poll' = IF a = Autopilot THEN "autopilot" ELSE poll
    /\ calls' = calls + 1
    /\ UNCHANGED <<patches, book, allowed, seen, edit, edits>>

(* The charged holdout is measured and the gates answer, except that the      *)
(* flag, whoever set it, waives them.                                         *)
Measured(a) ==
    /\ ~Idle(a) /\ call[a].at = "measuring"
    /\ call' = [call EXCEPT ![a].at =
                   IF call[a].good \/ force THEN "passed" ELSE "returning"]
    /\ UNCHANGED <<patches, book, allowed, poll, seen, force, edit, calls, edits>>

(* The terminal does not answer: refused under the lock.                      *)
Unreachable(a) ==
    /\ ~Idle(a) /\ call[a].at = "passed"
    /\ call' = [call EXCEPT ![a].at = "returning"]
    /\ UNCHANGED <<patches, book, allowed, poll, seen, force, edit, calls, edits>>

(* A family change waits for the position to close, and takes the place of    *)
(* what waited before.                                                        *)
QueueFamily(p) ==
    /\ queued' = p /\ held' = None
    /\ UNCHANGED row

(* Mutated form of HoldExits: an older family stays queued.                   *)
HoldExitsOnly(p) ==
    /\ held' = p.exit
    /\ row' = [p EXCEPT !.exit = row.exit]
    /\ UNCHANGED queued

(* A same-family candidate: the exits wait, the rest is written.              *)
HoldExits(p) ==
    /\ held' = p.exit /\ queued' = None
    /\ row' = [p EXCEPT !.exit = row.exit]

(* Mutated form of WriteNow: the patch that waited is not dropped.            *)
WriteBeside(p) == row' = p /\ UNCHANGED <<queued, held>>

WriteNow(p) == row' = p /\ queued' = None /\ held' = None

Write(a) ==
    LET c == call[a]
        p == Over(Filled(c.cand, c.cfg), row) IN
    /\ ~Idle(a) /\ c.at = "passed"
    /\ Fresh => row = c.cfg
    /\ \/ ~Occupied /\ WriteNow(p)
       \/ Occupied /\ Flips(c.cand, c.cfg) /\ QueueFamily(p)
       \/ Occupied /\ ~Flips(c.cand, c.cfg) /\ HoldExits(p)
    /\ told' = p
    /\ call' = [call EXCEPT ![a].at = "returning"]
    /\ UNCHANGED <<book, allowed, poll, seen, force, edit, calls, edits>>

(* The caller's finally block puts the flag back to what it was before the    *)
(* call; the search has none.                                                 *)
Return(a) ==
    /\ ~Idle(a) /\ call[a].at = "returning"
    /\ force' = IF a = Search THEN force ELSE call[a].before
    /\ call' = [call EXCEPT ![a] = None]
    /\ UNCHANGED <<patches, book, allowed, poll, seen, edit, calls, edits>>

(* Overtaken by another writer: with Fresh such a call does not come to write. *)
Overtaken(a) ==
    /\ Fresh
    /\ ~Idle(a) /\ call[a].at = "passed" /\ row # call[a].cfg
    /\ call' = [call EXCEPT ![a].at = "returning"]
    /\ UNCHANGED <<patches, book, allowed, poll, seen, force, edit, calls, edits>>

-----------------------------------------------------------------------------
(* The panel.                                                                 *)

(* patch_symbol decides from the row it finds which guards the edit needs.    *)
DecideEdit(field, v) ==
    /\ edit = None /\ edits < MaxEdits
    /\ edit' = [cfg |-> row, field |-> field, value |-> v]
    /\ edits' = edits + 1
    /\ UNCHANGED <<patches, book, allowed, poll, seen, force, call, calls>>

GuardedEdit == edit.field = "exit" /\ edit.value # edit.cfg.exit

WriteEdit ==
    /\ edit # None
    /\ GuardedEdit => ~Occupied
    /\ Fresh => row = edit.cfg
    /\ EditOverPending \/ (queued = None /\ held = None)
    /\ row' = [row EXCEPT ![edit.field] = edit.value]
    /\ told' = [Owed EXCEPT ![edit.field] = edit.value]
    /\ edit' = None
    /\ UNCHANGED <<queued, held, book, allowed, poll, seen, force, call, calls, edits>>

(* 409: open positions or a scan; 503: the terminal does not answer.          *)
RefuseEdit ==
    /\ edit # None
    /\ edit' = None
    /\ UNCHANGED <<patches, book, allowed, poll, seen, force, call, calls, edits>>

(* The process ends and another starts, perhaps of a version whose           *)
(* strategy_timeframes no longer permits some families: the row, its pending  *)
(* patches and the scan are stored, the calls, the flag and the edit are not. *)
Restart(banned) ==
    /\ edits < MaxEdits
    /\ edits' = edits + 1
    /\ allowed' = allowed \ banned
    /\ poll' = "start" /\ seen' = "flat" /\ force' = FALSE
    /\ call' = [a \in Appliers |-> None] /\ edit' = None
    /\ UNCHANGED <<patches, book, calls>>

-----------------------------------------------------------------------------
PollNext == ReadBook \/ LandPending \/ EndCycle

ApplyNext(a) == Measured(a) \/ Write(a) \/ Return(a) \/ Overtaken(a)

Next ==
    \/ PollNext \/ SendEntry
    \/ FillSurfaces \/ OrderDies \/ PositionCloses \/ ScanEnds
    \/ \E f \in BOOLEAN : StartSearch(f)
    \/ \E a \in Appliers :
          \/ ApplyNext(a) \/ Unreachable(a)
          \/ \E o \in Offers[a] : Begin(a, o)
    \/ \E field \in {"exit", "gate"}, v \in Values : DecideEdit(field, v)
    \/ WriteEdit \/ RefuseEdit
    \/ \E banned \in SUBSET (Families \ {row.family}) : Restart(banned)

Spec == Init /\ [][Next]_vars

(* The poll thread comes back every 0.3 seconds and a call of apply ends; the *)
(* broker, the operator and the panel owe nothing.                            *)
FairSpec ==
    /\ Spec
    /\ WF_vars(PollNext)
    /\ \A a \in Appliers : WF_vars(ApplyNext(a))

-----------------------------------------------------------------------------
(* Properties.                                                                *)

(* At most one patch waits: whatever the order of the calls, an apply that    *)
(* queues a family drops the held exits and one that holds exits drops the    *)
(* queued family, so the poll thread never lands half of each.                *)
OnePending == queued = None \/ held = None

(* The queues implement AcceptedParameters: a writer that was answered ok     *)
(* decides what will be live, the family and the exits of an occupied magic   *)
(* do not move, and what lands is exactly what the last writer was told,      *)
(* whatever closes or opens between the cycle's read and its landing.         *)
Accepted == INSTANCE AcceptedParameters
    WITH live <- row, owed <- Owed, told <- told, occupied <- Occupied
AsTold == Accepted!Spec

(* A patch does not wait for ever: when the magic ends up flat for good, what *)
(* was held back is landed, or dropped because it is no longer permitted.     *)
PendingLands ==
    <>[](~Occupied /\ ~sent) => <>[](queued = None /\ held = None)

(* A second apply does not wipe an earlier holdback (the comment at           *)
(* optimizer.py:3897): a candidate that names no exit field leaves the exits  *)
(* that wait as they were.                                                    *)
HoldbackKept ==
    [][\A a \in Appliers :
          /\ call[a] # None /\ call'[a] # None
          /\ call[a].at = "passed" /\ call[a].cand.exit = Keep /\ held # None
          => held' = held \/ row'.exit = held]_vars

(* The waiver a search was started with is for that run only (the comment at  *)
(* optimizer.py:1018): a call that nobody forced does not pass the gates with *)
(* a candidate they refuse.                                                   *)
ForceForItsRun ==
    \A a \in Appliers : call[a] # None /\ call[a].at = "passed"
                        => call[a].good \/ call[a].forced
=============================================================================
