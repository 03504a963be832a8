---------------------------- MODULE SymbolVerdicts ----------------------------
(***************************************************************************)
(* The supervisor (micofx/supervisor.py): a verdict per symbol, rebuilt by *)
(* every review from the closed trades of the lookback window, and the     *)
(* gate that turns it into an entry's lot scale.  A losing record suspends *)
(* the symbol and sends it to the optimizer; a new config, the clock or    *)
(* the operator lift the suspension.                                       *)
(*                                                                         *)
(* Times are kept as the comparisons the code makes on them: a trade knows *)
(* whether it closed after the config's stamp (own) and after the last     *)
(* release (since); a verdict knows whether quarantine_until is ahead      *)
(* (running), whether its record was released (cleared) and whether the    *)
(* config was replaced after quarantined_at (replaced).                    *)
(***************************************************************************)
EXTENDS Integers, Sequences, FiniteSets

CONSTANTS
    Symbols,      \* names in the portfolio
    Losses,       \* quarantine_losses: consecutive losses that suspend
    Bar,          \* min_trades: trades from which an average is read
    Window,       \* bound: trades of a symbol inside the lookback window
    BlindReads,   \* TRUE: a review may read no deals (history_deals_get fails)
    LateForget,   \* TRUE: a crash may fall between a delete and the next save,
                  \* a delete between the deals a review reads and its verdicts
    None          \* no verdict, no job

Full == 10
Watch == 6

Trades == [won : BOOLEAN, own : BOOLEAN, since : BOOLEAN]
Verdicts == [state : {"ok", "watch", "quarantine", "idle"}, scale : {0, Watch, Full},
             running : BOOLEAN, replaced : BOOLEAN, cleared : BOOLEAN,
             probation : BOOLEAN, cooling : BOOLEAN]

ASSUME VerdictBounds ==
    /\ {Losses, Bar, Window} \subseteq Nat \ {0}
    /\ Losses <= Window /\ Bar <= Window
    /\ {BlindReads, LateForget} \subseteq BOOLEAN
    /\ None \notin Verdicts

VARIABLES
    trades,      \* closed round trips of the window, the newest last
    history,     \* the trades a running review has read, None outside one
    verdict,     \* Supervisor.verdicts
    saved,       \* supervisor_state as the database holds it
    size,        \* lot scale (tenths) of the open position, 0 when flat
    enabled,     \* symbols switched on
    job,         \* symbols the optimizer searches, None when it is idle
    hardOnly,    \* hard_block_only_quarantine
    unreviewed   \* symbols no review has judged since the operator's release

verdictVars == <<trades, history, verdict, saved, size, enabled, job, hardOnly, unreviewed>>

Blank == [state |-> "ok", scale |-> Full, running |-> FALSE, replaced |-> FALSE,
          cleared |-> FALSE, probation |-> FALSE, cooling |-> FALSE]

Suspended(s) == verdict[s] # None /\ verdict[s].state = "quarantine"

VerdictTypeOK ==
    /\ trades \in [Symbols -> Seq(Trades)]
    /\ \A s \in Symbols : Len(trades[s]) <= Window
    /\ history = None \/ history \in [Symbols -> Seq(Trades)]
    /\ verdict \in [Symbols -> Verdicts \cup {None}]
    /\ saved \in [Symbols -> Verdicts \cup {None}]
    /\ size \in [Symbols -> {0, Watch, Full}]
    /\ enabled \subseteq Symbols
    /\ job = None \/ job \subseteq Symbols
    /\ hardOnly \in BOOLEAN
    /\ unreviewed \subseteq Symbols

VerdictInit ==
    /\ trades = [s \in Symbols |-> <<>>]
    /\ history = None
    /\ verdict = [s \in Symbols |-> None]
    /\ saved = verdict
    /\ size = [s \in Symbols |-> 0]
    /\ enabled = Symbols
    /\ job = None
    /\ hardOnly \in BOOLEAN
    /\ unreviewed = {}

-----------------------------------------------------------------------------
(* What a record T says, read off the places I of it that count *)

Wins(T, I) == Cardinality({i \in I : T[i].won})

(* _pf(nets) < num / den, every trade winning or losing the same amount.   *)
PfBelow(T, I, num, den) == Wins(T, I) * den < num * (Cardinality(I) - Wins(T, I))

(* Consecutive losses at the end of a record.                              *)
Streak(T, I) == Cardinality({i \in I : \A j \in I : j >= i => ~T[j].won})

(* Mutated form of SinceEpoch: the whole window counts after a new config. *)
SinceRelease(T, v) == {i \in DOMAIN T : v.cleared => T[i].since}

(* since_cfg: trades closed under the running config and, if the operator  *)
(* released the symbol, after that.                                        *)
SinceEpoch(T, v) == {i \in DOMAIN T : T[i].own /\ (v.cleared => T[i].since)}

(* The watch bar remembers the whole window, but for a release.            *)
Watched(T, v) == {i \in DOMAIN T : v.cleared => T[i].since}

Broken(T, own) ==
    \/ Streak(T, own) >= Losses
    \/ Cardinality(own) >= Bar /\ PfBelow(T, own, 8, 10)

(* _quarantine: a clock that runs is not started again.                    *)
Quarantine(v) ==
    [v EXCEPT !.state = "quarantine", !.scale = 0, !.running = TRUE,
              !.replaced = IF v.running THEN v.replaced ELSE FALSE]

Slowed(v) == [v EXCEPT !.state = "watch", !.scale = Watch]

(* Mutated form of Probation: a lifted symbol is judged like any other.    *)
ProbationUnread(v, own) == v

(* Probation ends at Bar trades of its own; until then no full size.       *)
Probation(v, own) ==
    IF ~v.probation THEN v
    ELSE IF Cardinality(own) >= Bar THEN [v EXCEPT !.probation = FALSE]
    ELSE IF v.state = "ok" THEN Slowed(v) ELSE v

(* No trades to judge: a running suspension stays, anything else is idle   *)
(* at full scale unless its trade autopsies are poor (worn).               *)
JudgeIdle(v, worn) ==
    IF v.running THEN [v EXCEPT !.state = "quarantine", !.scale = Full]
    ELSE IF worn THEN Slowed(v)
    ELSE [v EXCEPT !.state = "idle", !.scale = Full]

(* _judge on a record; worn stands for the reasons that only slow: a count *)
(* too poor for its holdout, poor autopsies, a decaying edge.              *)
JudgeRecord(T, v, worn) ==
    LET own == SinceEpoch(T, v)
        rel == Watched(T, v)
        poor == worn \/ (Cardinality(rel) >= Bar /\ PfBelow(T, rel, 1, 1))
        base == [v EXCEPT !.state = "ok", !.scale = Full]
    IN  Probation(
            IF Broken(T, own) THEN Quarantine(v)
            ELSE IF v.running /\ ~v.replaced THEN [base EXCEPT !.state = "quarantine"]
            ELSE IF v.running THEN
                LET lifted == [base EXCEPT !.running = FALSE, !.probation = TRUE]
                IN  IF worn THEN Slowed(lifted) ELSE lifted
            ELSE IF poor THEN Slowed(base) ELSE base,
            own)

Judge(s, T, worn) ==
    LET v == IF verdict[s] = None THEN Blank ELSE verdict[s]
    IN  IF T = <<>> THEN JudgeIdle(v, worn) ELSE JudgeRecord(T, v, worn)

-----------------------------------------------------------------------------
(* Trading *)

(* _gate_locked: the scale of a prospective entry, 0 when it is refused.   *)
Gate(s) ==
    IF verdict[s] = None THEN Full
    ELSE IF verdict[s].state # "quarantine" THEN verdict[s].scale
    ELSE IF hardOnly THEN Watch ELSE 0

Enter(s) ==
    /\ s \in enabled /\ size[s] = 0 /\ Gate(s) > 0
    /\ size' = [size EXCEPT ![s] = Gate(s)]
    /\ UNCHANGED <<trades, history, verdict, saved, enabled, job, hardOnly, unreviewed>>

(* The position closes; the oldest trade leaves a full window.  A review   *)
(* takes a moment: at most one trade of a symbol closes during it (bound). *)
Exit(s, won) ==
    /\ size[s] > 0
    /\ history # None => history[s] = trades[s]
    /\ size' = [size EXCEPT ![s] = 0]
    /\ LET kept == IF Len(trades[s]) = Window THEN Tail(trades[s]) ELSE trades[s]
       IN  trades' = [trades EXCEPT ![s] =
                         Append(kept, [won |-> won, own |-> TRUE, since |-> TRUE])]
    /\ UNCHANGED <<history, verdict, saved, enabled, job, hardOnly, unreviewed>>

-----------------------------------------------------------------------------
(* Review, release, search *)

Stale(V) == {s \in enabled : V[s].state = "quarantine" /\ ~V[s].cooling}

(* review, outside the lock: the closed trades of the window, or nothing.  *)
ReviewReads ==
    /\ history = None
    /\ history' \in {trades} \cup (IF BlindReads THEN {[s \in Symbols |-> <<>>]} ELSE {})
    /\ UNCHANGED <<trades, verdict, saved, size, enabled, job, hardOnly, unreviewed>>

(* ... and under it: every symbol is judged on what was read, suspended    *)
(* ones are sent to an idle optimizer, and the whole is saved.             *)
Review(worn) ==
    /\ history # None
    /\ LET V == [s \in Symbols |-> Judge(s, history[s], s \in worn)]
           queue == job = None /\ Stale(V) # {}
       IN  /\ verdict' = [s \in Symbols |->
                             IF queue /\ s \in Stale(V) THEN [V[s] EXCEPT !.cooling = TRUE]
                             ELSE V[s]]
           /\ job' = IF queue THEN Stale(V) ELSE job
    /\ saved' = verdict'
    /\ history' = None
    /\ unreviewed' = {}
    /\ UNCHANGED <<trades, size, enabled, hardOnly>>

Reviews == \E worn \in SUBSET Symbols : Review(worn)

(* clear: the operator lifts the suspension and the record before it       *)
(* stops counting; a suspended symbol is left on probation.                *)
Released(s) ==
    [verdict EXCEPT ![s] = IF @ = None THEN None
        ELSE [@ EXCEPT !.state = "ok", !.scale = Full, !.running = FALSE,
                       !.replaced = FALSE, !.cleared = TRUE,
                       !.probation = Suspended(s)]]

(* A trade is compared with the stamps of the config and of the release    *)
(* when it is judged: new ones age what a review has already read, too.    *)
Past(T) == [i \in DOMAIN T |-> [T[i] EXCEPT !.since = FALSE]]
Foreign(T) == [i \in DOMAIN T |-> [T[i] EXCEPT !.own = FALSE]]
Aged(H, S, Old(_)) == [s \in Symbols |-> IF s \in S THEN Old(H[s]) ELSE H[s]]
Ages(S, Old(_)) ==
    /\ trades' = Aged(trades, S, Old)
    /\ history' = IF history = None THEN None ELSE Aged(history, S, Old)

Release(s) ==
    /\ verdict[s] # None
    /\ verdict' = Released(s)
    /\ saved' = verdict'
    /\ Ages({s}, Past)
    /\ unreviewed' = unreviewed \cup {s}

(* "Serbest birak" on the panel.                                           *)
Clear(s) == Release(s) /\ UNCHANGED <<size, enabled, job, hardOnly>>

(* The panel switches a symbol off, or on: then the release comes with it, *)
(* and the gate is set back to sizing only.                                *)
SwitchOff(s) ==
    /\ s \in enabled
    /\ enabled' = enabled \ {s}
    /\ UNCHANGED <<trades, history, verdict, saved, size, job, hardOnly, unreviewed>>

SwitchOn(s) ==
    /\ s \notin enabled
    /\ enabled' = enabled \cup {s}
    /\ hardOnly' = TRUE
    /\ IF verdict[s] = None THEN UNCHANGED <<trades, history, verdict, saved, unreviewed>>
                            ELSE Release(s)
    /\ UNCHANGED <<size, job>>

(* The optimizer takes another job, and ends the one it has; the symbols   *)
(* it found a better config for are stamped: their trades are the old      *)
(* config's from now on.                                                   *)
OtherJob ==
    /\ job = None
    /\ job' = {}
    /\ UNCHANGED <<trades, history, verdict, saved, size, enabled, hardOnly, unreviewed>>

JobEnds(won) ==
    /\ job # None /\ won \subseteq job
    /\ job' = None
    /\ Ages(won, Foreign)
    /\ verdict' = [s \in Symbols |-> IF s \in won /\ verdict[s] # None
                      THEN [verdict[s] EXCEPT !.replaced = TRUE] ELSE verdict[s]]
    /\ saved' = [s \in Symbols |-> IF s \in won /\ saved[s] # None
                    THEN [saved[s] EXCEPT !.replaced = TRUE] ELSE saved[s]]
    /\ UNCHANGED <<size, enabled, hardOnly, unreviewed>>

(* The symbol is deleted, which drops its verdict from memory, and added   *)
(* again: under a new magic it has no record.                              *)
Readd(s) ==
    /\ size[s] = 0 /\ verdict[s] # None
    /\ LateForget \/ history = None
    /\ verdict' = [verdict EXCEPT ![s] = None]
    /\ trades' = [trades EXCEPT ![s] = <<>>]
    /\ enabled' = enabled \ {s}
    /\ unreviewed' = unreviewed \ {s}
    /\ UNCHANGED <<history, saved, size, job, hardOnly>>

-----------------------------------------------------------------------------
(* Clocks and crashes *)

(* quarantine_until, or the cooldown of the next search, is reached.       *)
Expire(s) ==
    /\ verdict[s] # None /\ verdict[s].running
    /\ verdict' = [verdict EXCEPT ![s].running = FALSE]
    /\ saved' = [saved EXCEPT ![s] = IF @ = None THEN None ELSE [@ EXCEPT !.running = FALSE]]
    /\ UNCHANGED <<trades, history, size, enabled, job, hardOnly, unreviewed>>

Cool(s) ==
    /\ verdict[s] # None /\ verdict[s].cooling
    /\ verdict' = [verdict EXCEPT ![s].cooling = FALSE]
    /\ saved' = [saved EXCEPT ![s] = IF @ = None THEN None ELSE [@ EXCEPT !.cooling = FALSE]]
    /\ UNCHANGED <<trades, history, size, enabled, job, hardOnly, unreviewed>>

(* The process restarts on the saved verdicts.                             *)
RestartOnSaved ==
    /\ LateForget \/ \A s \in Symbols : saved[s] # None => verdict[s] # None
    /\ verdict' = saved
    /\ job' = None /\ history' = None
    /\ UNCHANGED <<trades, saved, size, enabled, hardOnly, unreviewed>>

VerdictNext ==
    \/ \E s \in Symbols :
          \/ Enter(s)
          \/ \E won \in BOOLEAN : Exit(s, won)
          \/ Clear(s)
          \/ SwitchOff(s)
          \/ SwitchOn(s)
          \/ Readd(s)
          \/ Expire(s)
          \/ Cool(s)
    \/ ReviewReads
    \/ Reviews
    \/ OtherJob
    \/ \E won \in SUBSET Symbols : JobEnds(won)
    \/ RestartOnSaved

VerdictSpec == VerdictInit /\ [][VerdictNext]_verdictVars

(* The engine reviews every other minute, the cooldown passes, a review    *)
(* now and then meets an idle optimizer, and a symbol searched again and   *)
(* again gets its new config.                                              *)
VerdictFairness ==
    /\ SF_verdictVars(ReviewReads /\ job = None)
    /\ SF_verdictVars(Reviews /\ job = None)
    /\ WF_verdictVars(Reviews)
    /\ WF_verdictVars(\E won \in SUBSET Symbols : JobEnds(won))
    /\ \A s \in Symbols :
          /\ WF_verdictVars(Cool(s))
          /\ SF_verdictVars(job # None /\ \E won \in SUBSET Symbols : s \in won /\ JobEnds(won))

FairVerdicts == VerdictSpec /\ VerdictFairness

-----------------------------------------------------------------------------
(* The record a review has read broke on trades that are the symbol's own. *)
BrokeOnOwn(s) ==
    LET T == history[s]
        own == {i \in DOMAIN T : T[i].own /\ (verdict'[s].cleared => T[i].since)}
    IN  \/ Cardinality({i \in own : ~T[i].won}) >= Losses
        \/ Cardinality(own) >= Bar

(* A symbol is suspended on its own record only: trades the config running *)
(* now made after the operator's last release, as many in a row as the     *)
(* breaker asks, or enough of them to average.  Neither the record of a    *)
(* replaced config, nor a released one, nor a deleted symbol's, nor a      *)
(* restart suspends it.                                                    *)
OwnRecordOnly ==
    [][\A s \in Symbols : Suspended(s)' /\ ~Suspended(s) => BrokeOnOwn(s)]_verdictVars

(* After a suspension is lifted the symbol earns its size back: once a     *)
(* review has seen the release, no entry opens at full scale before Bar    *)
(* trades of its own have closed.                                          *)
SmallUntilProved ==
    [][\A s \in Symbols :
          size[s] = 0 /\ size'[s] = Full /\ verdict[s] # None =>
              ~verdict[s].probation \/ s \in unreviewed]_verdictVars

(* The same without waiting for the review.                                *)
EarnsItBack ==
    [][\A s \in Symbols :
          size[s] = 0 /\ size'[s] = Full /\ verdict[s] # None => ~verdict[s].probation]_verdictVars

(* Where a suspension refuses entries it is not for ever: the search it    *)
(* queues lands a config, and the next review lifts it.                    *)
SuspensionEnds ==
    \A s \in Symbols :
        Suspended(s) /\ s \in enabled /\ ~hardOnly
            ~> (~Suspended(s) \/ s \notin enabled \/ hardOnly)
==============================================================================
