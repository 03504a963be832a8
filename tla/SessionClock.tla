---------------------------- MODULE SessionClock ----------------------------
(***************************************************************************)
(* Trading windows on the broker's clock (micofx/sessions.py), the same    *)
(* windows as the replay reads them (session_mask and flatten_mask of      *)
(* micofx/backtest.py), and one position of the engine carried through a   *)
(* week of them.                                                           *)
(*                                                                         *)
(* The clock is the broker's: a minute of the week.  Hour is the number of *)
(* model minutes in an hour, so that a day is short enough to enumerate    *)
(* and every boundary of the code (a window's first and last minute,       *)
(* midnight, the Friday band) is still there.                              *)
(*                                                                         *)
(* Every minute the engine makes a pass: it manages the open position      *)
(* first and may enter after that.  A forced close is sticky: it is asked  *)
(* for again until the broker takes it.                                    *)
(***************************************************************************)
EXTENDS Integers, FiniteSets, FiniteSetsExt

CONSTANTS
    Hour,       \* model minutes per hour
    Configs,    \* the symbol configurations to run the week with
    None        \* no days of its own (a window), no remaining minutes

ASSUME HourAssumption == Hour \in Nat \ {0}

DayLen == 24 * Hour
Days == 1 .. 7                       \* Monday = 1
Week == 7 * DayLen
Saturday == 6
Sunday == 7

(* sessions.WEEKEND_WINDDOWN_MIN *)
Winddown == 2 * Hour

(* A configuration: the fields of SymbolConfig and of the system settings  *)
(* the session rules read.                                                 *)
Config ==
    [crypto : BOOLEAN,               \* group is in WEEKEND_OPEN_GROUPS
     weekend_open : BOOLEAN,
     all_hours : BOOLEAN,            \* system.trade_all_hours
     use_sessions : BOOLEAN,
     windows : SUBSET [start : 0 .. DayLen - 1, end : 0 .. DayLen - 1,
                       days : {None} \union SUBSET Days],
     trade_days : SUBSET Days,
     blocked : SUBSET (0 .. 23),     \* blocked_entry_hours
     flat : 0 .. DayLen,             \* flat_before_close_min
     day_end : 0 .. DayLen]          \* system.day_end_flatten_min

ASSUME ConfigsAssumption == Configs \subseteq Config

VARIABLES
    cfg,        \* the configuration of this week
    now,        \* the broker's minute of the week
    position,   \* "none", "held", or "closing" once a forced close is owed
    left        \* the windows that were running when a session flatten closed

clockVars == <<cfg, now, position, left>>

-----------------------------------------------------------------------------
(* The clock and the windows both sides read.                              *)

DayOf(t) == t \div DayLen + 1
MinuteOf(t) == t % DayLen
PrevDay(d) == IF d = 1 THEN 7 ELSE d - 1

(* SymbolConfig.session_windows drops a window that starts where it ends.  *)
Windows(c) == {w \in c.windows : w.start # w.end}

DaysOf(c, w) ==
    IF w.days = None
    THEN IF c.trade_days = {} THEN 1 .. 5 ELSE c.trade_days
    ELSE w.days

Overnight(w) == w.start > w.end

Evening(c, w, t) ==
    /\ MinuteOf(t) >= w.start
    /\ DayOf(t) \in DaysOf(c, w)
    /\ Overnight(w) \/ MinuteOf(t) < w.end

Morning(c, w, t) ==
    /\ Overnight(w)
    /\ MinuteOf(t) < w.end
    /\ PrevDay(DayOf(t)) \in DaysOf(c, w)

OpenWindows(c, t) == {w \in Windows(c) : Evening(c, w, t) \/ Morning(c, w, t)}

-----------------------------------------------------------------------------
(* The live side: sessions.evaluate and the two forced flattens.           *)

WeekendExempt(c) == c.weekend_open \/ c.crypto

WeekendClosed(c, t) == ~WeekendExempt(c) /\ DayOf(t) >= Saturday

(* Minutes left of a running window, counted over midnight in its evening. *)
Remaining(c, w, t) ==
    IF Overnight(w) /\ Evening(c, w, t)
    THEN w.end + DayLen - MinuteOf(t)
    ELSE w.end - MinuteOf(t)

(* Mutated form of MinutesToClose: the first window to expire. *)
MinutesToCloseFirst(c, t) == Min({Remaining(c, w, t) : w \in OpenWindows(c, t)})

(* The last window to expire, not the first. *)
MinutesToClose(c, t) == Max({Remaining(c, w, t) : w \in OpenWindows(c, t)})

BlockedHour(c, t) == (MinuteOf(t) \div Hour) \in c.blocked

InWinddown(c, t) ==
    /\ ~WeekendExempt(c)
    /\ DayOf(t) = 5
    /\ MinuteOf(t) >= DayLen - Winddown

Windowed(c) == c.use_sessions /\ Windows(c) # {}

(* What evaluate decides before the two entry refusals. *)
InSession(c, all_hours, t) ==
    \/ all_hours
    \/ ~all_hours /\ ~Windowed(c) /\ DayOf(t) \in c.trade_days
    \/ ~all_hours /\ Windowed(c) /\ OpenWindows(c, t) # {}

LiveOpen(c, all_hours, t) ==
    /\ ~WeekendClosed(c, t)
    /\ InSession(c, all_hours, t)
    /\ ~BlockedHour(c, t)
    /\ ~InWinddown(c, t)

(* Mutated form of ShouldFlatten: the band's own edge is left out. *)
ShouldFlattenLate(c, t) ==
    /\ c.flat > 0
    /\ ~c.all_hours
    /\ LiveOpen(c, FALSE, t)
    /\ Windowed(c)
    /\ MinutesToClose(c, t) < c.flat

(* sessions.should_flatten; evaluate is asked without the all-hours flag.  *)
ShouldFlatten(c, t) ==
    /\ c.flat > 0
    /\ ~c.all_hours
    /\ LiveOpen(c, FALSE, t)
    /\ Windowed(c)
    /\ MinutesToClose(c, t) <= c.flat

DayEndClose(c, t) == c.day_end > 0 /\ MinuteOf(t) >= DayLen - c.day_end

(* A new entry passes the session gate and both wind-downs. *)
LiveEntry(c, t) ==
    LiveOpen(c, c.all_hours, t) /\ ~ShouldFlatten(c, t) /\ ~DayEndClose(c, t)

LiveFlatten(c, t) ==
    WeekendClosed(c, t) \/ ShouldFlatten(c, t) \/ DayEndClose(c, t)

-----------------------------------------------------------------------------
(* The replay side: backtest.session_mask and backtest.flatten_mask.       *)

Weekend(t) == DayOf(t) \in {Saturday, Sunday}

(* _drop_blocked_entry_hours *)
Dropped(c, t) == BlockedHour(c, t) \/ InWinddown(c, t)

(* One window of session_mask: the band before its close is cut off, in a  *)
(* window over midnight from its morning half only.                        *)
InMask(c, w, t) ==
    IF Overnight(w)
    THEN \/ Evening(c, w, t)
         \/ Morning(c, w, t) /\ MinuteOf(t) < w.end - c.flat
    ELSE Evening(c, w, t) /\ MinuteOf(t) < w.end - c.flat

(* Mutated form of ReplayOpen: all-hours trading is not known to the       *)
(* replay, as before the flag was mirrored.                                *)
ReplayOpenWindows(c, t) ==
    /\ ~Dropped(c, t)
    /\ \/ ~Windowed(c) /\ DayOf(t) \in c.trade_days
       \/ Windowed(c) /\ \E w \in Windows(c) : InMask(c, w, t)

ReplayOpen(c, t) ==
    /\ ~Dropped(c, t)
    /\ \/ c.all_hours /\ (c.crypto \/ ~Weekend(t))
       \/ /\ ~c.all_hours
          /\ ~Windowed(c)
          /\ DayOf(t) \in (IF c.trade_days = {} THEN 1 .. 5 ELSE c.trade_days)
       \/ /\ ~c.all_hours
          /\ Windowed(c)
          /\ \E w \in Windows(c) : InMask(c, w, t)

(* The last bar before the weekend: the feed has no bar on either day.     *)
BeforeWeekend(t) == DayOf(t) = 5 /\ MinuteOf(t) = DayLen - 1

ReplayFlatten(c, t) ==
    \/ ~c.crypto /\ (Weekend(t) \/ BeforeWeekend(t))
    \/ DayEndClose(c, t)
    \/ /\ ~c.all_hours
       /\ c.use_sessions
       /\ c.flat > 0
       /\ \E w \in Windows(c) :
              /\ IF Overnight(w) THEN Morning(c, w, t) ELSE Evening(c, w, t)
              /\ MinuteOf(t) >= w.end - c.flat

-----------------------------------------------------------------------------
ClockTypeOK ==
    /\ cfg \in Config
    /\ now \in 0 .. Week - 1
    /\ position \in {"none", "held", "closing"}
    /\ left \subseteq cfg.windows

ClockInit ==
    /\ cfg \in Configs
    /\ now \in {0, 4 * DayLen}
    /\ position = "none"
    /\ left = {}

(* The broker closes nothing while its market is shut. *)
MarketOpen(c, t) == WeekendExempt(c) \/ ~Weekend(t)

(* A forced close falls due: the ticket is marked, and stays marked. *)
Flag ==
    /\ position = "held"
    /\ LiveFlatten(cfg, now)
    /\ position' = "closing"
    /\ UNCHANGED <<cfg, now, left>>

(* A marked position is closed, when the broker takes the order. *)
Close ==
    /\ position = "closing"
    /\ MarketOpen(cfg, now)
    /\ position' = "none"
    /\ left' = IF ShouldFlatten(cfg, now) THEN OpenWindows(cfg, now) ELSE {}
    /\ UNCHANGED <<cfg, now>>

(* A signal is entered. *)
Enter ==
    /\ position = "none"
    /\ LiveEntry(cfg, now)
    /\ position' = "held"
    /\ left' = {}
    /\ UNCHANGED <<cfg, now>>

(* A stop or a take profit ends the position. *)
Exit ==
    /\ position # "none"
    /\ MarketOpen(cfg, now)
    /\ position' = "none"
    /\ left' = {}
    /\ UNCHANGED <<cfg, now>>

(* The minute ends; the passes of that minute have marked what they had to *)
(* mark, whatever the broker answered.                                     *)
Tick ==
    /\ ~(position = "held" /\ LiveFlatten(cfg, now))
    /\ now' = (now + 1) % Week
    /\ left' = left \intersect OpenWindows(cfg, now')
    /\ UNCHANGED <<cfg, position>>

ClockNext == Flag \/ Close \/ Enter \/ Exit \/ Tick

ClockSpec == ClockInit /\ [][ClockNext]_clockVars

-----------------------------------------------------------------------------
(* The search has scored every minute the engine may open a position in:   *)
(* what evaluate and both wind-downs admit, session_mask admits too.  A    *)
(* symbol marked weekend_open under trade_all_hours is left out: the       *)
(* replay has no such mark.                                                *)
EntriesScored ==
    LiveEntry(cfg, now) /\ ~(cfg.weekend_open /\ cfg.all_hours)
        => ReplayOpen(cfg, now)

(* No flatten and re-entry from a configuration that asked for neither:    *)
(* after should_flatten has closed a position, nothing is opened again     *)
(* while one of the windows that ran at the close is still running.        *)
NoReentry ==
    [][position = "none" /\ position' = "held" => left = {}]_clockVars

(* With flat_before_close_min set, no position is carried past the close   *)
(* of its last window without a forced close owed, unless an entry refusal *)
(* (blocked hours, the Friday wind-down) hides that close from             *)
(* should_flatten.                                                         *)
FlatBeforeClose ==
    [][ /\ cfg.flat > 0 /\ ~cfg.all_hours /\ Windowed(cfg)
        /\ OpenWindows(cfg, now) # {} /\ OpenWindows(cfg, now') = {}
        /\ ~BlockedHour(cfg, now) /\ ~InWinddown(cfg, now)
        => position' # "held" ]_clockVars

(* What flatten_mask is written for: where the engine force-closes a       *)
(* position, the replay closes it as well, so that the replay cannot ride  *)
(* through a minute the engine does not.                                   *)
FlattensScored == LiveFlatten(cfg, now) => ReplayFlatten(cfg, now)

=============================================================================
