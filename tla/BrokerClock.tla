---------------------------- MODULE BrokerClock ----------------------------
(***************************************************************************)
(* The broker's clock (micofx/mt5client.py).  MetaTrader5 has no call for  *)
(* the server's time: the newest stamp on any quote of the book is all     *)
(* there is, and it stands still while the market is shut.  decision_now   *)
(* hands it to the session windows and to the day's turn only while it     *)
(* reads as a clock that runs.                                             *)
(*                                                                         *)
(* Time is counted in units of the machine's own clock.  The broker's      *)
(* clock runs ahead of it by the whole hours of its time zone; another     *)
(* broker, met on a later attach, may be in another zone.                  *)
(***************************************************************************)
EXTENDS Integers, FiniteSets

CONSTANTS
    Quoted,      \* the symbols of the book
    MinWindow,   \* BROKER_CLOCK_MIN_WINDOW_SEC
    Recent,      \* BROKER_CLOCK_RECENT_ADVANCE_SEC
    MinGain,     \* BROKER_CLOCK_MIN_GAIN_SEC
    MaxAge,      \* DECISION_CLOCK_MAX_AGE_SEC
    Zones,       \* whole hours of a broker's zone, in units
    Lag,         \* while the market runs, its newest quote is at most this old
    MaxTime,     \* bound: units of machine time
    Unread       \* no stamp, no anchor, no decision

ASSUME WindowAssumption ==
    /\ MinWindow \in Nat \ {0} /\ Recent \in Nat /\ MinGain \in Nat \ {0}
    /\ MaxAge \in Nat /\ Lag \in Nat /\ MaxTime \in Nat
    /\ MinWindow <= MaxAge

ASSUME ZoneAssumption == Zones \subseteq Nat /\ Zones # {} /\ Unread \notin Int

VARIABLES
    machine,     \* time.time()
    zone,        \* the zone of the broker this process is attached to
    shut,        \* the market is shut: no quote moves
    stamp,       \* per symbol: machine time of its newest quote
    yardstick,   \* _broker_now, with _broker_seen_at and _broker_anchor
    polled,      \* the engine's cycle has read the book as it stands
    awake        \* a running market has been polled since the attach

brokerVars == <<machine, zone, shut, stamp, yardstick, polled, awake>>

BrokerTime(t) == t + zone

-----------------------------------------------------------------------------
(* The yardstick: the newest stamp read since the attach, the machine's    *)
(* time when it last advanced, and the first pair of both.                 *)
NoStamp == [now |-> Unread, seen |-> Unread, at |-> Unread, first |-> Unread]

(* BROKER_CLOCK_MIN_RATE is a fifth; the slow feed's share of it 0.35.     *)
Paced(gain, span) == 5 * gain >= span

PacedSlowly(gain, span) == 100 * gain >= 7 * span

(* _clock_is_running *)
Running(y, t) ==
    LET span == t - y.at
        gain == y.now - y.first
    IN  /\ y.at # Unread
        /\ span >= MinWindow
        /\ \/ Paced(gain, span)
           \/ /\ t - y.seen <= Recent
              /\ gain >= MinGain
              /\ PacedSlowly(gain, span)

(* Mutated form of Aged: measured from the first stamp of the attach.      *)
AgedSinceFirst(y, t) == t - y.at

(* broker_now_age: since the yardstick last advanced.                      *)
Aged(y, t) == t - y.seen

(* decision_now *)
Decision ==
    IF Running(yardstick, machine) /\ Aged(yardstick, machine) <= MaxAge
    THEN yardstick.now
    ELSE Unread

BrokerTypeOK ==
    /\ machine \in 0 .. MaxTime
    /\ zone \in Zones
    /\ shut \in BOOLEAN /\ polled \in BOOLEAN /\ awake \in BOOLEAN
    /\ stamp \in [Quoted -> Int]
    /\ \/ yardstick = NoStamp
       \/ yardstick \in [now : Int, seen : Int, at : Int, first : Int]

-----------------------------------------------------------------------------
(* Some quote of a running market is never older than Lag.                 *)
Alive(quotes, t) == \E s \in Quoted : quotes[s] >= t - Lag

BrokerInit ==
    /\ machine = 0
    /\ zone \in Zones
    /\ shut \in BOOLEAN
    /\ stamp \in [Quoted -> -Lag .. 0] /\ Alive(stamp, 0)
    /\ yardstick = NoStamp /\ polled = FALSE /\ awake = FALSE

(* Time passes, and in a running market each symbol is quoted or is not.   *)
(* A cycle of the engine is shorter than a unit of time.                   *)
Passes ==
    /\ polled /\ machine < MaxTime
    /\ machine' = machine + 1
    /\ polled' = FALSE
    /\ IF shut
       THEN UNCHANGED stamp
       ELSE /\ \E moved \in SUBSET Quoted :
                 stamp' = [s \in Quoted |->
                              IF s \in moved THEN machine' ELSE stamp[s]]
            /\ Alive(stamp', machine')
    /\ UNCHANGED <<zone, shut, yardstick, awake>>

Shuts == ~shut /\ shut' = TRUE
         /\ UNCHANGED <<machine, zone, stamp, yardstick, polled, awake>>

(* The first quotes of a market that opens are new ones.                   *)
Opens ==
    /\ shut /\ shut' = FALSE
    /\ \E moved \in (SUBSET Quoted) \ {{}} :
         stamp' = [s \in Quoted |-> IF s \in moved THEN machine ELSE stamp[s]]
    /\ polled' = FALSE
    /\ UNCHANGED <<machine, zone, yardstick, awake>>

(* tick: the newest stamp becomes the yardstick, and the first one of an   *)
(* attach its anchor.                                                      *)
Reads(y, t, quote) ==
    IF y.now # Unread /\ quote <= y.now
    THEN y
    ELSE [now |-> quote, seen |-> t,
          at |-> IF y.at = Unread THEN t ELSE y.at,
          first |-> IF y.first = Unread THEN quote ELSE y.first]

(* The cycle reads every symbol (_probe_book_ticks), one after another.    *)
Polls ==
    /\ \E first, newest \in Quoted :
         /\ \A s \in Quoted : stamp[s] <= stamp[newest]
         /\ yardstick' = Reads(Reads(yardstick, machine, BrokerTime(stamp[first])),
                               machine, BrokerTime(stamp[newest]))
    /\ polled' = TRUE
    /\ awake' = (awake \/ ~shut)
    /\ UNCHANGED <<machine, zone, shut, stamp>>

(* A quote read apart from the cycle: a gate of an entry, the panel.       *)
Glances(s) ==
    /\ yardstick' = Reads(yardstick, machine, BrokerTime(stamp[s]))
    /\ UNCHANGED <<machine, zone, shut, stamp, polled, awake>>

(* Mutated form of Attached: the old broker's yardstick is carried over.   *)
AttachedKeepingClock(z) ==
    /\ zone' = z
    /\ polled' = FALSE /\ awake' = FALSE
    /\ UNCHANGED <<machine, shut, stamp, yardstick>>

(* _after_connect: a fresh attach, to the same broker or to another, and   *)
(* a fresh process.                                                        *)
Attached(z) ==
    /\ zone' = z
    /\ yardstick' = NoStamp /\ polled' = FALSE /\ awake' = FALSE
    /\ UNCHANGED <<machine, shut, stamp>>

BrokerNext ==
    \/ Passes
    \/ Shuts
    \/ Opens
    \/ Polls
    \/ \E s \in Quoted : Glances(s)
    \/ \E z \in Zones : Attached(z)

BrokerSpec == BrokerInit /\ [][BrokerNext]_brokerVars

-----------------------------------------------------------------------------
(* Properties.                                                             *)

(* A decision is never taken on an old clock: once a running market was    *)
(* read in this attach, what decision_now answers is the broker's time up  *)
(* to its own limit and the quiet of a running market, whatever shut,      *)
(* opened and was read meanwhile, in whichever zone.                       *)
DecisionFresh ==
    awake /\ Decision # Unread =>
        /\ Decision <= BrokerTime(machine)
        /\ BrokerTime(machine) - Decision <= MaxAge + Lag

(* A shut market does not lock the clock away for good: a running market   *)
(* that was read answers as soon as it has been watched for the window,    *)
(* however long it had stood and whichever broker was attached before.     *)
ClockAnswers ==
    ~shut /\ awake /\ polled /\ machine - yardstick.at >= MinWindow + Lag
        => Decision # Unread

(* What the module says of a market that is shut: a book that was frozen   *)
(* before this process attached does not read as a running clock.          *)
ShutClockSilent == shut /\ ~awake => Decision = Unread
=============================================================================
