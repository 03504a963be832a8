-------------------------- MODULE Portfolio_proofs --------------------------
(***************************************************************************)
(* What the program takes from the terminal and its clock.  The decision   *)
(* clock (BrokerClock) is fresh, and answers while the market runs, for    *)
(* every book, zone and age; the bot (BrokerLink) trades on the terminal   *)
(* it was given, and waits out the pipe of one boot once, for every set of *)
(* installs and every number of boots and attaches; on that clock, for     *)
(* every set of configurations and every length of the hour, the search    *)
(* has scored each minute an entry is admitted in, and a window that was   *)
(* flattened is not entered again (SessionClock).  Whose magic is whose,   *)
(* for every number of symbols, numbers and deals, and every shipped       *)
(* preset (SymbolBook).                                                    *)
(***************************************************************************)
EXTENDS BrokerClock, BrokerLink, SessionClock, SymbolBook, FiniteFacts

-----------------------------------------------------------------------------
(* The clock.                                                              *)

Yardsticks == [now : Int, seen : Int, at : Int, first : Int]

ClockShape ==
    /\ machine \in Int /\ zone \in Int
    /\ shut \in BOOLEAN /\ polled \in BOOLEAN /\ awake \in BOOLEAN
    /\ stamp \in [Quoted -> Int]
    /\ yardstick \in Yardsticks \cup {NoStamp}

(* The quotes of a book: none from the future, and one that is recent      *)
(* while the market runs.                                                  *)
QuotesInv ==
    /\ \A s \in Quoted : stamp[s] <= machine
    /\ ~shut => Alive(stamp, machine)

(* The yardstick is a time of this broker that has passed.                 *)
Past(y) ==
    /\ y.seen <= machine
    /\ y.now <= y.seen + zone
    /\ y.first <= y.at + zone

(* It stood still for no longer than a running market may be silent; and   *)
(* what it has not caught up with came in this very unit of time, so that  *)
(* no quote of a market that shut long ago can pass for an advance.        *)
Current(y) ==
    /\ y.seen + zone <= y.now + Lag
    /\ \A s \in Quoted : stamp[s] + zone > y.now => stamp[s] = machine

ReadInv == yardstick # NoStamp => Past(yardstick)

(* A cycle that is through has read the newest quote.                      *)
PolledInv ==
    polled => /\ yardstick # NoStamp
              /\ \A s \in Quoted : stamp[s] + zone <= yardstick.now

AwakeInv == awake => yardstick # NoStamp /\ Current(yardstick)

ClockInv == ClockShape /\ QuotesInv /\ ReadInv /\ PolledInv /\ AwakeInv

-----------------------------------------------------------------------------
LEMMA ZonesAreTimes == Zones \subseteq Int /\ Unread \notin Int /\ Lag \in Int /\ Lag >= 0
  BY WindowAssumption, ZoneAssumption

(* tick: the yardstick moves to a quote that is newer, and stays for one   *)
(* that is not.                                                            *)
LEMMA ReadsNewest ==
  ASSUME NEW y \in Yardsticks \cup {NoStamp}, NEW t \in Int, NEW quote \in Int
  PROVE  /\ Reads(y, t, quote) \in Yardsticks
         /\ Reads(y, t, quote) # NoStamp
         /\ quote <= Reads(y, t, quote).now
         /\ \/ /\ y # NoStamp /\ Reads(y, t, quote) = y
            \/ /\ y # NoStamp /\ quote > y.now
               /\ Reads(y, t, quote) = [now |-> quote, seen |-> t, at |-> y.at, first |-> y.first]
            \/ /\ y = NoStamp
               /\ Reads(y, t, quote) = [now |-> quote, seen |-> t, at |-> t, first |-> quote]
<1>1. CASE y = NoStamp
  <2>1. Reads(y, t, quote) = [now |-> quote, seen |-> t, at |-> t, first |-> quote]
    BY <1>1 DEF Reads, NoStamp
  <2> QED
    BY <1>1, <2>1, ZonesAreTimes DEF Yardsticks, NoStamp
<1>2. CASE y \in Yardsticks /\ quote <= y.now
  <2>1. y.now # Unread /\ y # NoStamp
    BY <1>2, ZonesAreTimes DEF Yardsticks, NoStamp
  <2>2. Reads(y, t, quote) = y
    BY <1>2, <2>1 DEF Reads
  <2> QED
    BY <1>2, <2>1, <2>2
<1>3. CASE y \in Yardsticks /\ ~(quote <= y.now)
  <2>1. y.at # Unread /\ y.first # Unread /\ y # NoStamp
    BY <1>3, ZonesAreTimes DEF Yardsticks, NoStamp
  <2>2. Reads(y, t, quote) = [now |-> quote, seen |-> t, at |-> y.at, first |-> y.first]
    BY <1>3, <2>1 DEF Reads
  <2>3. quote > y.now
    BY <1>3 DEF Yardsticks
  <2> QED
    BY <1>3, <2>1, <2>2, <2>3, ZonesAreTimes DEF Yardsticks, NoStamp
<1> QED
  BY <1>1, <1>2, <1>3

(* What holds of the yardstick holds after one more quote of the book.     *)
LEMMA ReadKeeps ==
  ASSUME ClockShape, QuotesInv, NEW y \in Yardsticks \cup {NoStamp}, NEW s \in Quoted,
         y # NoStamp => Past(y)
  PROVE  /\ Reads(y, machine, BrokerTime(stamp[s])) \in Yardsticks
         /\ Reads(y, machine, BrokerTime(stamp[s])) # NoStamp
         /\ Past(Reads(y, machine, BrokerTime(stamp[s])))
         /\ stamp[s] + zone <= Reads(y, machine, BrokerTime(stamp[s])).now
         /\ y # NoStamp => y.now <= Reads(y, machine, BrokerTime(stamp[s])).now
         /\ y # NoStamp /\ Current(y) => Current(Reads(y, machine, BrokerTime(stamp[s])))
<1> DEFINE quote == BrokerTime(stamp[s])
           z == Reads(y, machine, quote)
<1>1. /\ machine \in Int /\ zone \in Int /\ stamp[s] \in Int /\ stamp[s] <= machine
      /\ quote = stamp[s] + zone /\ quote \in Int
      /\ \A r \in Quoted : stamp[r] \in Int
  BY DEF ClockShape, QuotesInv, BrokerTime
<1>2. /\ z \in Yardsticks /\ z # NoStamp /\ quote <= z.now
      /\ \/ y # NoStamp /\ z = y
         \/ /\ y # NoStamp /\ quote > y.now
            /\ z = [now |-> quote, seen |-> machine, at |-> y.at, first |-> y.first]
         \/ /\ y = NoStamp
            /\ z = [now |-> quote, seen |-> machine, at |-> machine, first |-> quote]
  BY <1>1, ReadsNewest
<1> HIDE DEF z
<1>3. CASE y # NoStamp /\ z = y
  <2>1. y.now <= z.now
    BY <1>3 DEF Yardsticks
  <2>2. Past(z) /\ (Current(y) => Current(z))
    BY <1>3
  <2> QED
    BY <1>1, <1>2, <2>1, <2>2 DEF z
<1>4. CASE /\ y # NoStamp /\ quote > y.now
           /\ z = [now |-> quote, seen |-> machine, at |-> y.at, first |-> y.first]
  <2>1. y \in Yardsticks /\ y.now \in Int
    BY <1>4 DEF Yardsticks
  <2>2. /\ z.now = quote /\ z.seen = machine /\ z.at = y.at /\ z.first = y.first
    BY <1>4
  <2>3. Past(z) /\ y.now <= z.now
    BY <1>1, <1>4, <2>1, <2>2 DEF Past
  <2>4. ASSUME Current(y)
        PROVE  Current(z)
    BY <1>1, <1>4, <2>1, <2>2, <2>4, ZonesAreTimes DEF Current
  <2> QED
    BY <1>1, <1>2, <2>3, <2>4 DEF z
<1>5. CASE /\ y = NoStamp
           /\ z = [now |-> quote, seen |-> machine, at |-> machine, first |-> quote]
  <2>1. Past(z)
    BY <1>1, <1>5 DEF Past
  <2> QED
    BY <1>1, <1>2, <1>5, <2>1 DEF z
<1> QED
  BY <1>2, <1>3, <1>4, <1>5

-----------------------------------------------------------------------------
LEMMA BrokerStarts == BrokerInit => ClockInv
<1> SUFFICES ASSUME BrokerInit
             PROVE  ClockInv
  OBVIOUS
<1>1. /\ machine \in Int /\ zone \in Int /\ shut \in BOOLEAN
      /\ yardstick = NoStamp /\ polled = FALSE /\ awake = FALSE
  BY ZonesAreTimes DEF BrokerInit
<1>4. polled \in BOOLEAN /\ awake \in BOOLEAN
  BY <1>1, Zenon
<1>2. stamp \in [Quoted -> Int] /\ \A s \in Quoted : stamp[s] <= machine
  BY ZonesAreTimes DEF BrokerInit
<1>3. Alive(stamp, machine)
  BY DEF BrokerInit
<1> QED
  BY <1>1, <1>2, <1>3, <1>4 DEF ClockInv, ClockShape, QuotesInv, ReadInv, PolledInv, AwakeInv

LEMMA PassesStep ==
  ASSUME ClockInv, Passes
  PROVE  ClockInv'
<1>1. /\ machine' = machine + 1 /\ polled /\ ~polled'
      /\ UNCHANGED <<zone, shut, yardstick, awake>>
      /\ machine \in Int /\ zone \in Int /\ yardstick \in Yardsticks \cup {NoStamp}
      /\ stamp \in [Quoted -> Int] /\ \A s \in Quoted : stamp[s] <= machine
  BY DEF Passes, ClockInv, ClockShape, QuotesInv
<1>2. stamp' \in [Quoted -> Int] /\ \A s \in Quoted : stamp'[s] \in {stamp[s], machine'}
  BY <1>1 DEF Passes
<1>3. ClockShape'
  <2>1. polled' \in BOOLEAN
    BY Zenon DEF Passes
  <2> QED
    BY <1>1, <1>2, <2>1 DEF ClockInv, ClockShape
<1>4. QuotesInv'
  <2>1. \A s \in Quoted : stamp'[s] <= machine'
    BY <1>1, <1>2
  <2>2. ~shut' => Alive(stamp', machine')
    BY <1>1 DEF Passes
  <2> QED
    BY <2>1, <2>2 DEF QuotesInv
<1>5. ReadInv'
  <2>1. ASSUME yardstick # NoStamp
        PROVE  Past(yardstick)'
    BY <1>1, <2>1 DEF ClockInv, ReadInv, Past, Yardsticks
  <2> QED
    BY <1>1, <2>1 DEF ReadInv
<1>6. AwakeInv'
  <2>1. ASSUME awake
        PROVE  yardstick # NoStamp /\ Current(yardstick)'
    <3>1. /\ yardstick # NoStamp /\ yardstick.seen + zone <= yardstick.now + Lag
          /\ \A s \in Quoted : stamp[s] + zone <= yardstick.now
      BY <1>1, <2>1 DEF ClockInv, AwakeInv, PolledInv, Current
    <3>2. yardstick.now \in Int
      BY <1>1, <3>1 DEF Yardsticks
    <3>3. \A s \in Quoted : stamp'[s] + zone > yardstick.now => stamp'[s] = machine'
      BY <1>1, <1>2, <3>1, <3>2
    <3> QED
      BY <1>1, <3>1, <3>3 DEF Current
  <2> QED
    BY <1>1, <2>1 DEF AwakeInv
<1> QED
  BY <1>1, <1>3, <1>4, <1>5, <1>6 DEF ClockInv, PolledInv

LEMMA OpensStep ==
  ASSUME ClockInv, Opens
  PROVE  ClockInv'
<1>1. /\ ~polled' /\ ~shut'
      /\ UNCHANGED <<machine, zone, yardstick, awake>>
      /\ machine \in Int /\ zone \in Int /\ yardstick \in Yardsticks \cup {NoStamp}
      /\ stamp \in [Quoted -> Int] /\ \A s \in Quoted : stamp[s] <= machine
  BY DEF Opens, ClockInv, ClockShape, QuotesInv
<1>2. PICK moved \in (SUBSET Quoted) \ {{}} :
         stamp' = [s \in Quoted |-> IF s \in moved THEN machine ELSE stamp[s]]
  BY DEF Opens
<1>3. ClockShape'
  <2>1. polled' \in BOOLEAN /\ shut' \in BOOLEAN
    BY Zenon DEF Opens
  <2> QED
    BY <1>1, <1>2, <2>1 DEF ClockInv, ClockShape
<1>4. QuotesInv'
  <2>1. PICK s \in Quoted : s \in moved
    BY <1>2
  <2>2. stamp'[s] >= machine' - Lag
    BY <1>1, <1>2, <2>1, ZonesAreTimes
  <2>3. \A r \in Quoted : stamp'[r] <= machine'
    BY <1>1, <1>2
  <2> QED
    BY <2>2, <2>3 DEF QuotesInv, Alive
<1>5. ReadInv'
  BY <1>1 DEF ClockInv, ReadInv, Past
<1>6. AwakeInv'
  <2>1. ASSUME awake, Current(yardstick)
        PROVE  Current(yardstick)'
    BY <1>1, <1>2, <2>1 DEF Current
  <2> QED
    BY <1>1, <2>1 DEF ClockInv, AwakeInv
<1> QED
  BY <1>1, <1>3, <1>4, <1>5, <1>6 DEF ClockInv, PolledInv

LEMMA GlancesStep ==
  ASSUME ClockInv, NEW s \in Quoted, Glances(s)
  PROVE  ClockInv'
<1>1. /\ UNCHANGED <<machine, zone, shut, stamp, polled, awake>>
      /\ yardstick' = Reads(yardstick, machine, BrokerTime(stamp[s]))
      /\ yardstick \in Yardsticks \cup {NoStamp}
      /\ yardstick # NoStamp => Past(yardstick)
  BY DEF Glances, ClockInv, ClockShape, ReadInv
<1>2. /\ yardstick' \in Yardsticks /\ yardstick' # NoStamp /\ Past(yardstick')
      /\ yardstick # NoStamp => yardstick.now <= yardstick'.now
      /\ yardstick # NoStamp /\ Current(yardstick) => Current(yardstick')
  BY <1>1, ReadKeeps DEF ClockInv
<1>3. ClockShape' /\ QuotesInv'
  BY <1>1, <1>2 DEF ClockInv, ClockShape, QuotesInv, Alive
<1>4. ReadInv'
  BY <1>1, <1>2 DEF ReadInv, Past
<1>5. PolledInv'
  <2>1. ASSUME polled
        PROVE  \A r \in Quoted : stamp[r] + zone <= yardstick'.now
    BY <1>1, <1>2, <2>1 DEF ClockInv, PolledInv, ClockShape, Yardsticks
  <2> QED
    BY <1>1, <1>2, <2>1 DEF PolledInv
<1>6. AwakeInv'
  BY <1>1, <1>2 DEF ClockInv, AwakeInv, Current
<1> QED
  BY <1>3, <1>4, <1>5, <1>6 DEF ClockInv

LEMMA PollsStep ==
  ASSUME ClockInv, Polls
  PROVE  ClockInv'
<1>1. PICK first \in Quoted, newest \in Quoted :
         /\ \A s \in Quoted : stamp[s] <= stamp[newest]
         /\ yardstick' = Reads(Reads(yardstick, machine, BrokerTime(stamp[first])),
                               machine, BrokerTime(stamp[newest]))
  BY DEF Polls
<1> DEFINE y == Reads(yardstick, machine, BrokerTime(stamp[first]))
<1>2. /\ UNCHANGED <<machine, zone, shut, stamp>> /\ polled' = TRUE
      /\ awake' = (awake \/ ~shut)
      /\ yardstick \in Yardsticks \cup {NoStamp}
      /\ yardstick # NoStamp => Past(yardstick)
  BY DEF Polls, ClockInv, ClockShape, ReadInv
<1>3. /\ y \in Yardsticks /\ y # NoStamp /\ Past(y)
      /\ yardstick # NoStamp /\ Current(yardstick) => Current(y)
  BY <1>2, ReadKeeps DEF ClockInv
<1>4. yardstick' = Reads(y, machine, BrokerTime(stamp[newest]))
  BY <1>1
<1> HIDE DEF y
<1>5. /\ yardstick' \in Yardsticks /\ yardstick' # NoStamp /\ Past(yardstick')
      /\ stamp[newest] + zone <= yardstick'.now
      /\ Current(y) => Current(yardstick')
  BY <1>3, <1>4, ReadKeeps DEF ClockInv
<1>6. /\ machine \in Int /\ zone \in Int /\ \A s \in Quoted : stamp[s] \in Int
      /\ yardstick'.now \in Int /\ yardstick'.seen \in Int
  BY <1>5 DEF ClockInv, ClockShape, Yardsticks
<1>7. \A s \in Quoted : stamp[s] + zone <= yardstick'.now
  BY <1>1, <1>5, <1>6
<1>8. ClockShape' /\ QuotesInv'
  <2>1. awake' \in BOOLEAN
    BY <1>2, Zenon
  <2>2. QuotesInv'
    BY <1>2 DEF ClockInv, QuotesInv, Alive
  <2> QED
    BY <1>2, <1>5, <2>1, <2>2 DEF ClockInv, ClockShape
<1>9. ReadInv' /\ PolledInv'
  BY <1>2, <1>5, <1>7 DEF ReadInv, PolledInv, Past
<1>10. AwakeInv'
  <2>1. CASE awake
    BY <1>2, <1>3, <1>5, <2>1 DEF ClockInv, AwakeInv, Current
  <2>2. CASE ~shut
    <3>1. PICK s \in Quoted : stamp[s] >= machine - Lag
      BY <2>2 DEF ClockInv, QuotesInv, Alive
    <3>2. yardstick'.seen + zone <= yardstick'.now + Lag
      BY <1>5, <1>6, <1>7, <3>1, ZonesAreTimes DEF Past
    <3>3. \A r \in Quoted : ~(stamp[r] + zone > yardstick'.now)
      BY <1>6, <1>7
    <3> QED
      BY <1>2, <1>5, <3>2, <3>3 DEF AwakeInv, Current
  <2>3. CASE ~awake /\ shut
    BY <1>2, <2>3 DEF AwakeInv
  <2> QED
    BY <2>1, <2>2, <2>3
<1> QED
  BY <1>8, <1>9, <1>10 DEF ClockInv

LEMMA AttachedStep ==
  ASSUME ClockInv, NEW z \in Zones, Attached(z)
  PROVE  ClockInv'
<1>1. zone' \in Int
  BY ZonesAreTimes DEF Attached
<1>2. ClockShape' /\ QuotesInv'
  BY <1>1 DEF Attached, ClockInv, ClockShape, QuotesInv, Alive
<1>3. ReadInv' /\ PolledInv' /\ AwakeInv'
  BY DEF Attached, ReadInv, PolledInv, AwakeInv
<1> QED
  BY <1>2, <1>3 DEF ClockInv

LEMMA ShutsStep ==
  ASSUME ClockInv, Shuts \/ UNCHANGED brokerVars
  PROVE  ClockInv'
<1>1. UNCHANGED <<machine, zone, stamp, yardstick, polled, awake>>
  BY DEF Shuts, brokerVars
<1>2. shut' \in BOOLEAN
  BY Zenon DEF Shuts, brokerVars, ClockInv, ClockShape
<1>3. ~shut' => ~shut
  BY DEF Shuts, brokerVars
<1> QED
  BY <1>1, <1>2, <1>3 DEF ClockInv, ClockShape, QuotesInv, Alive, ReadInv, Past, PolledInv, AwakeInv, Current

LEMMA BrokerStep == ClockInv /\ [BrokerNext]_brokerVars => ClockInv'
<1> SUFFICES ASSUME ClockInv, [BrokerNext]_brokerVars
             PROVE  ClockInv'
  OBVIOUS
<1>1. CASE Passes
  BY <1>1, PassesStep
<1>2. CASE Shuts \/ UNCHANGED brokerVars
  BY <1>2, ShutsStep
<1>3. CASE Opens
  BY <1>3, OpensStep
<1>4. CASE Polls
  BY <1>4, PollsStep
<1>5. CASE \E s \in Quoted : Glances(s)
  BY <1>5, GlancesStep
<1>6. CASE \E z \in Zones : Attached(z)
  BY <1>6, AttachedStep
<1> QED
  BY <1>1, <1>2, <1>3, <1>4, <1>5, <1>6 DEF BrokerNext

(* The yardstick is a past time of this broker, a cycle that is through    *)
(* has read the newest quote, and the yardstick of a market that was seen  *)
(* to run stood for no longer than such a market is silent (tick and       *)
(* _after_connect).                                                        *)
THEOREM ClockKept == BrokerSpec => []ClockInv
  BY BrokerStarts, BrokerStep, PTL DEF BrokerSpec

(* What the clock and the book hold, for every zone and number of units.   *)
THEOREM BrokerTyped == BrokerSpec => []BrokerTypeOK
<1> DEFINE Within == machine \in 0 .. MaxTime /\ zone \in Zones
<1>1. BrokerInit => Within
  BY WindowAssumption DEF BrokerInit
<1>2. Within /\ [BrokerNext]_brokerVars => Within'
  <2> SUFFICES ASSUME Within, [BrokerNext]_brokerVars PROVE Within'
    OBVIOUS
  <2>1. CASE Passes
    BY <2>1, WindowAssumption DEF Passes
  <2>2. CASE UNCHANGED <<machine, zone>>
    BY <2>2
  <2>3. CASE \E z \in Zones : Attached(z)
    BY <2>3 DEF Attached
  <2> QED
    BY <2>1, <2>2, <2>3
    DEF BrokerNext, brokerVars, Shuts, Opens, Polls, Glances
<1>3. ClockInv /\ Within => BrokerTypeOK
  BY DEF ClockInv, ClockShape, Yardsticks, BrokerTypeOK
<1> HIDE DEF Within
<1>4. BrokerSpec => []Within
  BY <1>1, <1>2, PTL DEF BrokerSpec
<1> QED
  BY <1>3, <1>4, ClockKept, PTL

-----------------------------------------------------------------------------
(* decision_now never answers from an old clock, in whichever zone and     *)
(* however often the market opened, shut and was attached to.              *)
THEOREM DecisionIsFresh == BrokerSpec => []DecisionFresh
<1>1. ClockInv => DecisionFresh
  <2> SUFFICES ASSUME ClockInv, awake, Decision # Unread
               PROVE  /\ Decision <= BrokerTime(machine)
                      /\ BrokerTime(machine) - Decision <= MaxAge + Lag
    BY DEF DecisionFresh
  <2>1. Decision = yardstick.now /\ Aged(yardstick, machine) <= MaxAge
    BY DEF Decision
  <2>2. /\ machine \in Int /\ zone \in Int
        /\ yardstick.now \in Int /\ yardstick.seen \in Int
    BY DEF ClockInv, ClockShape, AwakeInv, Yardsticks
  <2>3. /\ yardstick.seen <= machine /\ yardstick.now <= yardstick.seen + zone
        /\ yardstick.seen + zone <= yardstick.now + Lag
    BY DEF ClockInv, ReadInv, AwakeInv, Past, Current
  <2> QED
    BY <2>1, <2>2, <2>3, WindowAssumption DEF Aged, BrokerTime
<1> QED
  BY <1>1, ClockKept, PTL

(* A running market that was watched for the window answers, as long as it *)
(* is never silent for longer than the age limit nor than four windows.    *)
THEOREM ClockDoesAnswer ==
  ASSUME Lag <= 4 * MinWindow, Lag <= MaxAge
  PROVE  BrokerSpec => []ClockAnswers
<1>1. ClockInv => ClockAnswers
  <2> SUFFICES ASSUME ClockInv, ~shut, awake, polled,
                      machine - yardstick.at >= MinWindow + Lag
               PROVE  Decision # Unread
    BY DEF ClockAnswers
  <2>1. /\ machine \in Int /\ zone \in Int /\ \A s \in Quoted : stamp[s] \in Int
        /\ yardstick.now \in Int /\ yardstick.seen \in Int
        /\ yardstick.at \in Int /\ yardstick.first \in Int
    BY DEF ClockInv, ClockShape, AwakeInv, Yardsticks
  <2>2. PICK s \in Quoted : stamp[s] >= machine - Lag
    BY DEF ClockInv, QuotesInv, Alive
  <2>3. /\ stamp[s] + zone <= yardstick.now
        /\ yardstick.now <= yardstick.seen + zone
        /\ yardstick.first <= yardstick.at + zone
    BY DEF ClockInv, PolledInv, AwakeInv, ReadInv, Past
  <2>4. MinWindow \in Int /\ Lag \in Int /\ MaxAge \in Int /\ Unread \notin Int
    BY WindowAssumption, ZoneAssumption
  <2>5. 5 * (yardstick.now - yardstick.first) >= machine - yardstick.at
    BY <2>1, <2>2, <2>3, <2>4
  <2>6. Running(yardstick, machine)
    BY <2>1, <2>4, <2>5, ZonesAreTimes DEF Running, Paced
  <2>7. Aged(yardstick, machine) <= MaxAge
    BY <2>1, <2>2, <2>3, <2>4 DEF Aged
  <2> QED
    BY <2>1, <2>4, <2>6, <2>7 DEF Decision
<1> QED
  BY <1>1, ClockKept, PTL

-----------------------------------------------------------------------------
(* The link.                                                               *)

Links == [on : BOOLEAN, at : Installs \union {Nobody}, latch : BootKeys, rested : BOOLEAN]
Boots == [of : Installs, boot : 1 .. MaxBoots]
Logs == [key : BootKeys, ready : BOOLEAN]
Waits == [Installs -> [1 .. MaxBoots -> Nat]]

TerminalShape ==
    /\ stage \in [Installs -> {"down", "booting", "lined", "synced"}]
    /\ boots \in [Installs -> 1 .. MaxBoots]
    /\ daylog \in [Installs -> Logs]

ClientShape ==
    /\ path \in Installs /\ link \in Links
    /\ epoch \in Nat /\ names \in [Instruments -> Nat]
    /\ reading # Nobody => reading.of \in Instruments /\ reading.epoch \in Nat
    /\ hangs \in Waits

LinkShape == TerminalShape /\ ClientShape

LEMMA KeysAreBoots ==
  /\ Boots \subseteq BootKeys /\ NoBoot \in BootKeys /\ DayOnly \in BootKeys
  /\ NoBoot \notin Boots
  /\ \A i \in Installs : i # Nobody
  BY LinkAssumption DEF BootKeys, Boots, NoBoot, DayOnly

(* One entry of a table of tables counts one more.                         *)
LEMMA OneMore ==
  ASSUME NEW S, NEW D, NEW f \in [S -> [D -> Nat]], NEW s \in S, NEW d \in D,
         NEW g, g = [f EXCEPT ![s][d] = @ + 1]
  PROVE  /\ g \in [S -> [D -> Nat]]
         /\ \A r \in S, e \in D :
               g[r][e] = IF r = s /\ e = d THEN f[s][d] + 1 ELSE f[r][e]
<1> DEFINE row == [f[s] EXCEPT ![d] = f[s][d] + 1]
<1>1. f[s] \in [D -> Nat]
  OBVIOUS
<1>2. f[s][d] \in Nat
  BY <1>1
<1>3. row \in [D -> Nat] /\ \A e \in D : row[e] = IF e = d THEN f[s][d] + 1 ELSE f[s][e]
  BY <1>1, <1>2
<1>4. g = [f EXCEPT ![s] = row]
  OBVIOUS
<1> HIDE DEF row
<1> QED
  BY <1>3, <1>4

LEMMA OneMoreWait ==
  ASSUME NEW f \in Waits, NEW s \in Installs, NEW d \in 1 .. MaxBoots
  PROVE  [f EXCEPT ![s][d] = @ + 1] \in Waits
<1>1. ASSUME NEW D, NEW e \in [Installs -> [D -> Nat]], NEW c \in D
      PROVE  [e EXCEPT ![s][c] = @ + 1] \in [Installs -> [D -> Nat]]
  BY <1>1, OneMore
<1> QED
  BY <1>1 DEF Waits

-----------------------------------------------------------------------------
(* What a step of a terminal does to the terminals.                        *)
LEMMA TerminalMoves ==
  ASSUME TerminalShape, NEW i \in Installs,
         Starts(i) \/ Announces(i) \/ Synchronizes(i) \/ TurnsDay(i) \/ Dies(i)
  PROVE  TerminalShape'
<1>1. CASE Starts(i)
  <2>1. boots[i] + 1 \in 1 .. MaxBoots
    BY <1>1, LinkAssumption DEF Starts, TerminalShape
  <2> QED
    BY <1>1, <2>1 DEF Starts, TerminalShape
<1>2. CASE Announces(i)
  <2>1. [key |-> [of |-> i, boot |-> boots[i]], ready |-> FALSE] \in Logs
    BY KeysAreBoots DEF Logs, Boots, TerminalShape
  <2> QED
    BY <1>2, <2>1 DEF Announces, TerminalShape
<1>3. CASE Synchronizes(i)
  <2>1. [daylog[i] EXCEPT !.ready = TRUE] \in Logs
    BY DEF Logs, TerminalShape
  <2>2. daylog' = [daylog EXCEPT ![i] = [daylog[i] EXCEPT !.ready = TRUE]]
    BY <1>3 DEF Synchronizes
  <2> QED
    BY <1>3, <2>1, <2>2 DEF Synchronizes, TerminalShape
<1>4. CASE TurnsDay(i)
  <2>1. [key |-> DayOnly, ready |-> TRUE] \in Logs
    BY KeysAreBoots DEF Logs
  <2> QED
    BY <1>4, <2>1 DEF TurnsDay, TerminalShape
<1>5. CASE Dies(i)
  BY <1>5 DEF Dies, TerminalShape
<1> QED
  BY <1>1, <1>2, <1>3, <1>4, <1>5

(* One call of connect on a link that is down: the link stays down, or an  *)
(* attach to the path forgets every name.                                  *)
LEMMA ConnectsShape ==
  ASSUME LinkShape, NEW l \in Links, NEW h \in Waits, Connects(l, h)
  PROVE  /\ link' \in Links /\ epoch' \in Nat
         /\ names' \in [Instruments -> Nat] /\ hangs' \in Waits
<1>1. CASE Refuses(l, h) \/ Fails(l, h)
  BY <1>1 DEF Refuses, Fails, LinkShape, ClientShape
<1>2. CASE Hangs(l, h)
  <2>1. /\ link' = [l EXCEPT !.latch = daylog[path].key] /\ UNCHANGED <<epoch, names>>
        /\ hangs' = Waited(h)
    BY <1>2 DEF Hangs
  <2>2. daylog[path].key \in BootKeys
    BY KeysAreBoots DEF LinkShape, TerminalShape, ClientShape, Logs
  <2>3. Waited(h) \in Waits
    <3>1. path \in Installs /\ boots[path] \in 1 .. MaxBoots
      BY DEF LinkShape, TerminalShape, ClientShape
    <3> QED
      BY <3>1, OneMoreWait DEF Waited
  <2> QED
    BY <2>1, <2>2, <2>3 DEF Links, LinkShape, ClientShape
<1>3. CASE Attaches(l, h)
  <2>1. /\ epoch' = epoch + 1 /\ names' = [s \in Instruments |-> 0] /\ hangs' = h
    BY <1>3 DEF Attaches, Takes
  <2>2. PICK i \in Installs : link' = [l EXCEPT !.on = TRUE, !.at = i, !.latch = NoBoot]
    BY <1>3 DEF Attaches, Takes
  <2>3. link' \in Links
    BY <2>2, KeysAreBoots DEF Links
  <2> QED
    BY <2>1, <2>3 DEF LinkShape, ClientShape
<1> QED
  BY <1>1, <1>2, <1>3 DEF Connects

LEMMA ForgivenShape == Forgiven \in Waits
  BY DEF Forgiven, Waits

LEMMA LinksOf ==
  ASSUME NEW l \in Links, l.on = FALSE
  PROVE  /\ [l EXCEPT !.rested = FALSE] \in Links
         /\ [l EXCEPT !.rested = FALSE].on = FALSE
         /\ [l EXCEPT !.rested = FALSE].latch = l.latch
         /\ [l EXCEPT !.latch = NoBoot, !.rested = TRUE] \in Links
         /\ [l EXCEPT !.latch = NoBoot, !.rested = TRUE].on = FALSE
  BY KeysAreBoots DEF Links

LEMMA DownIsLink ==
  ASSUME link \in Links
  PROVE  /\ Unlinked \in Links /\ Unlinked.on = FALSE /\ Unlinked.latch = link.latch
         /\ [link EXCEPT !.rested = TRUE] \in Links
         /\ [link EXCEPT !.rested = TRUE].on = link.on
         /\ [link EXCEPT !.rested = TRUE].at = link.at
         /\ [link EXCEPT !.rested = TRUE].latch = link.latch
  BY DEF Links, Unlinked

LEMMA ShapeInit == LinkInit => LinkShape
<1> SUFFICES ASSUME LinkInit
             PROVE  LinkShape
  OBVIOUS
<1>1. 1 \in 1 .. MaxBoots
  BY LinkAssumption
<1>2. \A i \in Installs : [key |-> [of |-> i, boot |-> 1], ready |-> TRUE] \in Logs
  BY <1>1, KeysAreBoots DEF Logs, Boots
<1>3. TerminalShape
  BY <1>1, <1>2 DEF LinkInit, TerminalShape
<1>4. [on |-> FALSE, at |-> Nobody, latch |-> NoBoot, rested |-> TRUE] \in Links
  BY KeysAreBoots DEF Links
<1>5. ClientShape
  BY <1>4 DEF LinkInit, ClientShape, Waits
<1> QED
  BY <1>3, <1>5 DEF LinkShape

LEMMA ShapeStep ==
  ASSUME LinkShape, [LinkNext]_linkVars
  PROVE  LinkShape'
<1> USE DEF LinkShape
<1>1. CASE \E i \in Installs : Terminal(i)
  <2>1. PICK i \in Installs : Terminal(i)
    BY <1>1
  <2>2. TerminalShape'
    BY <2>1, TerminalMoves DEF Terminal
  <2>3. ClientShape'
    BY <2>1 DEF Terminal, clientVars, ClientShape
  <2> QED
    BY <2>2, <2>3
<1>2. CASE EnsureRests \/ CoolsDown \/ AccountFails \/ Arms
  <2>1. UNCHANGED <<path, epoch, names, reading, hangs, stage, boots, daylog>>
    BY <1>2 DEF EnsureRests, CoolsDown, AccountFails, Arms, terminalVars
  <2>2. link' \in Links
    BY <1>2, DownIsLink DEF EnsureRests, CoolsDown, AccountFails, Arms, ClientShape
  <2> QED
    BY <2>1, <2>2 DEF TerminalShape, ClientShape
<1>3. CASE EnsureTries
  <2>1. Connects([Unlinked EXCEPT !.rested = FALSE], hangs)
    BY <1>3 DEF EnsureTries
  <2>2. ClientShape'
    <3>1. UNCHANGED <<path, reading>>
      BY <1>3 DEF EnsureTries
    <3> QED
      BY <2>1, <3>1, ConnectsShape, LinksOf, DownIsLink DEF ClientShape
  <2>3. TerminalShape'
    <3>1. CASE Starts(path)
      BY <3>1, TerminalMoves DEF ClientShape
    <3>2. CASE UNCHANGED terminalVars
      BY <3>2 DEF terminalVars, TerminalShape
    <3> QED
      BY <1>3, <3>1, <3>2 DEF EnsureTries
  <2> QED
    BY <2>2, <2>3
<1>4. CASE \E p \in Installs : SetsPath(p)
  BY <1>4 DEF SetsPath, terminalVars, TerminalShape, ClientShape
<1>5. CASE Reconnects
  <2>1. /\ Connects([Unlinked EXCEPT !.latch = NoBoot, !.rested = TRUE], Forgiven)
        /\ UNCHANGED <<path, reading, stage, boots, daylog>>
    BY <1>5 DEF Reconnects, terminalVars
  <2> QED
    BY <2>1, ConnectsShape, LinksOf, DownIsLink, ForgivenShape DEF TerminalShape, ClientShape
<1>6. CASE \E s \in Instruments : ResolveReads(s)
  <2>1. PICK s \in Instruments : reading' = [of |-> s, epoch |-> epoch]
    BY <1>6 DEF ResolveReads
  <2>2. UNCHANGED <<path, link, epoch, names, hangs, stage, boots, daylog>>
    BY <1>6 DEF ResolveReads, terminalVars
  <2> QED
    BY <2>1, <2>2 DEF TerminalShape, ClientShape
<1>7. CASE ResolveKeeps
  BY <1>7 DEF ResolveKeeps, terminalVars, TerminalShape, ClientShape
<1>8. CASE UNCHANGED linkVars
  BY <1>8 DEF linkVars, TerminalShape, ClientShape
<1> QED
  BY <1>1, <1>2, <1>3, <1>4, <1>5, <1>6, <1>7, <1>8 DEF LinkNext

-----------------------------------------------------------------------------
(* OwnTerminal: a link that is up is to the install of the path until the  *)
(* panel sets another one, and a name that is read but not yet written was *)
(* asked of this very attach.                                              *)
TerminalInv ==
    /\ link.on /\ ~moving => link.at = path
    /\ \A s \in Instruments : names[s] \in {0, epoch}
    /\ reading # Nobody => reading.epoch = epoch

LEMMA ConnectsToPath ==
  ASSUME ~MidRead, Alike = {}, LinkShape, TerminalInv, NEW l \in Links, l.on = FALSE, NEW h,
         Connects(l, h), UNCHANGED <<path, reading>>
  PROVE  /\ link'.on => link'.at = path'
         /\ \A s \in Instruments : names'[s] \in {0, epoch'}
         /\ reading' # Nobody => reading'.epoch = epoch'
<1>1. CASE Refuses(l, h) \/ Fails(l, h)
  BY <1>1 DEF Refuses, Fails, TerminalInv
<1>2. CASE Hangs(l, h)
  <2>1. link' = [l EXCEPT !.latch = daylog[path].key] /\ UNCHANGED <<epoch, names>>
    BY <1>2 DEF Hangs
  <2>2. link'.on = FALSE
    BY <2>1 DEF Links
  <2> QED
    BY <2>1, <2>2 DEF TerminalInv
<1>3. CASE Attaches(l, h)
  <2>1. PICK i \in Installs : /\ Compatible(path, i)
                              /\ link' = [l EXCEPT !.on = TRUE, !.at = i, !.latch = NoBoot]
    BY <1>3 DEF Attaches, Takes
  <2>2. i = path
    BY <2>1 DEF Compatible
  <2>3. names' = [s \in Instruments |-> 0] /\ reading = Nobody
    BY <1>3 DEF Attaches, Takes
  <2>4. link'.at = path
    BY <2>1, <2>2 DEF Links
  <2> QED
    BY <2>3, <2>4
<1> QED
  BY <1>1, <1>2, <1>3 DEF Connects

LEMMA TerminalStep ==
  ASSUME ~MidRead, Alike = {}, LinkShape, TerminalInv, [LinkNext]_linkVars
  PROVE  TerminalInv'
<1>1. CASE \E i \in Installs : Terminal(i)
  BY <1>1 DEF Terminal, clientVars, TerminalInv
<1>2. CASE EnsureRests \/ CoolsDown \/ AccountFails \/ Arms
  <2>1. UNCHANGED <<path, moving, epoch, names, reading>>
    BY <1>2 DEF EnsureRests, CoolsDown, AccountFails, Arms
  <2>2. link'.on => link.on /\ link'.at = link.at
    BY <1>2, DownIsLink DEF EnsureRests, CoolsDown, AccountFails, Arms, LinkShape, ClientShape,
                         Links
  <2> QED
    BY <2>1, <2>2 DEF TerminalInv
<1>3. CASE EnsureTries
  <2>1. /\ Connects([Unlinked EXCEPT !.rested = FALSE], hangs)
        /\ UNCHANGED <<path, reading>>
    BY <1>3 DEF EnsureTries
  <2>2. /\ [Unlinked EXCEPT !.rested = FALSE] \in Links
        /\ [Unlinked EXCEPT !.rested = FALSE].on = FALSE
    BY LinksOf, DownIsLink DEF LinkShape, ClientShape
  <2> QED
    BY <2>1, <2>2, ConnectsToPath DEF TerminalInv
<1>4. CASE \E p \in Installs : SetsPath(p)
  BY <1>4 DEF SetsPath, TerminalInv
<1>5. CASE Reconnects
  <2>1. /\ Connects([Unlinked EXCEPT !.latch = NoBoot, !.rested = TRUE], Forgiven)
        /\ UNCHANGED <<path, reading>>
    BY <1>5 DEF Reconnects
  <2>2. /\ [Unlinked EXCEPT !.latch = NoBoot, !.rested = TRUE] \in Links
        /\ [Unlinked EXCEPT !.latch = NoBoot, !.rested = TRUE].on = FALSE
    BY LinksOf, DownIsLink DEF LinkShape, ClientShape
  <2> QED
    BY <2>1, <2>2, ConnectsToPath DEF TerminalInv
<1>6. CASE \E s \in Instruments : ResolveReads(s)
  <2>1. reading'.epoch = epoch
    BY <1>6 DEF ResolveReads
  <2>2. UNCHANGED <<path, moving, link, epoch, names>>
    BY <1>6 DEF ResolveReads
  <2> QED
    BY <2>1, <2>2 DEF TerminalInv
<1>7. CASE ResolveKeeps
  <2>1. UNCHANGED <<path, moving, link, epoch>> /\ reading' = Nobody /\ reading # Nobody
    BY <1>7 DEF ResolveKeeps
  <2>2. names' = [names EXCEPT ![reading.of] = epoch]
    BY <1>7 DEF ResolveKeeps, TerminalInv
  <2>3. \A s \in Instruments : names'[s] \in {0, epoch}
    BY <2>2 DEF TerminalInv, LinkShape, ClientShape
  <2> QED
    BY <2>1, <2>3 DEF TerminalInv
<1>8. CASE UNCHANGED linkVars
  BY <1>8 DEF linkVars, TerminalInv
<1> QED
  BY <1>1, <1>2, <1>3, <1>4, <1>5, <1>6, <1>7, <1>8 DEF LinkNext

(* The bot trades on the configured terminal and under the names of this   *)
(* attach, whatever else runs, boots and dies, as long as no directory's   *)
(* name is part of another's path and no other thread attaches in the      *)
(* middle of a name's read (connect, _after_connect, resolve).             *)
THEOREM TradesOnOwnTerminal ==
  ASSUME Alike = {}, ~MidRead
  PROVE  LinkSpec => []OwnTerminal
<1>1. LinkInit => TerminalInv
  BY DEF LinkInit, TerminalInv
<1>2. LinkShape /\ TerminalInv /\ [LinkNext]_linkVars => (LinkShape /\ TerminalInv)'
  BY ShapeStep, TerminalStep
<1>3. TerminalInv => OwnTerminal
  BY DEF TerminalInv, OwnTerminal
<1> QED
  BY ShapeInit, <1>1, <1>2, <1>3, PTL DEF LinkSpec

-----------------------------------------------------------------------------
(* OneHangPerBoot.  What was waited of a boot, where the log names it: at  *)
(* most once, never of a boot to come or still without a line, and the     *)
(* boot of the configured terminal that was waited for is latched.         *)
Counted(h, l, p, st, bt, dl) ==
    /\ \A i \in Installs, b \in 1 .. MaxBoots : h[i][b] <= 1 /\ (b > bt[i] => h[i][b] = 0)
    /\ \A i \in Installs : st[i] = "booting" => h[i][bt[i]] = 0
    /\ st[p] # "booting" /\ h[p][bt[p]] # 0 => l.latch = dl[p].key
    /\ \A i \in Installs : dl[i].key \in Boots

(* No other terminal was waited for, once the panel's reconnect is through.*)
OthersZero(h, p) == \A i \in Installs, b \in 1 .. MaxBoots : i # p => h[i][b] = 0

HangInv ==
    /\ Counted(hangs, link, path, stage, boots, daylog)
    /\ ~moving => OthersZero(hangs, path)

LEMMA TerminalCounts ==
  ASSUME ~Midnight, TerminalShape, NEW i \in Installs, NEW h \in Waits, NEW l,
         NEW p \in Installs, Counted(h, l, p, stage, boots, daylog),
         Starts(i) \/ Announces(i) \/ Synchronizes(i) \/ TurnsDay(i) \/ Dies(i)
  PROVE  Counted(h, l, p, stage', boots', daylog')
<1>1. CASE Starts(i)
  <2>1. /\ stage' = [stage EXCEPT ![i] = "booting"]
        /\ boots' = [boots EXCEPT ![i] = boots[i] + 1] /\ daylog' = daylog
        /\ boots[i] \in 1 .. MaxBoots /\ boots[i] + 1 \in 1 .. MaxBoots
    BY <1>1, LinkAssumption DEF Starts, TerminalShape
  <2>2. \A j \in Installs : boots[j] \in Nat
    BY DEF TerminalShape
  <2> QED
    BY <2>1, <2>2 DEF Counted, TerminalShape
<1>2. CASE Announces(i)
  <2>1. /\ stage' = [stage EXCEPT ![i] = "lined"] /\ boots' = boots
        /\ daylog' = [daylog EXCEPT ![i] =
                          [key |-> [of |-> i, boot |-> boots[i]], ready |-> FALSE]]
        /\ stage[i] = "booting"
    BY <1>2 DEF Announces
  <2>2. [of |-> i, boot |-> boots[i]] \in Boots
    BY DEF Boots, TerminalShape
  <2>3. h[i][boots[i]] = 0
    BY <2>1 DEF Counted
  <2>4. \A j \in Installs : /\ j # i => daylog'[j] = daylog[j] /\ stage'[j] = stage[j]
                           /\ j = i => /\ daylog'[j].key = [of |-> i, boot |-> boots[i]]
                                       /\ stage'[j] = "lined"
    BY <2>1 DEF TerminalShape
  <2> QED
    BY <2>1, <2>2, <2>3, <2>4 DEF Counted
<1>3. CASE Synchronizes(i)
  <2>1. /\ stage' = [stage EXCEPT ![i] = "synced"] /\ boots' = boots
        /\ daylog' = [daylog EXCEPT ![i].ready = TRUE] /\ stage[i] = "lined"
    BY <1>3 DEF Synchronizes
  <2>2. \A j \in Installs : /\ daylog'[j].key = daylog[j].key
                           /\ stage'[j] = "booting" <=> stage[j] = "booting"
    BY <2>1 DEF TerminalShape, Logs
  <2> QED
    BY <2>1, <2>2 DEF Counted
<1>4. CASE TurnsDay(i)
  BY <1>4 DEF TurnsDay
<1>5. CASE Dies(i)
  <2>1. /\ stage' = [stage EXCEPT ![i] = "down"] /\ UNCHANGED <<boots, daylog>>
    BY <1>5 DEF Dies
  <2>2. \A j \in Installs : stage'[j] = "booting" => stage[j] = "booting"
    BY <2>1 DEF TerminalShape
  <2> QED
    BY <2>1, <2>2 DEF Counted
<1> QED
  BY <1>1, <1>2, <1>3, <1>4, <1>5

LEMMA ConnectsCounts ==
  ASSUME LinkShape, NEW l \in Links, NEW h \in Waits, Connects(l, h),
         Counted(h, l, path, stage, boots, daylog)
  PROVE  /\ Counted(hangs', link', path, stage, boots, daylog)
         /\ OthersZero(h, path) => OthersZero(hangs', path)
<1>1. CASE Refuses(l, h) \/ Fails(l, h)
  BY <1>1 DEF Refuses, Fails
<1> DEFINE key == daylog[path].key
<1>2. path \in Installs /\ boots[path] \in 1 .. MaxBoots /\ key \in Boots /\ key # NoBoot
  BY KeysAreBoots DEF LinkShape, TerminalShape, ClientShape, Counted
<1>3. MayInitialize(l) => h[path][boots[path]] = 0
  BY <1>2 DEF MayInitialize, Latched, Counted
<1>4. CASE Hangs(l, h)
  <2>1. link' = [l EXCEPT !.latch = key] /\ hangs' = Waited(h) /\ h[path][boots[path]] = 0
    BY <1>3, <1>4 DEF Hangs
  <2>2. link'.latch = key
    BY <2>1 DEF Links
  <2>3. CASE stage[path] = "booting"
    <3>1. hangs' = h
      BY <2>1, <2>3 DEF Waited
    <3> QED
      BY <3>1, <2>3 DEF Counted
  <2>4. CASE stage[path] # "booting"
    <3>1. hangs' = [h EXCEPT ![path][boots[path]] = @ + 1]
      BY <2>1, <2>4 DEF Waited
    <3>2. h \in [Installs -> [1 .. MaxBoots -> Nat]]
      BY DEF Waits
    <3>3. \A i \in Installs, b \in 1 .. MaxBoots :
             hangs'[i][b]
                 = IF i = path /\ b = boots[path] THEN h[path][boots[path]] + 1 ELSE h[i][b]
      BY <1>2, <3>1, <3>2, OneMore, Zenon
    <3>4. \A i \in Installs, b \in 1 .. MaxBoots :
             hangs'[i][b] = IF i = path /\ b = boots[path] THEN 1 ELSE h[i][b]
      BY <2>1, <3>1, <3>3
    <3>5. \A i \in Installs : boots[i] \in 1 .. MaxBoots
      BY DEF LinkShape, TerminalShape
    <3>6. OthersZero(h, path) => OthersZero(hangs', path)
      BY <3>4 DEF OthersZero
    <3>7. Counted(hangs', link', path, stage, boots, daylog)
      BY <1>2, <2>2, <2>4, <3>4, <3>5 DEF Counted
    <3> QED
      BY <3>6, <3>7
  <2> QED
    BY <2>3, <2>4
<1>5. CASE Attaches(l, h)
  <2>1. hangs' = h /\ h[path][boots[path]] = 0
    BY <1>3, <1>5 DEF Attaches, Takes
  <2> QED
    BY <2>1 DEF Counted
<1> QED
  BY <1>1, <1>4, <1>5 DEF Connects

LEMMA HangStep ==
  ASSUME ~Midnight, LinkShape, HangInv, [LinkNext]_linkVars
  PROVE  HangInv'
<1>0. hangs \in Waits /\ path \in Installs /\ link \in Links
  BY DEF LinkShape, ClientShape
<1>1. CASE \E i \in Installs : Terminal(i)
  <2>1. PICK i \in Installs : Terminal(i)
    BY <1>1
  <2>2. UNCHANGED <<hangs, link, path, moving>>
    BY <2>1 DEF Terminal, clientVars
  <2>3. Counted(hangs, link, path, stage', boots', daylog')
    BY <1>0, <2>1, TerminalCounts DEF Terminal, LinkShape, HangInv
  <2> QED
    BY <2>2, <2>3 DEF HangInv
<1>2. CASE EnsureRests \/ CoolsDown \/ AccountFails \/ Arms
  <2>1. UNCHANGED <<path, moving, hangs, stage, boots, daylog>>
    BY <1>2 DEF EnsureRests, CoolsDown, AccountFails, Arms, terminalVars
  <2>2. link' = link \/ link' = Unlinked \/ link' = [link EXCEPT !.rested = TRUE]
    BY <1>2 DEF EnsureRests, CoolsDown, AccountFails, Arms
  <2>3. link'.latch = link.latch
    BY <1>0, <2>2, DownIsLink DEF Links
  <2> QED
    BY <2>1, <2>3 DEF HangInv, Counted
<1>3. CASE EnsureTries
  <2>1. /\ Connects([Unlinked EXCEPT !.rested = FALSE], hangs)
        /\ UNCHANGED <<path, moving>>
    BY <1>3 DEF EnsureTries
  <2>2. /\ [Unlinked EXCEPT !.rested = FALSE] \in Links
        /\ [Unlinked EXCEPT !.rested = FALSE].latch = link.latch
    BY <1>0, LinksOf, DownIsLink
  <2>3. Counted(hangs, [Unlinked EXCEPT !.rested = FALSE], path, stage, boots, daylog)
    BY <2>2 DEF HangInv, Counted
  <2>4. /\ Counted(hangs', link', path, stage, boots, daylog)
        /\ OthersZero(hangs, path) => OthersZero(hangs', path)
    BY <1>0, <2>1, <2>2, <2>3, ConnectsCounts
  <2>5. hangs' \in Waits
    BY <1>0, <2>1, <2>2, ConnectsShape
  <2>6. Counted(hangs', link', path, stage', boots', daylog')
    <3>1. CASE Starts(path)
      <4>1. TerminalShape /\ Counted(hangs', link', path, stage, boots, daylog)
        BY <2>4 DEF LinkShape
      <4> HIDE DEF Waits, Counted
      <4> QED
        BY <1>0, <2>5, <3>1, <4>1, TerminalCounts, Zenon
    <3>2. CASE UNCHANGED terminalVars
      BY <2>4, <3>2 DEF terminalVars
    <3> QED
      BY <1>3, <3>1, <3>2 DEF EnsureTries
  <2> QED
    BY <2>1, <2>4, <2>6 DEF HangInv
<1>4. CASE \E p \in Installs : SetsPath(p)
  <2>1. PICK p \in Installs : SetsPath(p)
    BY <1>4
  <2>2. /\ ~moving /\ path' = p /\ moving' = TRUE
        /\ UNCHANGED <<link, hangs, stage, boots, daylog>>
    BY <2>1 DEF SetsPath, terminalVars
  <2>3. boots[p] \in 1 .. MaxBoots
    BY DEF LinkShape, TerminalShape
  <2>4. p # path => hangs[p][boots[p]] = 0
    BY <2>2, <2>3 DEF HangInv, OthersZero
  <2> QED
    BY <2>2, <2>4 DEF HangInv, Counted
<1>5. CASE Reconnects
  <2> DEFINE l == [Unlinked EXCEPT !.latch = NoBoot, !.rested = TRUE]
  <2>1. Connects(l, Forgiven) /\ UNCHANGED <<path, stage, boots, daylog>>
    BY <1>5 DEF Reconnects, terminalVars
  <2>2. l \in Links
    BY <1>0, LinksOf, DownIsLink
  <2> HIDE DEF l
  <2>3. \A i \in Installs, b \in 1 .. MaxBoots : Forgiven[i][b] = 0
    BY DEF Forgiven
  <2>4. \A i \in Installs : boots[i] \in 1 .. MaxBoots
    BY DEF LinkShape, TerminalShape
  <2>5. Counted(Forgiven, l, path, stage, boots, daylog) /\ OthersZero(Forgiven, path)
    BY <1>0, <2>3, <2>4 DEF HangInv, Counted, OthersZero
  <2>6. Counted(hangs', link', path, stage, boots, daylog) /\ OthersZero(hangs', path)
    BY <2>1, <2>2, <2>5, ForgivenShape, ConnectsCounts
  <2> QED
    BY <2>1, <2>6 DEF HangInv
<1>6. CASE (\E s \in Instruments : ResolveReads(s)) \/ ResolveKeeps \/ UNCHANGED linkVars
  <2>1. UNCHANGED <<path, moving, link, hangs, stage, boots, daylog>>
    BY <1>6 DEF ResolveReads, ResolveKeeps, linkVars, terminalVars
  <2> QED
    BY <2>1 DEF HangInv
<1> QED
  BY <1>1, <1>2, <1>3, <1>4, <1>5, <1>6 DEF LinkNext

(* initialize sits out the pipe of a boot once, for every sequence of      *)
(* boots, deaths, autostarts, changes of the path and failed attaches, as  *)
(* long as no new day's log hides which boot it is (connect's latch).      *)
THEOREM OneHang ==
  ASSUME ~Midnight
  PROVE  LinkSpec => []OneHangPerBoot
<1>1. LinkInit => HangInv
  <2> SUFFICES ASSUME LinkInit
               PROVE  HangInv
    OBVIOUS
  <2>1. 1 \in 1 .. MaxBoots
    BY LinkAssumption
  <2>2. \A i \in Installs, b \in 1 .. MaxBoots : hangs[i][b] = 0
    BY DEF LinkInit
  <2>3. \A i \in Installs : /\ daylog[i].key \in Boots /\ boots[i] = 1
                           /\ stage[i] # "booting"
    BY <2>1 DEF LinkInit, Boots
  <2>4. path \in Installs
    BY DEF LinkInit
  <2> QED
    BY <2>1, <2>2, <2>3, <2>4 DEF HangInv, Counted, OthersZero
<1>2. LinkShape /\ HangInv /\ [LinkNext]_linkVars => (LinkShape /\ HangInv)'
  BY ShapeStep, HangStep
<1>3. HangInv => OneHangPerBoot
  BY DEF HangInv, Counted, OneHangPerBoot
<1> QED
  BY ShapeInit, <1>1, <1>2, <1>3, PTL DEF LinkSpec

\* Within the bounds of the instance: no attach beyond the last one allowed,
\* two waits for a boot at most, and flags that are flags.
LinkBounds ==
    /\ pipe \in [Installs -> BOOLEAN] /\ moving \in BOOLEAN /\ armed \in BOOLEAN
    /\ epoch <= MaxAttach
    /\ \A s \in Instruments : names[s] <= MaxAttach
    /\ reading \in {Nobody} \union [of : Instruments, epoch : 0 .. MaxAttach]
    /\ \A i \in Installs, b \in 1 .. MaxBoots : hangs[i][b] <= 2

LEMMA ConnectsBounds ==
    ASSUME LinkShape, LinkBounds, NEW l \in Links, NEW h \in Waits, Connects(l, h),
           \A i \in Installs, b \in 1 .. MaxBoots : h[i][b] <= 2
    PROVE  /\ epoch' <= MaxAttach
           /\ \A s \in Instruments : names'[s] <= MaxAttach
           /\ \A i \in Installs, b \in 1 .. MaxBoots : hangs'[i][b] <= 2
<1>1. CASE Refuses(l, h) \/ Fails(l, h)
  BY <1>1 DEF Refuses, Fails, LinkBounds
<1>2. CASE Hangs(l, h)
  <2>1. UNCHANGED <<epoch, names>> /\ hangs' = Waited(h)
    BY <1>2 DEF Hangs
  <2>2. PICK here \in 1 .. MaxBoots : here = boots[path]
    BY DEF LinkShape, TerminalShape, ClientShape
  <2>3. path \in Installs
    BY DEF LinkShape, ClientShape
  <2>4. CASE hangs' = h
    BY <2>1, <2>4 DEF LinkBounds
  <2>5. CASE h[path][here] # 2 /\ hangs' = [h EXCEPT ![path][here] = @ + 1]
    <3>1. \A i \in Installs, b \in 1 .. MaxBoots :
              hangs'[i][b] = IF i = path /\ b = here THEN h[path][here] + 1 ELSE h[i][b]
      <4>1. ASSUME NEW D, NEW f \in [Installs -> [D -> Nat]], NEW c \in D
            PROVE  \A i \in Installs, b \in D :
                       [f EXCEPT ![path][c] = @ + 1][i][b] =
                           IF i = path /\ b = c THEN f[path][c] + 1 ELSE f[i][b]
        BY <2>3, <4>1, OneMore
      <4> QED BY <2>5, <4>1 DEF Waits
    <3>2. h[path][here] \in Nat /\ h[path][here] <= 2
      BY <2>3 DEF Waits
    <3>3. h[path][here] + 1 <= 2
      BY <2>5, <3>2
    <3> QED BY <2>1, <3>1, <3>3 DEF LinkBounds
  <2> QED BY <2>1, <2>2, <2>4, <2>5 DEF Waited
<1>3. CASE Attaches(l, h)
  <2>1. /\ epoch < MaxAttach /\ epoch' = epoch + 1 /\ names' = [s \in Instruments |-> 0]
        /\ hangs' = h
    BY <1>3 DEF Attaches, Takes
  <2> QED BY <2>1, LinkAssumption DEF LinkShape, ClientShape
<1> QED BY <1>1, <1>2, <1>3 DEF Connects

LEMMA BoundsStep ==
    ASSUME LinkShape, LinkBounds, [LinkNext]_linkVars
    PROVE  LinkBounds'
<1> USE DEF LinkBounds
<1>1. CASE \E i \in Installs : Terminal(i)
  <2>1. PICK i \in Installs : Terminal(i)
    BY <1>1
  <2>2. pipe' \in [Installs -> BOOLEAN]
    BY <2>1 DEF Terminal, Starts, Announces, Synchronizes, TurnsDay, Dies
  <2> QED BY <2>1, <2>2 DEF Terminal, clientVars
<1>2. CASE EnsureRests \/ CoolsDown \/ AccountFails \/ Arms
  BY <1>2 DEF EnsureRests, CoolsDown, AccountFails, Arms, terminalVars
<1>3. CASE EnsureTries
  <2>1. /\ Connects([Unlinked EXCEPT !.rested = FALSE], hangs)
        /\ UNCHANGED <<path, moving, armed, reading>>
    BY <1>3 DEF EnsureTries
  <2>2. pipe' \in [Installs -> BOOLEAN]
    BY <1>3 DEF EnsureTries, Starts, terminalVars
  <2>3. [Unlinked EXCEPT !.rested = FALSE] \in Links /\ hangs \in Waits
    BY LinksOf, DownIsLink DEF LinkShape, ClientShape
  <2> QED BY <2>1, <2>2, <2>3, ConnectsBounds
<1>4. CASE \E p \in Installs : SetsPath(p)
  BY <1>4 DEF SetsPath, terminalVars
<1>5. CASE Reconnects
  <2>1. /\ Connects([Unlinked EXCEPT !.latch = NoBoot, !.rested = TRUE], Forgiven)
        /\ moving' = FALSE /\ UNCHANGED <<path, armed, reading, pipe>>
    BY <1>5 DEF Reconnects, terminalVars
  <2>2. [Unlinked EXCEPT !.latch = NoBoot, !.rested = TRUE] \in Links /\ Forgiven \in Waits
    BY LinksOf, DownIsLink, ForgivenShape DEF LinkShape, ClientShape
  <2>3. \A i \in Installs, b \in 1 .. MaxBoots : Forgiven[i][b] <= 2
    BY DEF Forgiven
  <2> QED BY <2>1, <2>2, <2>3, ConnectsBounds
<1>6. CASE \E s \in Instruments : ResolveReads(s)
  <2>1. PICK s \in Instruments : reading' = [of |-> s, epoch |-> epoch]
    BY <1>6 DEF ResolveReads
  <2>2. epoch \in 0 .. MaxAttach
    BY LinkAssumption DEF LinkShape, ClientShape
  <2>3. reading' \in [of : Instruments, epoch : 0 .. MaxAttach]
    BY <2>1, <2>2
  <2>4. UNCHANGED <<pipe, moving, armed, epoch, names, hangs>>
    BY <1>6 DEF ResolveReads, terminalVars
  <2> QED BY <2>3, <2>4
<1>7. CASE ResolveKeeps
  <2>1. reading \in [of : Instruments, epoch : 0 .. MaxAttach]
    BY <1>7 DEF ResolveKeeps
  <2>2. names' = [names EXCEPT ![reading.of] = reading.epoch] /\ reading' = Nobody
        /\ UNCHANGED <<pipe, moving, armed, epoch, hangs>>
    BY <1>7 DEF ResolveKeeps, terminalVars
  <2>3. \A s \in Instruments : names'[s] <= MaxAttach
    BY <2>1, <2>2 DEF LinkShape, ClientShape
  <2> QED BY <2>2, <2>3
<1>8. CASE UNCHANGED linkVars
  BY <1>8 DEF linkVars
<1> QED
  BY <1>1, <1>2, <1>3, <1>4, <1>5, <1>6, <1>7, <1>8 DEF LinkNext

\* The link keeps its types and the bounds of the instance, whatever boots,
\* dies, hangs or is set.
THEOREM LinkTyped == LinkSpec => []LinkTypeOK
<1>1. LinkInit => LinkBounds
  <2> SUFFICES ASSUME LinkInit PROVE LinkBounds
    OBVIOUS
  <2>1. epoch = 0 /\ reading = Nobody /\ pipe \in [Installs -> BOOLEAN]
        /\ moving = FALSE /\ armed = FALSE /\ 0 <= MaxAttach
    BY LinkAssumption DEF LinkInit
  <2>2. \A s \in Instruments : names[s] = 0
    BY DEF LinkInit
  <2>3. \A i \in Installs, b \in 1 .. MaxBoots : hangs[i][b] = 0
    BY DEF LinkInit
  <2>4. \A s \in Instruments : names[s] <= MaxAttach
    BY <2>1, <2>2
  <2>5. \A i \in Installs, b \in 1 .. MaxBoots : hangs[i][b] <= 2
    <3>1. 0 <= 2
      OBVIOUS
    <3> QED BY <2>3, <3>1
  <2>6. epoch <= MaxAttach /\ moving \in BOOLEAN /\ armed \in BOOLEAN
    BY <2>1
  <2>7. reading \in {Nobody} \union [of : Instruments, epoch : 0 .. MaxAttach]
    BY <2>1
  <2> QED BY <2>1, <2>4, <2>5, <2>6, <2>7 DEF LinkBounds
<1>2. LinkShape /\ LinkBounds /\ [LinkNext]_linkVars => (LinkShape /\ LinkBounds)'
  BY ShapeStep, BoundsStep
<1>3. LinkShape /\ LinkBounds => LinkTypeOK
  <2> SUFFICES ASSUME LinkShape, LinkBounds PROVE LinkTypeOK
    OBVIOUS
  <2>1. MaxAttach \in Nat /\ MaxBoots \in Nat
    BY LinkAssumption
  <2>2. stage \in [Installs -> {"down", "booting", "lined", "synced"}]
        /\ boots \in [Installs -> 0 .. MaxBoots]
    BY <2>1 DEF LinkShape, TerminalShape
  <2>3. daylog \in [Installs -> [key : BootKeys, ready : BOOLEAN]]
    BY DEF LinkShape, TerminalShape, Logs
  <2>4. path \in Installs /\ epoch \in 0 .. MaxAttach
        /\ link \in [on : BOOLEAN, at : Installs \union {Nobody},
                     latch : BootKeys, rested : BOOLEAN]
    BY <2>1 DEF LinkShape, ClientShape, LinkBounds, Links
  <2>5. names \in [Instruments -> 0 .. MaxAttach]
    <3>1. names \in [Instruments -> Nat] /\ \A s \in Instruments : names[s] \in 0 .. MaxAttach
      BY <2>1 DEF LinkShape, ClientShape, LinkBounds
    <3> QED BY <3>1
  <2>6. hangs \in [Installs -> [1 .. MaxBoots -> 0 .. 2]]
    <3>1. hangs \in [Installs -> [1 .. MaxBoots -> Nat]]
      BY DEF LinkShape, ClientShape, Waits
    <3>2. \A i \in Installs : hangs[i] \in [1 .. MaxBoots -> 0 .. 2]
      <4>1. ASSUME NEW i \in Installs PROVE hangs[i] \in [1 .. MaxBoots -> 0 .. 2]
        <5>1. hangs[i] \in [1 .. MaxBoots -> Nat]
          BY <3>1
        <5>2. \A b \in 1 .. MaxBoots : hangs[i][b] \in 0 .. 2
          <6>1. ASSUME NEW b \in 1 .. MaxBoots PROVE hangs[i][b] \in 0 .. 2
            <7>1. hangs[i][b] \in Nat
              BY <5>1
            <7>2. hangs[i][b] <= 2
              BY DEF LinkBounds
            <7> QED BY <7>1, <7>2
          <6> QED BY <6>1
        <5> QED BY <5>1, <5>2
      <4> QED BY <4>1
    <3> QED BY <3>1, <3>2
  <2> QED BY <2>2, <2>3, <2>4, <2>5, <2>6 DEF LinkBounds, LinkTypeOK
<1> QED
  BY ShapeInit, <1>1, <1>2, <1>3, PTL DEF LinkSpec

-----------------------------------------------------------------------------
(* The trading windows on the broker's clock (SessionClock).               *)

\* Days and minutes.  A whole number of days is at least a day, either way ...
LEMMA Times ==
    ASSUME NEW d \in Nat, NEW z \in Int
    PROVE  z * d \in Int /\ (z >= 1 => z * d >= d) /\ (z <= -1 => z * d <= -d)
<1>1. z * d \in Int
  OBVIOUS
<1>2. ASSUME z >= 1 PROVE z * d >= d
  <2>1. PICK y \in Nat : z = y + 1
    BY <1>2
  <2>2. PICK x \in Nat : x = y * d
    OBVIOUS
  <2>3. z * d = y * d + d
    BY <2>1
  <2> QED BY <2>2, <2>3
<1>3. ASSUME z <= -1 PROVE z * d <= -d
  <2>1. PICK y \in Nat : z = -y - 1
    <3>1. -z - 1 \in Nat /\ z = -(-z - 1) - 1
      BY <1>3
    <3> QED BY <3>1
  <2>2. PICK x \in Nat : x = y * d
    OBVIOUS
  <2>3. z * d = -(y * d) - d
    BY <2>1
  <2> QED BY <2>2, <2>3
<1> QED BY <1>1, <1>2, <1>3

\* ... so a time has one day and one minute of it.
LEMMA Quotient ==
    ASSUME NEW d \in Nat \ {0}, NEW q \in Int, NEW m \in 0 .. d - 1,
           NEW t \in Int, t = q * d + m
    PROVE  t \div d = q /\ t % d = m
<1>2. PICK a \in Int, b \in 0 .. d - 1 : a = t \div d /\ b = t % d
  OBVIOUS
<1>3. t = d * a + b
  BY <1>2
<1>4. PICK z \in Int : z = a - q
  OBVIOUS
<1>5. z * d = a * d - q * d
  BY <1>4
<1>6. z * d = m - b
  <2>1. PICK x \in Int, y \in Int : x = a * d /\ y = q * d
    OBVIOUS
  <2>2. d * a = x
    BY <2>1
  <2> QED BY <1>3, <1>5, <2>1, <2>2
<1>7. z = 0
  BY <1>6, Times
<1> QED BY <1>2, <1>4, <1>6, <1>7

LEMMA Multiple ==
    ASSUME NEW d \in Nat \ {0}, NEW q \in Int, NEW t \in Int, t = q * d
    PROVE  t \div d = q /\ t % d = 0
<1>1. PICK m \in 0 .. d - 1 : m = 0
  OBVIOUS
<1>2. t = q * d + m
  BY <1>1
<1> QED BY <1>1, <1>2, Quotient

\* After a minute comes the next one of the same day, or the first one of the
\* next day, over the end of the week too.
LEMMA NextMinute ==
    ASSUME NEW t \in 0 .. Week - 1, NEW u \in Int, u = (t + 1) % Week
    PROVE  /\ u \in 0 .. Week - 1
           /\ \/ MinuteOf(u) = MinuteOf(t) + 1 /\ DayOf(u) = DayOf(t)
              \/ MinuteOf(t) = DayLen - 1 /\ MinuteOf(u) = 0 /\ PrevDay(DayOf(u)) = DayOf(t)
<1>1. PICK d \in Nat \ {0} : d = DayLen
  BY HourAssumption DEF DayLen
<1>2. Week = 7 * d /\ Week \in Nat \ {0} /\ t \in Nat
  BY <1>1 DEF Week
<1>3. PICK q \in Int, m \in 0 .. d - 1 : q = t \div d /\ m = t % d /\ t = d * q + m
  BY <1>2
<1>4. q \in 0 .. 6
  <2>1. q >= 0
    BY <1>2, <1>3, Times
  <2>2. PICK z \in Int : z = q - 6
    OBVIOUS
  <2>3. z * d = q * d - 6 * d
    BY <2>2
  <2>4. q * d = d * q
    OBVIOUS
  <2>5. z * d < d
    <3>1. PICK x \in Int : x = q * d
      OBVIOUS
    <3> QED BY <1>2, <1>3, <2>3, <2>4, <3>1
  <2> QED BY <2>1, <2>2, <2>5, Times
<1>5. CASE m < d - 1
  <2>1. t + 1 \in 0 .. Week - 1
    BY <1>2, <1>3, <1>4, <1>5
  <2>2. u = t + 1
    BY <1>2, <2>1
  <2>3. u = q * d + (m + 1) /\ m + 1 \in 0 .. d - 1
    BY <1>3, <1>5, <2>2
  <2>4. u \div d = q /\ u % d = m + 1
    BY <2>3, Quotient
  <2> QED BY <1>1, <1>3, <2>1, <2>2, <2>4 DEF MinuteOf, DayOf
<1>6. CASE m = d - 1 /\ q < 6
  <2>1. t + 1 = (q + 1) * d
    BY <1>3, <1>6
  <2>2. t + 1 \in 0 .. Week - 1
    BY <1>2, <1>3, <1>4, <1>6
  <2>3. u = t + 1
    BY <1>2, <2>2
  <2>4. PICK r \in Int : r = q + 1
    OBVIOUS
  <2>5. u = r * d
    BY <2>1, <2>3, <2>4
  <2>6. u \div d = r /\ u % d = 0
    BY <2>5, Multiple
  <2> QED BY <1>1, <1>3, <1>4, <1>6, <2>2, <2>3, <2>4, <2>6 DEF MinuteOf, DayOf, PrevDay
<1>7. CASE m = d - 1 /\ q = 6
  <2>1. t + 1 = Week
    BY <1>2, <1>3, <1>7
  <2>2. u = 0
    BY <1>2, <2>1
  <2>3. u \div d = 0 /\ u % d = 0
    <3>1. u = 0 * d + 0 /\ 0 \in 0 .. d - 1
      BY <2>2
    <3> QED BY <3>1, Quotient
  <2>4. DayOf(u) = 1 /\ MinuteOf(u) = 0
    BY <1>1, <2>3 DEF DayOf, MinuteOf
  <2>5. DayOf(t) = 7 /\ MinuteOf(t) = DayLen - 1
    BY <1>1, <1>3, <1>7 DEF DayOf, MinuteOf
  <2>6. u \in 0 .. Week - 1
    BY <1>2, <2>2
  <2> QED BY <2>4, <2>5, <2>6 DEF PrevDay
<1> QED BY <1>3, <1>4, <1>5, <1>6, <1>7
\* A time of the week is a minute of a day.
LEMMA Minutes ==
    ASSUME NEW t \in 0 .. Week - 1
    PROVE  MinuteOf(t) \in 0 .. DayLen - 1 /\ DayOf(t) \in Int /\ DayLen \in Nat \ {0}
<1>1. DayLen \in Nat \ {0}
  BY HourAssumption DEF DayLen
<1>2. PICK d \in Nat \ {0} : d = DayLen
  BY <1>1
<1>3. t \in Int
  BY <1>2 DEF Week
<1>4. t % d \in 0 .. d - 1 /\ t \div d \in Int
  BY <1>2, <1>3
<1> QED BY <1>2, <1>4 DEF MinuteOf, DayOf

\* What is left of a window is a number of minutes ...
LEMMA RemainingMinutes ==
    ASSUME NEW c \in Config, NEW t \in 0 .. Week - 1, NEW w \in Windows(c)
    PROVE  Remaining(c, w, t) \in (-DayLen) .. (2 * DayLen)
<1>1. w.start \in 0 .. DayLen - 1 /\ w.end \in 0 .. DayLen - 1
  BY DEF Windows, Config
<1>2. PICK m \in Int, d \in Nat : m = MinuteOf(t) /\ d = DayLen /\ m \in 0 .. d - 1
  BY Minutes
<1> QED BY <1>1, <1>2 DEF Remaining

\* ... so one of the windows that run is the last to close.
LEMMA LastWindow ==
    ASSUME NEW c \in Config, NEW t \in 0 .. Week - 1, OpenWindows(c, t) # {}
    PROVE  /\ MinutesToClose(c, t) \in Int
           /\ \E w \in OpenWindows(c, t) : Remaining(c, w, t) = MinutesToClose(c, t)
           /\ \A w \in OpenWindows(c, t) : Remaining(c, w, t) <= MinutesToClose(c, t)
<1> DEFINE lefts == {Remaining(c, w, t) : w \in OpenWindows(c, t)}
           span == (-DayLen) .. (2 * DayLen)
<1>1. OpenWindows(c, t) \subseteq Windows(c)
  BY DEF OpenWindows
<1>2. lefts \in SUBSET span
  BY <1>1, RemainingMinutes
<1>3. -DayLen \in Int /\ 2 * DayLen \in Int
  BY Minutes
<1>4. IsFiniteSet(span)
  BY <1>3, FS_Interval
<1>5. IsFiniteSet(lefts)
  BY <1>2, <1>4, FS_Subset
<1>6. lefts \in SUBSET Int
  BY <1>2, <1>3
<1>7. lefts # {}
  OBVIOUS
<1>8. Max(lefts) \in lefts /\ \A x \in lefts : x <= Max(lefts)
  <2> HIDE DEF lefts
  <2> QED BY <1>5, <1>6, <1>7, MaxOfFinite
<1> QED BY <1>6, <1>8 DEF MinutesToClose

\* A minute that evaluate and both wind-downs admit is in session_mask.
LEMMA EntryScored ==
    ASSUME NEW c \in Config, NEW t \in 0 .. Week - 1,
           LiveEntry(c, t), ~(c.weekend_open /\ c.all_hours)
    PROVE  ReplayOpen(c, t)
<1>1. ~WeekendClosed(c, t) /\ InSession(c, c.all_hours, t) /\ ~Dropped(c, t)
  BY DEF LiveEntry, LiveOpen, Dropped
<1>2. c.all_hours \in BOOLEAN /\ c.flat \in Nat
  BY Minutes DEF Config
<1>3. CASE c.all_hours
  <2>1. c.crypto \/ ~Weekend(t)
    BY <1>1, <1>3, Minutes DEF WeekendClosed, WeekendExempt, Weekend, Saturday, Sunday
  <2> QED BY <1>1, <1>3, <2>1 DEF ReplayOpen
<1>4. CASE ~c.all_hours /\ ~Windowed(c)
  BY <1>1, <1>4 DEF InSession, ReplayOpen
<1>5. CASE ~c.all_hours /\ Windowed(c)
  <2>1. OpenWindows(c, t) # {}
    BY <1>1, <1>5 DEF InSession
  <2>2. PICK w \in OpenWindows(c, t) : Remaining(c, w, t) > c.flat \/ c.flat = 0
    <3>1. CASE c.flat = 0
      BY <2>1, <3>1
    <3>2. CASE c.flat > 0
      <4>0. c.all_hours = FALSE
        BY <1>2, <1>5
      <4>1. LiveOpen(c, FALSE, t) /\ ~ShouldFlatten(c, t)
        BY <4>0 DEF LiveEntry
      <4>2. ~(MinutesToClose(c, t) <= c.flat)
        BY <1>5, <3>2, <4>1 DEF ShouldFlatten
      <4>3. PICK w \in OpenWindows(c, t) : Remaining(c, w, t) = MinutesToClose(c, t)
        BY <2>1, LastWindow
      <4>4. Remaining(c, w, t) \in Int
        BY <4>3, RemainingMinutes, Minutes DEF OpenWindows
      <4> QED BY <1>2, <4>2, <4>3, <4>4
    <3> QED BY <1>2, <3>1, <3>2
  <2>3. w \in Windows(c) /\ (Evening(c, w, t) \/ Morning(c, w, t))
    BY DEF OpenWindows
  <2>4. w.end \in Int /\ MinuteOf(t) \in Int
    BY <2>3, Minutes DEF Windows, Config
  <2>5. InMask(c, w, t)
    BY <1>2, <2>2, <2>3, <2>4 DEF InMask, Remaining, Evening, Morning
  <2> QED BY <1>1, <1>5, <2>3, <2>5 DEF ReplayOpen
<1> QED BY <1>2, <1>3, <1>4, <1>5

\* The week is one of the configurations, and the time a minute of it.
WeekShape == cfg \in Configs /\ now \in 0 .. Week - 1

\* While a window that ran at a session flatten is still running, everything
\* that runs is inside its wind-down.
LeftRunsOut ==
    left # {} =>
        /\ cfg.flat > 0 /\ ~cfg.all_hours /\ Windowed(cfg)
        /\ left \subseteq OpenWindows(cfg, now)
        /\ \A w \in OpenWindows(cfg, now) : Remaining(cfg, w, now) <= cfg.flat

\* No window of a configuration opens in the wind-down of another, unless it
\* closes as soon: the wind-down ends with the last window, so one that opens
\* later takes it back.
NoLateOpening ==
    \A c \in Configs, t \in 0 .. Week - 1 :
        LET next == (t + 1) % Week
        IN  (\E w \in OpenWindows(c, t) \cap OpenWindows(c, next) :
                Remaining(c, w, t) <= c.flat) =>
                    \A v \in OpenWindows(c, next) \ OpenWindows(c, t) :
                        Remaining(c, v, next) <= c.flat

\* A window that goes on running has less of it left, over midnight too.
LEMMA WindowWanes ==
    ASSUME NEW c \in Config, NEW t \in 0 .. Week - 1, NEW u \in Int, u = (t + 1) % Week,
           NEW w \in OpenWindows(c, t), w \in OpenWindows(c, u)
    PROVE  Remaining(c, w, u) < Remaining(c, w, t)
<1>1. /\ w \in Windows(c)
      /\ Evening(c, w, t) \/ Morning(c, w, t)
      /\ Evening(c, w, u) \/ Morning(c, w, u)
  BY DEF OpenWindows
<1>2. w.start \in 0 .. DayLen - 1 /\ w.end \in 0 .. DayLen - 1 /\ w.start # w.end
  BY <1>1 DEF Windows, Config
<1>3. u \in 0 .. Week - 1
  BY NextMinute
<1>4. PICK m \in Int, n \in Int, d \in Nat :
          m = MinuteOf(t) /\ n = MinuteOf(u) /\ d = DayLen
  BY <1>3, Minutes
<1>5. n = m + 1 \/ (m = d - 1 /\ n = 0)
  BY <1>4, NextMinute
<1>6. m \in 0 .. d - 1 /\ n \in 0 .. d - 1
  BY <1>3, <1>4, Minutes
<1>7. CASE ~Overnight(w)
  BY <1>1, <1>2, <1>4, <1>5, <1>6, <1>7 DEF Remaining, Evening, Morning, Overnight
<1>8. CASE Overnight(w)
  <2>1. Evening(c, w, t) <=> m >= w.start
    BY <1>1, <1>2, <1>4, <1>6, <1>8 DEF Evening, Morning, Overnight
  <2>2. Evening(c, w, u) <=> n >= w.start
    BY <1>1, <1>2, <1>4, <1>6, <1>8 DEF Evening, Morning, Overnight
  <2>3. (m >= w.start \/ m < w.end) /\ (n >= w.start \/ n < w.end)
    BY <1>1, <1>4 DEF Evening, Morning
  <2>4. PICK s \in 0 .. d - 1, e \in 0 .. d - 1 : s = w.start /\ e = w.end
    BY <1>2, <1>4
  <2>5. s > e
    BY <1>8, <2>4 DEF Overnight
  <2>6. Remaining(c, w, t) = (IF m >= s THEN e + d - m ELSE e - m)
    BY <1>4, <1>8, <2>1, <2>4 DEF Remaining
  <2>7. Remaining(c, w, u) = (IF n >= s THEN e + d - n ELSE e - n)
    BY <1>4, <1>8, <2>2, <2>4 DEF Remaining
  <2>8. (m >= s \/ m < e) /\ (n >= s \/ n < e)
    BY <2>3, <2>4
  <2> QED BY <1>5, <1>6, <2>5, <2>6, <2>7, <2>8
<1> QED BY <1>7, <1>8

\* A week stays the week it was, minute by minute.
LEMMA WeekHolds == ClockSpec => []WeekShape
<1>1. ClockInit => WeekShape
  <2>1. DayLen \in Nat \ {0}
    BY HourAssumption DEF DayLen
  <2> QED BY <2>1 DEF ClockInit, WeekShape, Week
<1>2. WeekShape /\ [ClockNext]_clockVars => WeekShape'
  <2> SUFFICES ASSUME WeekShape, [ClockNext]_clockVars PROVE WeekShape'
    OBVIOUS
  <2>1. CASE Tick
    <3>1. cfg' = cfg /\ now' = (now + 1) % Week
      BY <2>1 DEF Tick
    <3>2. PICK u \in Int : u = (now + 1) % Week
      <4>1. PICK n \in Int, k \in Nat \ {0} : n = now + 1 /\ k = Week
        BY HourAssumption DEF WeekShape, Week, DayLen
      <4> QED BY <4>1
    <3> QED BY <3>1, <3>2, NextMinute DEF WeekShape
  <2> QED BY <2>1 DEF ClockNext, Flag, Enter, Exit, Close, clockVars, WeekShape
<1> QED BY <1>1, <1>2, PTL DEF ClockSpec

\* The week keeps its types: what ran when a flatten closed is some of the
\* windows of the week's own configuration.
THEOREM ClockTyped == ClockSpec => []ClockTypeOK
<1>1. ClockInit => ClockTypeOK
  <2>1. ClockInit => WeekShape
    <3>1. DayLen \in Nat \ {0}
      BY HourAssumption DEF DayLen
    <3> QED BY <3>1 DEF ClockInit, WeekShape, Week
  <2> QED BY <2>1, ConfigsAssumption DEF ClockInit, ClockTypeOK, WeekShape
<1>2. WeekShape /\ WeekShape' /\ ClockTypeOK /\ [ClockNext]_clockVars => ClockTypeOK'
  <2> SUFFICES ASSUME WeekShape, WeekShape', ClockTypeOK, [ClockNext]_clockVars
               PROVE  ClockTypeOK'
    OBVIOUS
  <2>1. \A t : OpenWindows(cfg, t) \subseteq cfg.windows
    BY DEF OpenWindows, Windows
  <2>2. cfg' = cfg /\ cfg' \in Config /\ now' \in 0 .. Week - 1
    BY ConfigsAssumption
    DEF WeekShape, ClockNext, Flag, Close, Enter, Exit, Tick, clockVars
  <2>3. position' \in {"none", "held", "closing"}
    BY DEF ClockTypeOK, ClockNext, Flag, Close, Enter, Exit, Tick, clockVars
  <2>4. left' \subseteq cfg.windows
    BY <2>1 DEF ClockTypeOK, ClockNext, Flag, Close, Enter, Exit, Tick, clockVars
  <2> QED BY <2>2, <2>3, <2>4 DEF ClockTypeOK
<1> QED BY <1>1, <1>2, WeekHolds, PTL DEF ClockSpec

\* The search has scored every minute the engine may open a position in
\* (evaluate and the wind-downs of sessions.py against session_mask): every
\* configuration, every minute, whatever the position does.
THEOREM EntriesScoredSafe == ClockSpec => []EntriesScored
<1>1. WeekShape => EntriesScored
  BY ConfigsAssumption, EntryScored DEF WeekShape, EntriesScored
<1> QED BY <1>1, WeekHolds, PTL

\* The invariant of a week in which no window opens late.
THEOREM WeekInvariant ==
    ASSUME NoLateOpening PROVE ClockSpec => [](WeekShape /\ LeftRunsOut)
<1>1. ClockInit => WeekShape /\ LeftRunsOut
  <2>1. DayLen \in Nat \ {0}
    BY HourAssumption DEF DayLen
  <2> QED BY <2>1 DEF ClockInit, WeekShape, LeftRunsOut, Week
<1>2. WeekShape /\ LeftRunsOut /\ [ClockNext]_clockVars => (WeekShape /\ LeftRunsOut)'
  <2> SUFFICES ASSUME WeekShape, LeftRunsOut, [ClockNext]_clockVars
               PROVE  WeekShape' /\ LeftRunsOut'
    OBVIOUS
  <2>0. cfg \in Config /\ cfg.flat \in Nat
    <3>1. cfg \in Config
      BY ConfigsAssumption DEF WeekShape
    <3>2. DayLen \in Nat
      BY HourAssumption DEF DayLen
    <3> QED BY <3>1, <3>2 DEF Config
  <2>1. CASE Close
    <3>1. cfg' = cfg /\ now' = now
      BY <2>1 DEF Close
    <3>2. CASE ShouldFlatten(cfg, now)
      <4>1. left' = OpenWindows(cfg, now) /\ MinutesToClose(cfg, now) <= cfg.flat
        BY <2>1, <3>2 DEF Close, ShouldFlatten
      <4>2. \A w \in OpenWindows(cfg, now) : Remaining(cfg, w, now) <= cfg.flat
        <5> TAKE w \in OpenWindows(cfg, now)
        <5>1. Remaining(cfg, w, now) \in Int
          BY <2>0, RemainingMinutes, Minutes DEF OpenWindows, WeekShape
        <5>2. Remaining(cfg, w, now) <= MinutesToClose(cfg, now) /\ MinutesToClose(cfg, now) \in Int
          BY <2>0, LastWindow DEF WeekShape
        <5> QED BY <2>0, <4>1, <5>1, <5>2
      <4>3. cfg.flat > 0 /\ ~cfg.all_hours /\ Windowed(cfg)
        BY <3>2 DEF ShouldFlatten
      <4> QED BY <3>1, <4>1, <4>2, <4>3 DEF LeftRunsOut, WeekShape
    <3>3. CASE ~ShouldFlatten(cfg, now)
      <4>1. left' = {}
        BY <2>1, <3>3 DEF Close
      <4> QED BY <3>1, <4>1 DEF LeftRunsOut, WeekShape
    <3> QED BY <3>2, <3>3
  <2>2. CASE Flag \/ Enter \/ Exit \/ UNCHANGED clockVars
    <3>1. cfg' = cfg /\ now' = now /\ (left' = left \/ left' = {})
      BY <2>2 DEF Flag, Enter, Exit, clockVars
    <3> QED BY <3>1 DEF LeftRunsOut, WeekShape
  <2>3. CASE Tick
    <3>1. /\ cfg' = cfg /\ now' = (now + 1) % Week
          /\ left' = left \intersect OpenWindows(cfg, now')
      BY <2>3 DEF Tick
    <3>2. PICK u \in Int : u = (now + 1) % Week
      <4>1. PICK n \in Int, k \in Nat \ {0} : n = now + 1 /\ k = Week
        BY HourAssumption DEF WeekShape, Week, DayLen
      <4> QED BY <4>1
    <3>3. u \in 0 .. Week - 1 /\ now' = u
      BY <3>1, <3>2, NextMinute DEF WeekShape
    <3>4. WeekShape'
      BY <3>1, <3>3 DEF WeekShape
    <3>5. ASSUME left' # {}
          PROVE  \A v \in OpenWindows(cfg, u) : Remaining(cfg, v, u) <= cfg.flat
      <4>1. PICK w \in left : w \in OpenWindows(cfg, u)
        BY <3>1, <3>3, <3>5
      <4>2. /\ w \in OpenWindows(cfg, now) \cap OpenWindows(cfg, u)
            /\ Remaining(cfg, w, now) <= cfg.flat
        BY <4>1 DEF LeftRunsOut
      <4>3. \A v \in OpenWindows(cfg, u) \ OpenWindows(cfg, now) : Remaining(cfg, v, u) <= cfg.flat
        BY <3>2, <4>2 DEF NoLateOpening, WeekShape
      <4>4. ASSUME NEW v \in OpenWindows(cfg, now), v \in OpenWindows(cfg, u)
            PROVE  Remaining(cfg, v, u) <= cfg.flat
        <5>1. Remaining(cfg, v, u) < Remaining(cfg, v, now)
          BY <2>0, <3>2, <4>4, WindowWanes DEF WeekShape
        <5>2. Remaining(cfg, v, now) <= cfg.flat
          BY <4>1, <4>4 DEF LeftRunsOut
        <5>3. v \in Windows(cfg)
          BY DEF OpenWindows
        <5>4. Remaining(cfg, v, u) \in Int /\ Remaining(cfg, v, now) \in Int
          BY <2>0, <3>3, <5>3, RemainingMinutes, Minutes DEF WeekShape
        <5> QED BY <2>0, <5>1, <5>2, <5>4
      <4> QED BY <4>3, <4>4
    <3>6. LeftRunsOut'
      BY <3>1, <3>3, <3>5 DEF LeftRunsOut
    <3> QED BY <3>4, <3>6
  <2> QED BY <2>1, <2>2, <2>3 DEF ClockNext
<1> QED BY <1>1, <1>2, PTL DEF ClockSpec

\* The step NoReentry forbids.
NoEntryLeft == position = "none" /\ position' = "held" => left = {}

\* After should_flatten closed a position, nothing is opened while one of the
\* windows that ran then still runs.
THEOREM NoReentrySafe ==
    ASSUME NoLateOpening PROVE ClockSpec => NoReentry
<1>1. WeekShape /\ LeftRunsOut /\ [ClockNext]_clockVars => [NoEntryLeft]_clockVars
  <2> SUFFICES ASSUME WeekShape, LeftRunsOut, [ClockNext]_clockVars,
                      position = "none", position' = "held", left # {}
               PROVE  FALSE
    BY DEF NoEntryLeft
  <2>1. Enter
    BY DEF ClockNext, Flag, Close, Exit, Tick, clockVars
  <2>2. LiveEntry(cfg, now)
    BY <2>1 DEF Enter
  <2>3. cfg \in Config /\ cfg.flat \in Nat /\ cfg.all_hours \in BOOLEAN
    <3>1. cfg \in Config
      BY ConfigsAssumption DEF WeekShape
    <3>2. DayLen \in Nat
      BY HourAssumption DEF DayLen
    <3> QED BY <3>1, <3>2 DEF Config
  <2>4. cfg.all_hours = FALSE /\ cfg.flat > 0 /\ Windowed(cfg)
    BY <2>3 DEF LeftRunsOut
  <2>5. MinutesToClose(cfg, now) > cfg.flat
    <3>1. LiveOpen(cfg, FALSE, now) /\ ~ShouldFlatten(cfg, now)
      BY <2>2, <2>4 DEF LiveEntry
    <3>2. ~(MinutesToClose(cfg, now) <= cfg.flat)
      BY <2>4, <3>1 DEF ShouldFlatten
    <3>3. OpenWindows(cfg, now) # {}
      BY DEF LeftRunsOut
    <3>4. MinutesToClose(cfg, now) \in Int
      BY <2>3, <3>3, LastWindow DEF WeekShape
    <3> QED BY <2>3, <3>2, <3>4
  <2>6. PICK w \in OpenWindows(cfg, now) : Remaining(cfg, w, now) = MinutesToClose(cfg, now)
    <3>1. OpenWindows(cfg, now) # {}
      BY DEF LeftRunsOut
    <3> QED BY <2>3, <3>1, LastWindow DEF WeekShape
  <2>7. Remaining(cfg, w, now) <= cfg.flat
    BY <2>6 DEF LeftRunsOut
  <2>8. Remaining(cfg, w, now) \in Int
    BY <2>3, <2>6, RemainingMinutes, Minutes DEF WeekShape, OpenWindows
  <2> QED BY <2>3, <2>5, <2>6, <2>7, <2>8
<1>2. ClockSpec => [](WeekShape /\ LeftRunsOut)
  BY WeekInvariant
<1>3. ClockSpec => [][NoEntryLeft]_clockVars
  BY <1>1, <1>2, PTL DEF ClockSpec
<1> QED BY <1>3 DEF NoReentry, NoEntryLeft

\* A window that runs and is over a minute later has one minute left.
LEMMA WindowEnds ==
    ASSUME NEW c \in Config, NEW t \in 0 .. Week - 1, NEW u \in Int, u = (t + 1) % Week,
           NEW w \in OpenWindows(c, t), w \notin OpenWindows(c, u)
    PROVE  Remaining(c, w, t) = 1
<1>1. w \in Windows(c) /\ (Evening(c, w, t) \/ Morning(c, w, t))
  BY DEF OpenWindows
<1>2. ~Evening(c, w, u) /\ ~Morning(c, w, u)
  BY <1>1 DEF OpenWindows
<1>3. w.start \in 0 .. DayLen - 1 /\ w.end \in 0 .. DayLen - 1 /\ w.start # w.end
  BY <1>1 DEF Windows, Config
<1>4. u \in 0 .. Week - 1
  BY NextMinute
<1>5. PICK m \in Int, n \in Int, d \in Nat :
          m = MinuteOf(t) /\ n = MinuteOf(u) /\ d = DayLen
  BY <1>4, Minutes
<1>6. \/ n = m + 1 /\ DayOf(u) = DayOf(t)
      \/ m = d - 1 /\ n = 0 /\ PrevDay(DayOf(u)) = DayOf(t)
  BY <1>5, NextMinute
<1>7. m \in 0 .. d - 1 /\ n \in 0 .. d - 1
  BY <1>4, <1>5, Minutes
<1>8. PICK s \in 0 .. d - 1, e \in 0 .. d - 1 : s = w.start /\ e = w.end
  BY <1>3, <1>5
<1>9. CASE ~Overnight(w)
  <2>1. m >= s /\ m < e /\ DayOf(t) \in DaysOf(c, w) /\ s <= e
    BY <1>1, <1>5, <1>8, <1>9 DEF Evening, Morning, Overnight
  <2>2. n = m + 1 /\ DayOf(u) = DayOf(t)
    BY <1>6, <1>8, <2>1
  <2>3. ~(n < e)
    BY <1>2, <1>5, <1>8, <1>9, <2>1, <2>2 DEF Evening
  <2>4. Remaining(c, w, t) = e - m
    BY <1>5, <1>8, <1>9 DEF Remaining
  <2> QED BY <2>1, <2>2, <2>3, <2>4
<1>10. CASE Overnight(w) /\ Evening(c, w, t)
  <2>1. m >= s /\ DayOf(t) \in DaysOf(c, w)
    BY <1>5, <1>8, <1>10 DEF Evening
  <2>2. m = d - 1 /\ n = 0 /\ PrevDay(DayOf(u)) = DayOf(t)
    BY <1>2, <1>5, <1>6, <1>8, <1>10, <2>1 DEF Evening
  <2>3. ~(0 < e)
    BY <1>2, <1>5, <1>8, <1>10, <2>1, <2>2 DEF Morning
  <2>4. Remaining(c, w, t) = e + d - m
    BY <1>5, <1>8, <1>10 DEF Remaining
  <2> QED BY <2>2, <2>3, <2>4
<1>11. CASE Overnight(w) /\ ~Evening(c, w, t)
  <2>1. m < e /\ PrevDay(DayOf(t)) \in DaysOf(c, w)
    BY <1>1, <1>5, <1>8, <1>11 DEF Morning
  <2>2. n = m + 1 /\ DayOf(u) = DayOf(t)
    BY <1>6, <1>8, <2>1
  <2>3. ~(n < e)
    BY <1>2, <1>5, <1>8, <1>11, <2>1, <2>2 DEF Morning
  <2>4. Remaining(c, w, t) = e - m
    BY <1>5, <1>8, <1>11 DEF Remaining
  <2> QED BY <2>1, <2>2, <2>3, <2>4
<1> QED BY <1>9, <1>10, <1>11

\* The step FlatBeforeClose forbids.
RidesThroughClose ==
    /\ cfg.flat > 0 /\ ~cfg.all_hours /\ Windowed(cfg)
    /\ OpenWindows(cfg, now) # {} /\ OpenWindows(cfg, now') = {}
    /\ ~BlockedHour(cfg, now) /\ ~InWinddown(cfg, now)
    /\ position' = "held"

\* With a wind-down of a minute or more the last minute of the last window is
\* inside it, so a position that is still held there is marked before the
\* window closes (should_flatten, and the pass of every minute).
THEOREM FlatBeforeCloseSafe == ClockSpec => FlatBeforeClose
<1>1. WeekShape /\ [ClockNext]_clockVars => [~RidesThroughClose]_clockVars
  <2> SUFFICES ASSUME WeekShape, [ClockNext]_clockVars, RidesThroughClose
               PROVE  FALSE
    OBVIOUS
  <2>1. cfg \in Config /\ cfg.flat \in Nat /\ now \in 0 .. Week - 1
    <3>1. cfg \in Config
      BY ConfigsAssumption DEF WeekShape
    <3>2. DayLen \in Nat
      BY HourAssumption DEF DayLen
    <3> QED BY <3>1, <3>2 DEF Config, WeekShape
  <2>2. now' # now
    <3> SUFFICES ASSUME now' = now PROVE FALSE
      OBVIOUS
    <3> QED BY DEF RidesThroughClose
  <2>3. /\ ~(position = "held" /\ LiveFlatten(cfg, now))
        /\ now' = (now + 1) % Week /\ position' = position
    BY <2>2 DEF ClockNext, Flag, Close, Enter, Exit, Tick, clockVars
  <2>4. ~WeekendClosed(cfg, now) /\ ~ShouldFlatten(cfg, now)
    BY <2>3 DEF LiveFlatten, RidesThroughClose
  <2>5. PICK u \in Int : u = (now + 1) % Week
    <3>1. PICK n \in Int, k \in Nat \ {0} : n = now + 1 /\ k = Week
      BY <2>1, HourAssumption DEF Week, DayLen
    <3> QED BY <3>1
  <2>6. PICK w \in OpenWindows(cfg, now) : Remaining(cfg, w, now) = MinutesToClose(cfg, now)
    BY <2>1, LastWindow DEF RidesThroughClose
  <2>7. w \notin OpenWindows(cfg, u)
    BY <2>3, <2>5 DEF RidesThroughClose
  <2>8. MinutesToClose(cfg, now) = 1
    BY <2>1, <2>5, <2>6, <2>7, WindowEnds
  <2>9. LiveOpen(cfg, FALSE, now)
    BY <2>4 DEF LiveOpen, InSession, RidesThroughClose
  <2>10. MinutesToClose(cfg, now) <= cfg.flat
    BY <2>1, <2>8 DEF RidesThroughClose
  <2> QED BY <2>4, <2>9, <2>10 DEF ShouldFlatten, RidesThroughClose
<1>2. ClockSpec => []WeekShape
  BY WeekHolds
<1>3. ClockSpec => [][~RidesThroughClose]_clockVars
  BY <1>1, <1>2, PTL DEF ClockSpec
<1>4. [~RidesThroughClose]_clockVars =>
        [ /\ cfg.flat > 0 /\ ~cfg.all_hours /\ Windowed(cfg)
          /\ OpenWindows(cfg, now) # {} /\ OpenWindows(cfg, now') = {}
          /\ ~BlockedHour(cfg, now) /\ ~InWinddown(cfg, now)
          => position' # "held" ]_clockVars
  BY DEF RidesThroughClose
<1> QED BY <1>3, <1>4, PTL DEF FlatBeforeClose

-----------------------------------------------------------------------------
(* The symbol book (SymbolBook).  Requests are served one at a time and    *)
(* nobody steps into their windows (OneDesk): two adds at once may hand    *)
(* out one number, and an autopilot between a switch and its mark may undo *)
(* it.                                                                     *)

\* One request thread, and nobody steps into its windows.
OneDesk == ~Gaps /\ \A t, u \in Threads : t = u

At(t, where) == req[t] # Absent /\ req[t].at = where

\* What a thread has read is still so when it writes: the row is not there
\* and its number is nobody's, and the rows to be written back are the rows.
SavesFresh ==
    \A t \in Threads :
        /\ At(t, "save") => req[t].name \notin InBook /\ req[t].magic \notin Owned
        /\ At(t, "sort") => req[t].rows = book

\* No window is open while the autopilot works through its list.
NoTickInGap == InGap => tick = {}

\* The flags know every "off" the operator has said, once it is marked.
FlagsTold ==
    \A n \in Names : word[n] = "off" =>
        /\ \/ n \in off
           \/ \E t \in Threads : At(t, "write") \/ (At(t, "mark") /\ req[t].name = n)
        /\ \A t \in Threads :
              /\ At(t, "mark") /\ req[t].name = n => ~req[t].on
              /\ At(t, "write") => n \in req[t].marks

\* What the autopilot is about to open, nobody has closed.
TickOpen == \A n \in tick : word[n] # "off"

\* A number that was read as free has no deal of anybody.
DealsAvoided ==
    \A t \in Threads, d \in deals :
        /\ At(t, "add") => d.magic \in req[t].avoid \cup Owned
        /\ At(t, "save") => d.magic # req[t].magic

BookInv ==
    /\ BookTypeOK /\ UniqueMagic /\ Managed /\ OffStays
    /\ SavesFresh /\ NoTickInGap /\ FlagsTold /\ TickOpen
    /\ ~ReadsMayFail => DealsAvoided

-----------------------------------------------------------------------------
(* Rows, numbers and requests.                                             *)

\* The number chosen for a new row is one that nothing owns.
LEMMA NewMagicIsFree ==
    ASSUME NEW n \in Names, NEW avoid, Free(avoid) # {}
    PROVE  NewMagic(n, avoid) \in Magics /\ ~MagicTaken(NewMagic(n, avoid), avoid)
<1>1. Preset[n] \in 0..MaxMagic /\ MaxMagic \in Nat
  BY BookPresets, BookCounts
<1>2. Free(avoid) \in SUBSET Nat
  BY BookCounts DEF Free, Magics
<1>3. Min(Free(avoid)) \in Free(avoid)
  BY <1>2, LeastNat
<1> QED
  BY <1>1, <1>3 DEF NewMagic, Free, Magics

LEMMA RowParts ==
    ASSUME NEW r \in Rows
    PROVE  /\ r # Absent
           /\ \A x \in BOOLEAN :
                 LET q == [r EXCEPT !.enabled = x]
                 IN  /\ q \in Rows /\ q # Absent /\ q.magic = r.magic
                     /\ q.enabled = x
           /\ \A x \in Stamps :
                 LET q == [r EXCEPT !.stamp = x]
                 IN  /\ q \in Rows /\ q # Absent /\ q.magic = r.magic
                     /\ q.enabled = r.enabled
           /\ \A x \in Magics :
                 LET q == [r EXCEPT !.magic = x]
                 IN  /\ q \in Rows /\ q # Absent /\ q.magic = x
                     /\ q.enabled = r.enabled
<1>1. \A x \in BOOLEAN : LET q == [r EXCEPT !.enabled = x]
                         IN  q \in Rows /\ q.magic = r.magic /\ q.enabled = x
  BY DEF Rows
<1>2. \A x \in Stamps : LET q == [r EXCEPT !.stamp = x]
                        IN  q \in Rows /\ q.magic = r.magic /\ q.enabled = r.enabled
  BY DEF Rows
<1>3. \A x \in Magics : LET q == [r EXCEPT !.magic = x]
                        IN  q \in Rows /\ q.magic = x /\ q.enabled = r.enabled
  BY DEF Rows
<1> QED
  BY <1>1, <1>2, <1>3, BookAbsent

LEMMA NewRowParts ==
    ASSUME NEW m \in Magics
    PROVE  /\ NewRow(m) \in Rows /\ NewRow(m) # Absent
           /\ NewRow(m).magic = m /\ NewRow(m).enabled = FALSE
<1>1. NewRow(m) \in Rows
  BY DEF NewRow, Rows, Stamps
<1> QED
  BY <1>1, BookAbsent DEF NewRow

LEMMA InBookRows ==
    ASSUME BookTypeOK
    PROVE  /\ \A n \in InBook : n \in Names /\ book[n] \in Rows /\ book[n].magic \in Owned
           /\ \A n \in Names : n \in InBook <=> book[n] # Absent
           /\ Owned \subseteq Magics
<1>1. \A n \in InBook : n \in Names /\ book[n] \in Rows
  BY DEF BookTypeOK, InBook
<1> QED
  BY <1>1 DEF InBook, Owned, Rows

\* A request goes on, or ends.
LEMMA ReqGoes ==
    ASSUME BookTypeOK, NEW t \in Threads, NEW r \in Requests \cup {Absent}, Goes(t, r)
    PROVE  /\ req' \in [Threads -> Requests \cup {Absent}]
           /\ req'[t] = r
           /\ r \in Requests => r # Absent
BY BookAbsent DEF BookTypeOK, Goes

LEMMA ReqFinishes ==
    ASSUME BookTypeOK, NEW t \in Threads, Finishes(t)
    PROVE  /\ req' \in [Threads -> Requests \cup {Absent}]
           /\ req'[t] = Absent
BY DEF BookTypeOK, Finishes

\* What is known of a request by where it stands.
LEMMA ReqParts ==
    ASSUME BookTypeOK, NEW t \in Threads, req[t] # Absent
    PROVE  /\ req[t] \in Requests
           /\ req[t].at \in {"add", "save", "sort", "mark", "write"}
           /\ req[t].at = "add" => req[t].name \in Names /\ req[t].avoid \in SUBSET Magics
           /\ req[t].at = "save" => req[t].name \in Names /\ req[t].magic \in Magics
           /\ req[t].at = "sort" => req[t].rows \in [Names -> Rows \cup {Absent}]
           /\ req[t].at = "mark" => req[t].name \in Names /\ req[t].on \in BOOLEAN
           /\ req[t].at = "write" => req[t].marks \in SUBSET Names
<1>1. req[t] \in Requests
  BY DEF BookTypeOK
<1> QED
  BY <1>1 DEF Requests

\* Before a request begins nothing else is under way.
LEMMA Quiet ==
    ASSUME BookInv, OneDesk, NEW t \in Threads, Begins(t)
    PROVE  /\ \A u \in Threads : u = t /\ req[u] = Absent
           /\ tick = {}
           /\ \A n \in Names : word[n] = "off" => n \in off
<1>1. \A u \in Threads : u = t /\ req[u] = Absent
  BY DEF OneDesk, Begins
<1>2. tick = {}
  BY DEF Begins, Clear, OneDesk
<1>3. \A u \in Threads : ~At(u, "mark") /\ ~At(u, "write")
  BY <1>1 DEF At
<1> QED
  BY <1>1, <1>2, <1>3 DEF BookInv, FlagsTold

-----------------------------------------------------------------------------
(* Steps that leave the rows or their numbers alone.                       *)

\* The rows keep their numbers, the positions and scans their owners.
LEMMA SameNumbers ==
    ASSUME BookTypeOK, UniqueMagic, Managed,
           book' \in [Names -> Rows \cup {Absent}],
           \A n \in Names : (book'[n] # Absent) <=> (book[n] # Absent),
           \A n \in InBook : book'[n].magic = book[n].magic
    PROVE  /\ InBook' = InBook /\ Owned' = Owned /\ UniqueMagic'
           /\ \A p \in held \cup scan : p.by \in InBook' /\ book'[p.by].magic = p.magic
<1>1. InBook' = InBook
  BY DEF InBook
<1>2. Owned' = Owned
  BY <1>1 DEF Owned
<1>3. UniqueMagic'
  BY <1>1 DEF UniqueMagic
<1> QED
  BY <1>1, <1>2, <1>3 DEF Managed

LEMMA SameBook ==
    ASSUME BookTypeOK, UniqueMagic, Managed, OffStays, UNCHANGED <<book, word>>
    PROVE  /\ InBook' = InBook /\ Owned' = Owned /\ UniqueMagic' /\ OffStays'
           /\ \A p \in held \cup scan : p.by \in InBook' /\ book'[p.by].magic = p.magic
<1>1. InBook' = InBook
  BY DEF InBook
<1>2. Owned' = Owned
  BY <1>1 DEF Owned
<1>3. UniqueMagic' /\ OffStays'
  BY <1>1 DEF UniqueMagic, OffStays
<1> QED
  BY <1>1, <1>2, <1>3 DEF Managed

\* The broker, the optimizer's queue and the link touch no request and no row.
LEMMA BrokerKeeps ==
    ASSUME BookInv, UNCHANGED <<book, word, off, req, tick>>,
           connected' \in BOOLEAN,
           held' \subseteq Positions, scan' \subseteq Marks, deals' \subseteq Marks,
           job' = Absent \/ job' \in [name : Names, source : {"panel", "onboarding"}],
           \A p \in held' \cup scan' : p.by \in InBook /\ book[p.by].magic = p.magic,
           \A d \in deals' : d \in deals \/ d.magic \in Owned
    PROVE  BookInv'
<1> USE DEF BookInv
<1>1. InBook' = InBook /\ Owned' = Owned /\ UniqueMagic' /\ OffStays'
  BY SameBook
<1>2. BookTypeOK'
  BY DEF BookTypeOK
<1>3. Managed'
  BY <1>1 DEF Managed
<1>4. SavesFresh' /\ NoTickInGap' /\ FlagsTold' /\ TickOpen'
  BY <1>1 DEF SavesFresh, NoTickInGap, FlagsTold, TickOpen, At, InGap
<1>5. ASSUME ~ReadsMayFail
      PROVE  DealsAvoided'
  BY <1>1, <1>5 DEF DealsAvoided, SavesFresh, At
<1> QED
  BY <1>1, <1>2, <1>3, <1>4, <1>5

-----------------------------------------------------------------------------
(* Adding and sorting.                                                     *)

LEMMA AddReadsKeeps ==
    ASSUME BookInv, OneDesk, NEW t \in Threads, NEW n \in Names, AddReads(t, n)
    PROVE  BookInv'
<1> USE DEF BookInv
<1>1. /\ UNCHANGED <<book, held, scan, deals, off, word, job, tick>>
      /\ tick = {}
      /\ \A u \in Threads : u = t /\ req[u] = Absent
      /\ \A k \in Names : word[k] = "off" => k \in off
  BY Quiet DEF AddReads
<1>2. PICK avoid \in SUBSET Magics :
         /\ ReadsAvoid(avoid)
         /\ Goes(t, [at |-> "add", name |-> n, avoid |-> avoid])
  BY DEF AddReads
<1> DEFINE r == [at |-> "add", name |-> n, avoid |-> avoid]
<1>3. r \in Requests
  BY DEF Requests
<1>4. /\ req' \in [Threads -> Requests \cup {Absent}]
      /\ req'[t] = r /\ r # Absent /\ r.at = "add" /\ r.avoid = avoid
  BY <1>2, <1>3, ReqGoes
<1> HIDE DEF r
<1>5. connected' \in BOOLEAN
  BY <1>2 DEF ReadsAvoid, BookTypeOK
<1>6. BookTypeOK' /\ InBook' = InBook /\ Owned' = Owned /\ UniqueMagic' /\ OffStays'
      /\ Managed'
  BY <1>1, <1>4, <1>5, SameBook DEF BookTypeOK, Managed
<1>7. \A u \in Threads : /\ ~At(u, "save")' /\ ~At(u, "sort")'
                         /\ ~At(u, "mark")' /\ ~At(u, "write")'
  BY <1>1, <1>4 DEF At
<1>8. SavesFresh' /\ NoTickInGap' /\ FlagsTold' /\ TickOpen'
  BY <1>1, <1>6, <1>7 DEF SavesFresh, NoTickInGap, FlagsTold, TickOpen
<1>9. ASSUME ~ReadsMayFail
      PROVE  DealsAvoided'
  <2>1. avoid = OrphanMagics \cup DealMagics
    BY <1>2, <1>9 DEF ReadsAvoid
  <2>2. \A d \in deals : d.magic \in avoid
    BY <2>1 DEF DealMagics
  <2> QED
    BY <1>1, <1>4, <1>7, <2>2 DEF DealsAvoided, At
<1> QED
  BY <1>6, <1>8, <1>9

LEMMA AddPicksKeeps ==
    ASSUME BookInv, OneDesk, NEW t \in Threads, AddPicks(t)
    PROVE  BookInv'
<1> USE DEF BookInv
<1>1. /\ UNCHANGED <<book, held, scan, deals, connected, off, word, job, tick>>
      /\ req[t] # Absent /\ req[t].at = "add"
      /\ req[t].name \in Names /\ req[t].avoid \in SUBSET Magics
      /\ \A u \in Threads : u = t
  BY ReqParts DEF AddPicks, OneDesk
<1>2. \A n \in Names : word[n] = "off" => n \in off
  BY <1>1 DEF FlagsTold, At
<1>3. InBook' = InBook /\ Owned' = Owned /\ UniqueMagic' /\ OffStays' /\ Managed'
  BY <1>1, SameBook DEF Managed
<1>4. CASE Finishes(t)
  <2>1. req' \in [Threads -> Requests \cup {Absent}] /\ req'[t] = Absent
    BY <1>4, ReqFinishes
  <2>2. BookTypeOK'
    BY <1>1, <2>1 DEF BookTypeOK
  <2>3. \A u \in Threads, w \in {"add", "save", "sort", "mark", "write"} : ~At(u, w)'
    BY <1>1, <2>1 DEF At
  <2>4. NoTickInGap'
    BY <1>1, <2>1 DEF NoTickInGap, InGap
  <2>5. SavesFresh' /\ FlagsTold' /\ TickOpen' /\ DealsAvoided'
    BY <1>1, <1>2, <2>3 DEF SavesFresh, FlagsTold, TickOpen, DealsAvoided
  <2> QED
    BY <1>3, <2>2, <2>4, <2>5
<1>5. CASE /\ req[t].name \notin InBook
           /\ Free(req[t].avoid) # {}
           /\ Goes(t, [at |-> "save", name |-> req[t].name,
                       magic |-> NewMagic(req[t].name, req[t].avoid)])
  <2> DEFINE m == NewMagic(req[t].name, req[t].avoid)
             r == [at |-> "save", name |-> req[t].name, magic |-> m]
  <2>1. m \in Magics /\ m \notin Owned \cup Scanned \cup req[t].avoid
    BY <1>1, <1>5, NewMagicIsFree DEF MagicTaken
  <2> HIDE DEF m
  <2>2. r \in Requests
    BY <1>1, <2>1 DEF Requests
  <2>3. /\ req' \in [Threads -> Requests \cup {Absent}]
        /\ req'[t] = r /\ r # Absent
        /\ r.at = "save" /\ r.name = req[t].name /\ r.magic = m
    BY <1>5, <2>2, ReqGoes DEF m
  <2> HIDE DEF r
  <2>4. BookTypeOK'
    BY <1>1, <2>3 DEF BookTypeOK
  <2>5. \A u \in Threads, w \in {"add", "sort", "mark", "write"} : ~At(u, w)'
    BY <1>1, <2>3 DEF At
  <2>6. SavesFresh'
    BY <1>1, <1>3, <1>5, <2>1, <2>3, <2>5 DEF SavesFresh
  <2>7. NoTickInGap'
    BY <1>1, <2>5 DEF NoTickInGap, InGap, At
  <2>8. FlagsTold' /\ TickOpen'
    BY <1>1, <1>2, <2>5 DEF FlagsTold, TickOpen
  <2>9. ASSUME ~ReadsMayFail
        PROVE  DealsAvoided'
    <3>1. \A d \in deals : d.magic # m
      BY <1>1, <2>1, <2>9 DEF DealsAvoided, At
    <3> QED
      BY <1>1, <2>3, <2>5, <3>1 DEF DealsAvoided
  <2> QED
    BY <1>3, <2>4, <2>6, <2>7, <2>8, <2>9
<1> QED
  BY <1>4, <1>5 DEF AddPicks

\* A row that is added gets a number nothing owns, and nothing that is open
\* or looked for is of its name.
LEMMA AddSavesKeeps ==
    ASSUME BookInv, OneDesk, NEW t \in Threads, AddSaves(t)
    PROVE  BookInv'
<1> USE DEF BookInv
<1>1. PICK n \in Names, m \in Magics : n = req[t].name /\ m = req[t].magic
  BY ReqParts DEF AddSaves
<1> DEFINE rows == [book EXCEPT ![n] = NewRow(m)]
           r == [at |-> "sort", rows |-> rows]
<1>2. /\ UNCHANGED <<held, scan, deals, connected, off, job, tick>>
      /\ req[t] # Absent /\ req[t].at = "save" /\ Clear
      /\ book' = rows /\ Goes(t, r)
      /\ word' = [word EXCEPT ![n] = "none"]
      /\ \A u \in Threads : u = t
  BY <1>1 DEF AddSaves, OneDesk
<1>3. n \notin InBook /\ m \notin Owned
  BY <1>1, <1>2 DEF SavesFresh, At
<1>4. NewRow(m) \in Rows /\ NewRow(m) # Absent /\ NewRow(m).magic = m
      /\ NewRow(m).enabled = FALSE
  BY NewRowParts
<1>5. /\ rows \in [Names -> Rows \cup {Absent}] /\ rows[n] = NewRow(m)
      /\ \A k \in Names \ {n} : rows[k] = book[k]
  BY <1>4 DEF BookTypeOK
<1> HIDE DEF rows
<1>6. r \in Requests
  BY <1>5 DEF Requests
<1>7. /\ req' \in [Threads -> Requests \cup {Absent}]
      /\ req'[t] = r /\ r # Absent /\ r.at = "sort" /\ r.rows = rows
  BY <1>2, <1>6, ReqGoes
<1> HIDE DEF r
<1>8. BookTypeOK'
  BY <1>2, <1>5, <1>7 DEF BookTypeOK
<1>9. InBook' = InBook \cup {n}
  BY <1>2, <1>4, <1>5 DEF InBook
<1>10. UniqueMagic'
  BY <1>2, <1>3, <1>4, <1>5, <1>9, InBookRows DEF UniqueMagic
<1>11. Managed'
  <2>1. \A p \in held \cup scan : p.by \in InBook /\ p.by # n
    BY <1>3 DEF Managed
  <2> QED
    BY <1>2, <1>5, <1>9, <2>1, InBookRows DEF Managed
<1>12. /\ word'[n] = "none" /\ \A k \in Names \ {n} : word'[k] = word[k]
  BY <1>2 DEF BookTypeOK
<1>13. OffStays'
  BY <1>2, <1>4, <1>5, <1>9, <1>12, InBookRows DEF OffStays
<1>14. tick = {}
  BY <1>2 DEF Clear, OneDesk
<1>15. \A u \in Threads, w \in {"add", "save", "mark", "write"} : ~At(u, w)'
  BY <1>2, <1>7 DEF At
<1>16. \A k \in Names : word[k] = "off" => k \in off
  BY <1>2 DEF FlagsTold, At
<1>17. SavesFresh'
  BY <1>2, <1>7, <1>15 DEF SavesFresh
<1>18. NoTickInGap' /\ TickOpen'
  BY <1>2, <1>14 DEF NoTickInGap, TickOpen
<1>19. FlagsTold'
  BY <1>2, <1>12, <1>15, <1>16 DEF FlagsTold
<1>20. DealsAvoided'
  BY <1>15 DEF DealsAvoided
<1> QED
  BY <1>8, <1>10, <1>11, <1>13, <1>17, <1>18, <1>19, <1>20

LEMMA SortKeeps ==
    ASSUME BookInv, OneDesk, NEW t \in Threads, SortPanel(t)
    PROVE  BookInv'
<1> USE DEF BookInv
<1> DEFINE r == [at |-> "sort", rows |-> book]
<1>1. /\ UNCHANGED <<book, held, scan, deals, connected, off, word, job, tick>>
      /\ Goes(t, r) /\ tick = {}
      /\ \A u \in Threads : u = t
      /\ \A k \in Names : word[k] = "off" => k \in off
  BY Quiet DEF SortPanel
<1>2. r \in Requests
  BY DEF Requests, BookTypeOK
<1>3. /\ req' \in [Threads -> Requests \cup {Absent}]
      /\ req'[t] = r /\ r # Absent /\ r.at = "sort" /\ r.rows = book
  BY <1>1, <1>2, ReqGoes
<1> HIDE DEF r
<1>4. BookTypeOK' /\ InBook' = InBook /\ UniqueMagic' /\ OffStays' /\ Managed'
  BY <1>1, <1>3, SameBook DEF BookTypeOK, Managed
<1>5. \A u \in Threads, w \in {"add", "save", "mark", "write"} : ~At(u, w)'
  BY <1>1, <1>3 DEF At
<1>6. SavesFresh' /\ NoTickInGap' /\ FlagsTold' /\ TickOpen' /\ DealsAvoided'
  BY <1>1, <1>3, <1>5 DEF SavesFresh, NoTickInGap, FlagsTold, TickOpen, DealsAvoided
<1> QED
  BY <1>4, <1>6

\* The rows that are written back are the rows.
LEMMA SortsNothing ==
    ASSUME BookInv, NEW t \in Threads, Sorts(t)
    PROVE  book' = book
<1>1. req[t].rows = book
  BY DEF BookInv, SavesFresh, Sorts, At
<1>2. book \in [Names -> Rows \cup {Absent}]
  BY DEF BookInv, BookTypeOK
<1> QED
  BY <1>1, <1>2 DEF Sorts

LEMMA SortsKeeps ==
    ASSUME BookInv, OneDesk, NEW t \in Threads, Sorts(t)
    PROVE  BookInv'
<1> USE DEF BookInv
<1>1. /\ UNCHANGED <<book, held, scan, deals, connected, off, word, job, tick>>
      /\ req[t] # Absent /\ req[t].at = "sort"
      /\ Finishes(t) /\ \A u \in Threads : u = t
  BY SortsNothing DEF Sorts, OneDesk
<1>2. req' \in [Threads -> Requests \cup {Absent}] /\ req'[t] = Absent
  BY <1>1, ReqFinishes
<1>3. BookTypeOK' /\ InBook' = InBook /\ UniqueMagic' /\ OffStays' /\ Managed'
  BY <1>1, <1>2, SameBook DEF BookTypeOK, Managed
<1>4. \A u \in Threads, w \in {"add", "save", "sort", "mark", "write"} : ~At(u, w)'
  BY <1>1, <1>2 DEF At
<1>5. \A k \in Names : word[k] = "off" => k \in off
  BY <1>1 DEF FlagsTold, At
<1>6. NoTickInGap'
  BY <1>1, <1>2 DEF NoTickInGap, InGap
<1> QED
  BY <1>1, <1>3, <1>4, <1>5, <1>6 DEF SavesFresh, FlagsTold, TickOpen, DealsAvoided

-----------------------------------------------------------------------------
(* Removing, renumbering, wiping.                                          *)

\* A step between requests that leaves the requests, the switches and the
\* positions alone, and the rows where their positions are.
LEMMA RowsKeep ==
    ASSUME BookInv, OneDesk, NEW t \in Threads, Begins(t),
           UNCHANGED <<held, deals, connected, off, word, job, req, tick>>,
           scan' \subseteq scan,
           book' \in [Names -> Rows \cup {Absent}],
           UniqueMagic',
           \A n \in Names : book'[n] # Absent /\ word[n] = "off" => ~book'[n].enabled,
           \A p \in held \cup scan' : book'[p.by] = book[p.by]
    PROVE  BookInv'
<1> USE DEF BookInv
<1>1. /\ tick = {} /\ \A u \in Threads : u = t /\ req[u] = Absent
      /\ \A k \in Names : word[k] = "off" => k \in off
  BY Quiet
<1>2. BookTypeOK'
  BY DEF BookTypeOK
<1>3. Managed'
  BY InBookRows DEF Managed, InBook
<1>4. OffStays'
  BY DEF OffStays, InBook
<1>5. \A u \in Threads, w \in {"add", "save", "sort", "mark", "write"} : ~At(u, w)'
  BY <1>1 DEF At
<1>6. SavesFresh' /\ NoTickInGap' /\ FlagsTold' /\ TickOpen' /\ DealsAvoided'
  BY <1>1, <1>5 DEF SavesFresh, NoTickInGap, FlagsTold, TickOpen, DealsAvoided
<1> QED
  BY <1>2, <1>3, <1>4, <1>6

\* A symbol that is flat under its number, and not looked for, has nothing.
LEMMA FlatMeansNothing ==
    ASSUME BookInv, NEW n \in InBook, ~Open(book[n].magic), ~Pending(n)
    PROVE  \A p \in held \cup scan : p.by # n
BY DEF BookInv, Managed, Open, Pending

LEMMA DeleteKeeps ==
    ASSUME BookInv, OneDesk, NEW t \in Threads, NEW n \in Names, Delete(t, n)
    PROVE  BookInv'
<1> USE DEF BookInv
<1>1. /\ Begins(t) /\ n \in InBook
      /\ book' = [book EXCEPT ![n] = Absent]
      /\ UNCHANGED <<held, scan, deals, connected, off, word, job, req, tick>>
      /\ \A p \in held \cup scan : p.by # n
  BY FlatMeansNothing DEF Delete
<1>2. /\ book' \in [Names -> Rows \cup {Absent}] /\ book'[n] = Absent
      /\ \A k \in Names \ {n} : book'[k] = book[k]
  BY <1>1 DEF BookTypeOK
<1>3. UniqueMagic'
  BY <1>2 DEF UniqueMagic, InBook
<1>4. \A k \in Names : book'[k] # Absent /\ word[k] = "off" => ~book'[k].enabled
  BY <1>2 DEF OffStays, InBook
<1>5. \A p \in held \cup scan : p.by \in Names \ {n}
  BY <1>1 DEF Managed, InBook
<1> QED
  BY <1>1, <1>2, <1>3, <1>4, <1>5, RowsKeep

LEMMA RenumberKeeps ==
    ASSUME BookInv, OneDesk, NEW t \in Threads, NEW n \in Names, NEW m \in Magics,
           Renumber(t, n, m)
    PROVE  BookInv'
<1> USE DEF BookInv
<1> DEFINE row == [book[n] EXCEPT !.magic = m]
<1>1. /\ Begins(t) /\ n \in InBook /\ m \notin Owned
      /\ book' = [book EXCEPT ![n] = row]
      /\ UNCHANGED <<held, scan, deals, connected, off, word, job, req, tick>>
      /\ \A p \in held \cup scan : p.by # n
  BY FlatMeansNothing DEF Renumber
<1>2. row \in Rows /\ row # Absent /\ row.magic = m /\ row.enabled = book[n].enabled
  BY <1>1, InBookRows, RowParts
<1> HIDE DEF row
<1>3. /\ book' \in [Names -> Rows \cup {Absent}] /\ book'[n] = row
      /\ \A k \in Names \ {n} : book'[k] = book[k]
  BY <1>1, <1>2 DEF BookTypeOK
<1>4. UniqueMagic'
  <2>1. InBook' = InBook
    BY <1>1, <1>2, <1>3 DEF InBook
  <2> QED
    BY <1>1, <1>2, <1>3, <2>1, InBookRows DEF UniqueMagic
<1>5. \A k \in Names : book'[k] # Absent /\ word[k] = "off" => ~book'[k].enabled
  BY <1>1, <1>2, <1>3 DEF OffStays, InBook
<1>6. \A p \in held \cup scan : p.by \in Names \ {n}
  BY <1>1 DEF Managed, InBook
<1> QED
  BY <1>1, <1>3, <1>4, <1>5, <1>6, RowsKeep

\* The shipped rows.
LEMMA ShippedRows ==
    ASSUME NEW b, b = [n \in Names |-> IF Preset[n] = 0 THEN Absent ELSE NewRow(Preset[n])]
    PROVE  /\ b \in [Names -> Rows \cup {Absent}]
           /\ \A n \in Names : b[n] # Absent => b[n].magic = Preset[n]
                                                /\ b[n].enabled = FALSE
           /\ \A n, k \in Names : n # k /\ b[n] # Absent /\ b[k] # Absent
                                  => b[n].magic # b[k].magic
<1>1. \A n \in Names : Preset[n] # 0 => Preset[n] \in Magics
  BY BookPresets, BookCounts DEF Magics
<1>2. \A n \in Names : Preset[n] # 0 =>
          /\ NewRow(Preset[n]) \in Rows /\ NewRow(Preset[n]).magic = Preset[n]
          /\ NewRow(Preset[n]).enabled = FALSE
  BY <1>1, NewRowParts
<1>3. \A n \in Names : b[n] # Absent => /\ Preset[n] # 0 /\ b[n].magic = Preset[n]
                                        /\ b[n].enabled = FALSE
  BY <1>2
<1>4. b \in [Names -> Rows \cup {Absent}]
  BY <1>2
<1> QED
  BY <1>3, <1>4, BookPresets

LEMMA WipeKeeps ==
    ASSUME BookInv, OneDesk, NEW t \in Threads, Wipe(t)
    PROVE  BookInv'
<1> USE DEF BookInv
<1>1. /\ Begins(t) /\ scan' = {}
      /\ \A n \in InBook : ~Open(book[n].magic) /\ ~Pending(n)
      /\ book' = [n \in Names |-> IF Preset[n] = 0 THEN Absent ELSE NewRow(Preset[n])]
      /\ UNCHANGED <<held, deals, connected, off, word, job, req, tick>>
  BY DEF Wipe
<1>2. held = {}
  BY <1>1, FlatMeansNothing DEF Managed
<1>3. /\ book' \in [Names -> Rows \cup {Absent}]
      /\ \A n \in Names : book'[n] # Absent => ~book'[n].enabled
      /\ UniqueMagic'
  BY <1>1, ShippedRows DEF UniqueMagic, InBook
<1> QED
  BY <1>1, <1>2, <1>3, RowsKeep

-----------------------------------------------------------------------------
(* The switch.                                                             *)

LEMMA SwitchKeeps ==
    ASSUME BookInv, OneDesk, NEW t \in Threads, NEW n \in Names, NEW on \in BOOLEAN,
           Switch(t, n, on)
    PROVE  BookInv'
<1> USE DEF BookInv
<1> DEFINE row == [book[n] EXCEPT !.enabled = on]
           say == IF on THEN "on" ELSE "off"
           r == [at |-> "mark", name |-> n, on |-> on]
<1>1. /\ Begins(t) /\ n \in InBook
      /\ book' = [book EXCEPT ![n] = row]
      /\ word' = [word EXCEPT ![n] = say]
      /\ Goes(t, r)
      /\ UNCHANGED <<held, scan, deals, connected, off, job, tick>>
  BY DEF Switch
<1>2. /\ tick = {} /\ \A u \in Threads : u = t /\ req[u] = Absent
      /\ \A k \in Names : word[k] = "off" => k \in off
  BY <1>1, Quiet
<1>3. /\ row \in Rows /\ row # Absent /\ row.magic = book[n].magic
      /\ row.enabled = on /\ book[n] # Absent
  BY <1>1, InBookRows, RowParts
<1> HIDE DEF row
<1>4. r \in Requests
  BY DEF Requests
<1>5. /\ req' \in [Threads -> Requests \cup {Absent}] /\ req'[t] = r /\ r # Absent
      /\ r.at = "mark" /\ r.name = n /\ r.on = on
  BY <1>1, <1>4, ReqGoes
<1> HIDE DEF r
<1>6. /\ book' \in [Names -> Rows \cup {Absent}] /\ book'[n] = row
      /\ \A k \in Names \ {n} : book'[k] = book[k]
  BY <1>1, <1>3 DEF BookTypeOK
<1>7. /\ say \in {"on", "off"} /\ (say = "off" => ~on)
      /\ word' \in [Names -> {"none", "on", "off"}] /\ word'[n] = say
      /\ \A k \in Names \ {n} : word'[k] = word[k]
  BY <1>1 DEF BookTypeOK
<1> HIDE DEF say
<1>8. InBook' = InBook /\ Owned' = Owned /\ UniqueMagic' /\ Managed'
  <2>1. /\ \A k \in Names : (book'[k] # Absent) <=> (book[k] # Absent)
        /\ \A k \in InBook : book'[k].magic = book[k].magic
    BY <1>3, <1>6, InBookRows
  <2> QED
    BY <1>1, <1>6, <2>1, SameNumbers DEF Managed
<1>9. BookTypeOK'
  BY <1>1, <1>5, <1>6, <1>7 DEF BookTypeOK
<1>10. OffStays'
  BY <1>3, <1>6, <1>7, <1>8, InBookRows DEF OffStays
<1>11. \A u \in Threads, w \in {"add", "save", "sort", "write"} : ~At(u, w)'
  BY <1>2, <1>5 DEF At
<1>12. FlagsTold'
  <2>1. \A u \in Threads : At(u, "mark")' /\ req'[u].name = n /\ req'[u].on = on
    BY <1>2, <1>5 DEF At
  <2>2. \A k \in Names : word'[k] = "off" => IF k = n THEN ~on ELSE k \in off'
    BY <1>1, <1>2, <1>7
  <2> QED
    BY <1>11, <2>1, <2>2 DEF FlagsTold
<1>13. SavesFresh' /\ NoTickInGap' /\ TickOpen' /\ DealsAvoided'
  BY <1>1, <1>2, <1>11 DEF SavesFresh, NoTickInGap, TickOpen, DealsAvoided
<1> QED
  BY <1>8, <1>9, <1>10, <1>12, <1>13

LEMMA MarkReadsKeeps ==
    ASSUME BookInv, OneDesk, NEW t \in Threads, MarkReads(t)
    PROVE  BookInv'
<1> USE DEF BookInv
<1> DEFINE marks == Flagged(off, req[t].name, req[t].on)
           r == [at |-> "write", marks |-> marks]
<1>1. /\ req[t] # Absent /\ req[t].at = "mark"
      /\ Goes(t, r) /\ \A u \in Threads : u = t
      /\ UNCHANGED <<book, held, scan, deals, connected, off, word, job, tick>>
      /\ req[t].name \in Names /\ req[t].on \in BOOLEAN
  BY ReqParts DEF MarkReads, OneDesk
<1>2. \A k \in Names : word[k] = "off" => k \in marks
  <2>1. \A k \in Names : word[k] = "off" =>
           /\ k \in off \/ k = req[t].name
           /\ k = req[t].name => ~req[t].on
    BY <1>1 DEF FlagsTold, At
  <2> QED
    BY <2>1 DEF Flagged
<1>3. marks \in SUBSET Names
  BY <1>1 DEF Flagged, BookTypeOK
<1> HIDE DEF marks
<1>4. r \in Requests
  BY <1>3 DEF Requests
<1>5. /\ req' \in [Threads -> Requests \cup {Absent}] /\ req'[t] = r /\ r # Absent
      /\ r.at = "write" /\ r.marks = marks
  BY <1>1, <1>4, ReqGoes
<1> HIDE DEF r
<1>6. BookTypeOK' /\ InBook' = InBook /\ UniqueMagic' /\ OffStays' /\ Managed'
  BY <1>1, <1>5, SameBook DEF BookTypeOK, Managed
<1>7. \A u \in Threads, w \in {"add", "save", "sort", "mark"} : ~At(u, w)'
  BY <1>1, <1>5 DEF At
<1>8. FlagsTold'
  <2>1. \A u \in Threads : At(u, "write")' /\ req'[u].marks = marks
    BY <1>1, <1>5 DEF At
  <2> QED
    BY <1>1, <1>2, <1>7, <2>1 DEF FlagsTold
<1>9. NoTickInGap'
  BY <1>1 DEF NoTickInGap, InGap
<1> QED
  BY <1>1, <1>6, <1>7, <1>8, <1>9 DEF SavesFresh, TickOpen, DealsAvoided

LEMMA MarkWritesKeeps ==
    ASSUME BookInv, OneDesk, NEW t \in Threads, MarkWrites(t)
    PROVE  BookInv'
<1> USE DEF BookInv
<1>1. /\ req[t] # Absent /\ req[t].at = "write" /\ off' = req[t].marks
      /\ Finishes(t) /\ \A u \in Threads : u = t
      /\ UNCHANGED <<book, held, scan, deals, connected, word, job, tick>>
      /\ req[t].marks \in SUBSET Names
  BY ReqParts DEF MarkWrites, OneDesk
<1>2. \A k \in Names : word[k] = "off" => k \in req[t].marks
  BY <1>1 DEF FlagsTold, At
<1>3. req' \in [Threads -> Requests \cup {Absent}] /\ req'[t] = Absent
  BY <1>1, ReqFinishes
<1>4. BookTypeOK' /\ InBook' = InBook /\ UniqueMagic' /\ OffStays' /\ Managed'
  BY <1>1, <1>3, SameBook DEF BookTypeOK, Managed
<1>5. \A u \in Threads, w \in {"add", "save", "sort", "mark", "write"} : ~At(u, w)'
  BY <1>1, <1>3 DEF At
<1>6. FlagsTold'
  BY <1>1, <1>2, <1>5 DEF FlagsTold
<1>7. NoTickInGap'
  BY <1>1, <1>3 DEF NoTickInGap, InGap
<1> QED
  BY <1>1, <1>4, <1>5, <1>6, <1>7 DEF SavesFresh, TickOpen, DealsAvoided

-----------------------------------------------------------------------------
(* The autopilot, the optimizer, the broker and a restart.                 *)

\* No request stands in a window: the steps below need only that.
LEMMA NoGapFlags ==
    ASSUME BookInv, ~InGap
    PROVE  \A n \in Names : word[n] = "off" => n \in off
BY DEF BookInv, FlagsTold, InGap, At

LEMMA TickEnablesKeeps ==
    ASSUME BookInv, OneDesk, TickEnables
    PROVE  BookInv'
<1> USE DEF BookInv
<1>1. /\ tick' = Ready /\ ~InGap
      /\ UNCHANGED <<book, held, scan, deals, connected, off, word, job, req>>
  BY DEF TickEnables, Clear, OneDesk
<1>2. \A n \in Ready : n \in Names /\ n \notin off
  BY DEF Ready, InBook, Operator
<1>3. BookTypeOK' /\ InBook' = InBook /\ Owned' = Owned /\ UniqueMagic' /\ OffStays'
      /\ Managed'
  BY <1>1, <1>2, SameBook DEF BookTypeOK, Managed
<1>4. TickOpen'
  BY <1>1, <1>2, NoGapFlags DEF TickOpen
<1>5. NoTickInGap'
  BY <1>1 DEF NoTickInGap, InGap
<1> QED
  BY <1>1, <1>3, <1>4, <1>5 DEF SavesFresh, FlagsTold, DealsAvoided, At

\* Rows change their switch or their stamp while no request is in a window.
LEMMA MarkedRowsKeep ==
    ASSUME BookInv, ~InGap, NEW n \in InBook, NEW row \in Rows,
           row.magic = book[n].magic,
           word[n] = "off" => ~row.enabled,
           book' = [book EXCEPT ![n] = row],
           UNCHANGED <<held, scan, deals, connected, off, word, req>>,
           tick' \subseteq tick,
           job' = job \/ job' = Absent
    PROVE  BookInv'
<1> USE DEF BookInv
<1>1. row # Absent /\ n \in Names /\ book[n] # Absent
  BY RowParts, InBookRows
<1>2. /\ book' \in [Names -> Rows \cup {Absent}] /\ book'[n] = row
      /\ \A k \in Names \ {n} : book'[k] = book[k]
  BY <1>1 DEF BookTypeOK
<1>3. InBook' = InBook /\ Owned' = Owned /\ UniqueMagic' /\ Managed'
  <2>1. /\ \A k \in Names : (book'[k] # Absent) <=> (book[k] # Absent)
        /\ \A k \in InBook : book'[k].magic = book[k].magic
    BY <1>1, <1>2, InBookRows
  <2> QED
    BY <1>2, <2>1, SameNumbers DEF Managed
<1>4. BookTypeOK'
  BY <1>2 DEF BookTypeOK
<1>5. OffStays'
  BY <1>2, <1>3, InBookRows DEF OffStays
<1>6. \A u \in Threads, w \in {"sort", "mark", "write"} : ~At(u, w)
  BY DEF InGap, At
<1>7. SavesFresh'
  BY <1>3, <1>6 DEF SavesFresh, At
<1>8. NoTickInGap' /\ FlagsTold' /\ TickOpen'
  BY DEF NoTickInGap, InGap, FlagsTold, TickOpen, At
<1>9. ASSUME ~ReadsMayFail
      PROVE  DealsAvoided'
  BY <1>3, <1>9 DEF DealsAvoided, At
<1> QED
  BY <1>3, <1>4, <1>5, <1>7, <1>8, <1>9

LEMMA EnableWritesKeeps ==
    ASSUME BookInv, OneDesk, NEW n \in Names, EnableWrites(n)
    PROVE  BookInv'
<1> USE DEF BookInv
<1>1. /\ n \in tick /\ tick' = tick \ {n} /\ ~InGap /\ word[n] # "off"
      /\ UNCHANGED <<held, scan, deals, connected, off, word, job, req>>
      /\ book' = IF n \in InBook THEN [book EXCEPT ![n].enabled = TRUE] ELSE book
  BY DEF EnableWrites, NoTickInGap, TickOpen
<1>2. CASE n \in InBook
  <2> DEFINE row == [book[n] EXCEPT !.enabled = TRUE]
  <2>1. row \in Rows /\ row.magic = book[n].magic
    BY <1>2, InBookRows, RowParts
  <2>2. book' = [book EXCEPT ![n] = row]
    BY <1>1, <1>2
  <2> HIDE DEF row
  <2> QED
    BY <1>1, <1>2, <2>1, <2>2, MarkedRowsKeep
<1>3. CASE n \notin InBook
  <2>1. book' = book
    BY <1>1, <1>3
  <2>2. BookTypeOK' /\ InBook' = InBook /\ Owned' = Owned /\ UniqueMagic' /\ OffStays'
        /\ Managed'
    BY <1>1, <2>1, SameBook DEF BookTypeOK, Managed
  <2>3. NoTickInGap' /\ TickOpen'
    BY <1>1 DEF NoTickInGap, InGap, TickOpen
  <2> QED
    BY <1>1, <2>1, <2>2, <2>3 DEF SavesFresh, FlagsTold, DealsAvoided, At
<1> QED
  BY <1>2, <1>3

LEMMA QueueKeeps ==
    ASSUME BookInv, TickQueues \/ \E n \in Names : PanelSearch(n)
    PROVE  BookInv'
<1> USE DEF BookInv
<1>1. Newcomers \in SUBSET Names /\ Names \in SUBSET Nat
  BY BookCounts DEF Newcomers, InBook, Names
<1>2. job' \in [name : Names, source : {"panel", "onboarding"}]
  <2>1. CASE TickQueues
    <3>1. Newcomers \in SUBSET Nat /\ Newcomers # {}
      BY <1>1, <2>1 DEF TickQueues
    <3>2. Min(Newcomers) \in Names
      BY <1>1, <3>1, LeastNat
    <3> QED
      BY <2>1, <3>2 DEF TickQueues
  <2>2. CASE \E n \in Names : PanelSearch(n)
    BY <2>2 DEF PanelSearch
  <2> QED
    BY <2>1, <2>2
<1>3. UNCHANGED <<book, held, scan, deals, connected, off, word, req, tick>>
  BY DEF TickQueues, PanelSearch
<1>4. /\ connected \in BOOLEAN
      /\ held \subseteq Positions /\ scan \subseteq Marks /\ deals \subseteq Marks
  BY DEF BookTypeOK
<1>5. \A p \in held \cup scan : p.by \in InBook /\ book[p.by].magic = p.magic
  BY DEF Managed
<1> QED
  BY <1>2, <1>3, <1>4, <1>5, BrokerKeeps

LEMMA SearchEndsKeeps ==
    ASSUME BookInv, OneDesk, NEW result \in Stamps, SearchEnds(result)
    PROVE  BookInv'
<1> USE DEF BookInv
<1> DEFINE n == job.name
<1>1. /\ ~InGap /\ job' = Absent
      /\ UNCHANGED <<held, scan, deals, connected, off, word, req, tick>>
  BY DEF SearchEnds, Clear, OneDesk
<1>2. CASE result = "none"
  <2>1. book' = book
    BY <1>2 DEF SearchEnds
  <2>2. /\ connected \in BOOLEAN
        /\ held \subseteq Positions /\ scan \subseteq Marks /\ deals \subseteq Marks
        /\ \A p \in held \cup scan : p.by \in InBook /\ book[p.by].magic = p.magic
    BY DEF BookTypeOK, Managed
  <2> QED
    BY <1>1, <2>1, <2>2, BrokerKeeps
<1>3. CASE result # "none"
  <2>1. PICK k \in InBook : k = job.name
    BY <1>3 DEF SearchEnds
  <2> DEFINE row == [book[k] EXCEPT !.stamp = result]
  <2>2. book' = [book EXCEPT ![k] = row]
    BY <1>3, <2>1 DEF SearchEnds
  <2>3. row \in Rows /\ row.magic = book[k].magic /\ row.enabled = book[k].enabled
    BY <2>1, InBookRows, RowParts
  <2>4. word[k] = "off" => ~row.enabled
    BY <2>3 DEF OffStays
  <2> HIDE DEF row
  <2> QED
    BY <1>1, <2>2, <2>3, <2>4, MarkedRowsKeep
<1> QED
  BY <1>2, <1>3

LEMMA BrokerStepKeeps ==
    ASSUME BookInv, Broker
    PROVE  BookInv'
<1> USE DEF BookInv
<1>1. /\ connected \in BOOLEAN
      /\ held \subseteq Positions /\ scan \subseteq Marks /\ deals \subseteq Marks
      /\ job = Absent \/ job \in [name : Names, source : {"panel", "onboarding"}]
      /\ \A p \in held \cup scan : p.by \in InBook /\ book[p.by].magic = p.magic
  BY DEF BookTypeOK, Managed
<1>2. ASSUME NEW n \in Names, Fill(n) \/ Vanish(n)
      PROVE  BookInv'
  <2>1. n \in InBook /\ book[n].magic \in Magics
    BY <1>2, InBookRows DEF Fill, Vanish
  <2> DEFINE p == [by |-> n, magic |-> book[n].magic, orphan |-> FALSE]
             g == [by |-> n, magic |-> book[n].magic]
  <2>2. /\ p \in Positions /\ p.by = n /\ p.magic = book[n].magic
        /\ g \in Marks /\ g.by = n /\ g.magic = book[n].magic
    BY <2>1 DEF Positions, Marks
  <2>3. /\ held' = held \/ held' = held \cup {p}
        /\ scan' = scan \/ scan' = scan \cup {g}
        /\ UNCHANGED <<book, deals, connected, off, word, job, req, tick>>
    BY <1>2 DEF Fill, Vanish
  <2> HIDE DEF p, g
  <2>4. /\ held' \subseteq Positions /\ scan' \subseteq Marks
        /\ \A x \in held' \cup scan' : x.by \in InBook /\ book[x.by].magic = x.magic
    BY <1>1, <2>1, <2>2, <2>3
  <2> QED
    BY <1>1, <2>3, <2>4, BrokerKeeps
<1>3. ASSUME NEW g \in scan, Surface(g) \/ ScanEnds(g)
      PROVE  BookInv'
  <2> DEFINE p == [by |-> g.by, magic |-> g.magic, orphan |-> TRUE]
  <2>1. p \in Positions /\ p.by = g.by /\ p.magic = g.magic
    BY <1>1 DEF Positions, Marks
  <2>2. /\ held' = held \/ held' = held \cup {p}
        /\ scan' \subseteq scan
        /\ UNCHANGED <<book, deals, connected, off, word, job, req, tick>>
    BY <1>3 DEF Surface, ScanEnds
  <2> HIDE DEF p
  <2>3. /\ held' \subseteq Positions /\ scan' \subseteq Marks
        /\ \A x \in held' \cup scan' : x.by \in InBook /\ book[x.by].magic = x.magic
    BY <1>1, <2>1, <2>2
  <2> QED
    BY <1>1, <2>2, <2>3, BrokerKeeps
<1>4. ASSUME NEW p \in held, PositionCloses(p)
      PROVE  BookInv'
  <2> DEFINE d == [by |-> p.by, magic |-> p.magic]
  <2>1. d \in Marks /\ d.magic = p.magic
    BY <1>1 DEF Positions, Marks
  <2>2. /\ held' \subseteq held /\ deals' = deals \cup {d}
        /\ UNCHANGED <<book, scan, connected, off, word, job, req, tick>>
    BY <1>4 DEF PositionCloses
  <2>3. p.magic \in Owned
    BY <1>1, InBookRows
  <2> HIDE DEF d
  <2>4. /\ held' \subseteq Positions /\ deals' \subseteq Marks
        /\ \A x \in held' \cup scan' : x.by \in InBook /\ book[x.by].magic = x.magic
        /\ \A x \in deals' : x \in deals \/ x.magic \in Owned
    BY <1>1, <2>1, <2>2, <2>3
  <2> QED
    BY <1>1, <2>2, <2>4, BrokerKeeps
<1>5. ASSUME (\E d \in deals : Age(d)) \/ Link
      PROVE  BookInv'
  <2>1. /\ UNCHANGED <<book, held, scan, off, word, job, req, tick>>
        /\ connected' \in BOOLEAN /\ deals' \subseteq deals
    BY <1>1, <1>5 DEF Age, Link
  <2>2. /\ deals' \subseteq Marks /\ held' \subseteq Positions /\ scan' \subseteq Marks
        /\ \A x \in held' \cup scan' : x.by \in InBook /\ book[x.by].magic = x.magic
    BY <1>1, <2>1
  <2> QED
    BY <1>1, <2>1, <2>2, BrokerKeeps
<1> QED
  BY <1>2, <1>3, <1>4, <1>5 DEF Broker

LEMMA RestartKeeps ==
    ASSUME BookInv, OneDesk, Restart
    PROVE  BookInv'
<1> USE DEF BookInv
<1>1. /\ ~InGap /\ job' = Absent /\ tick' = {}
      /\ req' = [t \in Threads |-> Absent]
      /\ UNCHANGED <<book, held, scan, deals, connected, off, word>>
  BY DEF Restart, Clear, OneDesk
<1>2. BookTypeOK' /\ InBook' = InBook /\ UniqueMagic' /\ OffStays' /\ Managed'
  BY <1>1, SameBook DEF BookTypeOK, Managed
<1>3. \A u \in Threads, w \in {"add", "save", "sort", "mark", "write"} : ~At(u, w)'
  BY <1>1 DEF At
<1>4. FlagsTold'
  BY <1>1, <1>3, NoGapFlags DEF FlagsTold
<1> QED
  BY <1>1, <1>2, <1>3, <1>4 DEF SavesFresh, NoTickInGap, TickOpen, DealsAvoided

-----------------------------------------------------------------------------
(* The invariant.                                                          *)

LEMMA BookInvInit == BookInit => BookInv
<1> SUFFICES ASSUME BookInit
             PROVE  BookInv
  OBVIOUS
<1>1. /\ book \in [Names -> Rows \cup {Absent}]
      /\ UniqueMagic /\ OffStays
  BY ShippedRows DEF BookInit, UniqueMagic, OffStays, InBook
<1>2. BookTypeOK
  BY <1>1 DEF BookInit, BookTypeOK
<1>3. \A t \in Threads : req[t] = Absent
  BY DEF BookInit
<1>4. Managed /\ SavesFresh /\ NoTickInGap /\ FlagsTold /\ TickOpen /\ DealsAvoided
  BY <1>3
  DEF BookInit, Managed, SavesFresh, NoTickInGap, FlagsTold, TickOpen, DealsAvoided, At
<1> QED
  BY <1>1, <1>2, <1>4 DEF BookInv

LEMMA BookInvStep ==
    ASSUME OneDesk
    PROVE  BookInv /\ [BookNext]_bookVars => BookInv'
<1> SUFFICES ASSUME BookInv, [BookNext]_bookVars
             PROVE  BookInv'
  OBVIOUS
<1>1. CASE UNCHANGED bookVars
  <2>1. UNCHANGED <<book, held, scan, deals, connected, off, word, job, req, tick>>
    BY <1>1 DEF bookVars
  <2>2. /\ connected \in BOOLEAN
        /\ held \subseteq Positions /\ scan \subseteq Marks /\ deals \subseteq Marks
        /\ job = Absent \/ job \in [name : Names, source : {"panel", "onboarding"}]
        /\ \A p \in held \cup scan : p.by \in InBook /\ book[p.by].magic = p.magic
    BY DEF BookInv, BookTypeOK, Managed
  <2> QED
    BY <2>1, <2>2, BrokerKeeps
<1>2. ASSUME NEW t \in Threads, Request(t) \/ Mark(t)
      PROVE  BookInv'
  BY <1>2, AddReadsKeeps, AddPicksKeeps, AddSavesKeeps, SortKeeps, SortsKeeps,
     DeleteKeeps, RenumberKeeps, WipeKeeps, SwitchKeeps, MarkReadsKeeps,
     MarkWritesKeeps
  DEF Request, Mark
<1>3. CASE Autopilot \/ Optimizer
  BY <1>3, TickEnablesKeeps, EnableWritesKeeps, QueueKeeps, SearchEndsKeeps
  DEF Autopilot, Optimizer
<1>4. CASE Broker \/ Restart
  BY <1>4, BrokerStepKeeps, RestartKeeps
<1> QED
  BY <1>1, <1>2, <1>3, <1>4 DEF BookNext

LEMMA BookInvHolds == OneDesk => (BookSpec => []BookInv)
<1> SUFFICES ASSUME OneDesk
             PROVE  BookSpec => []BookInv
  OBVIOUS
<1>1. BookInit => BookInv
  BY BookInvInit
<1>2. BookInv /\ [BookNext]_bookVars => BookInv'
  BY BookInvStep
<1> QED
  BY <1>1, <1>2, PTL DEF BookSpec

-----------------------------------------------------------------------------
(* The types, at any number of desks.                                      *)

\* A step of the panel keeps the types, whoever else is at work.
LEMMA RequestTypes ==
    ASSUME BookTypeOK, NEW t \in Threads, Request(t) \/ Mark(t)
    PROVE  BookTypeOK'
<1> USE DEF BookTypeOK
<1>1. ASSUME NEW n \in Names, AddReads(t, n) PROVE BookTypeOK'
  <2>1. PICK avoid \in SUBSET Magics :
           ReadsAvoid(avoid) /\ Goes(t, [at |-> "add", name |-> n, avoid |-> avoid])
    BY <1>1 DEF AddReads
  <2>2. [at |-> "add", name |-> n, avoid |-> avoid] \in Requests
    BY DEF Requests
  <2>3. req' \in [Threads -> Requests \cup {Absent}]
    BY <2>1, <2>2, ReqGoes
  <2>4. connected' \in BOOLEAN
    BY <2>1 DEF ReadsAvoid
  <2> QED BY <1>1, <2>3, <2>4 DEF AddReads
<1>2. CASE AddPicks(t)
  <2>1. CASE Finishes(t)
    BY <1>2, <2>1, ReqFinishes DEF AddPicks
  <2>2. CASE /\ Free(req[t].avoid) # {}
             /\ Goes(t, [at |-> "save", name |-> req[t].name,
                         magic |-> NewMagic(req[t].name, req[t].avoid)])
    <3>1. req[t].name \in Names /\ req[t].avoid \in SUBSET Magics
      BY <1>2, ReqParts DEF AddPicks
    <3>2. NewMagic(req[t].name, req[t].avoid) \in Magics
      BY <2>2, <3>1, NewMagicIsFree
    <3>3. [at |-> "save", name |-> req[t].name,
           magic |-> NewMagic(req[t].name, req[t].avoid)] \in Requests
      BY <3>1, <3>2 DEF Requests
    <3>4. req' \in [Threads -> Requests \cup {Absent}]
      BY <2>2, <3>3, ReqGoes
    <3> QED BY <1>2, <3>4 DEF AddPicks
  <2> QED BY <1>2, <2>1, <2>2 DEF AddPicks
<1>3. CASE AddSaves(t)
  <2> DEFINE rows == [book EXCEPT ![req[t].name] = NewRow(req[t].magic)]
  <2>1. req[t].name \in Names /\ req[t].magic \in Magics
    BY <1>3, ReqParts DEF AddSaves
  <2>2. rows \in [Names -> Rows \cup {Absent}]
    BY <2>1, NewRowParts
  <2>3. [at |-> "sort", rows |-> rows] \in Requests
    <3> HIDE DEF rows
    <3> QED BY <2>2 DEF Requests
  <2>4. book' = rows /\ Goes(t, [at |-> "sort", rows |-> rows])
    BY <1>3 DEF AddSaves
  <2> HIDE DEF rows
  <2>5. req' \in [Threads -> Requests \cup {Absent}]
    BY <2>3, <2>4, ReqGoes
  <2> QED BY <1>3, <2>2, <2>4, <2>5 DEF AddSaves
<1>4. CASE SortPanel(t)
  <2>1. [at |-> "sort", rows |-> book] \in Requests
    BY DEF Requests
  <2>2. req' \in [Threads -> Requests \cup {Absent}]
    BY <1>4, <2>1, ReqGoes DEF SortPanel
  <2> QED BY <1>4, <2>2 DEF SortPanel
<1>5. CASE Sorts(t)
  <2>1. req[t].rows \in [Names -> Rows \cup {Absent}]
    BY <1>5, ReqParts DEF Sorts
  <2>2. book' \in [Names -> Rows \cup {Absent}]
    BY <1>5, <2>1 DEF Sorts
  <2>3. req' \in [Threads -> Requests \cup {Absent}]
    BY <1>5, ReqFinishes DEF Sorts
  <2> QED BY <1>5, <2>2, <2>3 DEF Sorts
<1>6. ASSUME NEW n \in Names, Delete(t, n) PROVE BookTypeOK'
  BY <1>6 DEF Delete
<1>7. ASSUME NEW n \in Names, NEW m \in Magics, Renumber(t, n, m) PROVE BookTypeOK'
  <2>1. [book[n] EXCEPT !.magic = m] \in Rows
    BY <1>7, InBookRows, RowParts DEF Renumber
  <2> QED BY <1>7, <2>1 DEF Renumber
<1>8. CASE Wipe(t)
  <2>1. \A n \in Names : Preset[n] # 0 => Preset[n] \in Magics
    BY BookPresets, BookCounts DEF Magics
  <2>2. book' \in [Names -> Rows \cup {Absent}]
    BY <1>8, <2>1, NewRowParts DEF Wipe
  <2> QED BY <1>8, <2>2 DEF Wipe
<1>9. ASSUME NEW n \in Names, NEW on \in BOOLEAN, Switch(t, n, on) PROVE BookTypeOK'
  <2>1. [book[n] EXCEPT !.enabled = on] \in Rows
    BY <1>9, InBookRows, RowParts DEF Switch
  <2>2. [at |-> "mark", name |-> n, on |-> on] \in Requests
    BY DEF Requests
  <2>3. req' \in [Threads -> Requests \cup {Absent}]
    BY <1>9, <2>2, ReqGoes DEF Switch
  <2>4. word' \in [Names -> {"none", "on", "off"}]
    BY <1>9 DEF Switch
  <2> QED BY <1>9, <2>1, <2>3, <2>4 DEF Switch
<1>10. CASE MarkReads(t)
  <2>1. req[t].name \in Names
    BY <1>10, ReqParts DEF MarkReads
  <2>2. Flagged(off, req[t].name, req[t].on) \in SUBSET Names
    BY <2>1 DEF Flagged
  <2>3. [at |-> "write", marks |-> Flagged(off, req[t].name, req[t].on)] \in Requests
    BY <2>2 DEF Requests
  <2>4. req' \in [Threads -> Requests \cup {Absent}]
    BY <1>10, <2>3, ReqGoes DEF MarkReads
  <2> QED BY <1>10, <2>4 DEF MarkReads
<1>11. CASE MarkWrites(t)
  <2>1. off' \subseteq Names
    BY <1>11, ReqParts DEF MarkWrites
  <2>2. req' \in [Threads -> Requests \cup {Absent}]
    BY <1>11, ReqFinishes DEF MarkWrites
  <2> QED BY <1>11, <2>1, <2>2 DEF MarkWrites
<1> QED
  BY <1>1, <1>2, <1>3, <1>4, <1>5, <1>6, <1>7, <1>8, <1>9, <1>10, <1>11 DEF Request, Mark

\* So does what the autopilot, the searches, the broker and a restart do.
LEMMA OtherTypes ==
    ASSUME BookTypeOK, Autopilot \/ Optimizer \/ Broker \/ Restart \/ UNCHANGED bookVars
    PROVE  BookTypeOK'
<1> USE DEF BookTypeOK
<1>1. CASE TickEnables
  BY <1>1 DEF TickEnables, Ready, InBook
<1>2. ASSUME NEW n \in Names, EnableWrites(n) PROVE BookTypeOK'
  <2>1. n \in InBook => [book[n] EXCEPT !.enabled = TRUE] \in Rows
    BY InBookRows, RowParts
  <2> QED BY <1>2, <2>1 DEF EnableWrites
<1>3. CASE TickQueues
  <2>1. Newcomers \in SUBSET Nat /\ Newcomers \subseteq Names
    BY BookCounts DEF Newcomers, InBook, Names
  <2>2. Min(Newcomers) \in Newcomers
    BY <1>3, <2>1, LeastNat DEF TickQueues
  <2> QED BY <1>3, <2>1, <2>2 DEF TickQueues
<1>4. ASSUME NEW n \in Names, PanelSearch(n) PROVE BookTypeOK'
  BY <1>4 DEF PanelSearch
<1>5. ASSUME NEW result \in Stamps, SearchEnds(result) PROVE BookTypeOK'
  <2>1. CASE result = "none"
    BY <1>5, <2>1 DEF SearchEnds
  <2>2. CASE result # "none"
    <3>1. /\ job.name \in InBook /\ job.name \in Names
          /\ book' = [book EXCEPT ![job.name].stamp = result]
      BY <1>5, <2>2 DEF SearchEnds, InBook
    <3>2. [book[job.name] EXCEPT !.stamp = result] \in Rows
      BY <3>1, InBookRows, RowParts
    <3> QED BY <1>5, <3>1, <3>2 DEF SearchEnds
  <2> QED BY <2>1, <2>2
<1>6. ASSUME NEW n \in Names, Fill(n) \/ Vanish(n) PROVE BookTypeOK'
  <2>1. n \in InBook
    BY <1>6 DEF Fill, Vanish
  <2>2. book[n].magic \in Magics
    BY <2>1, InBookRows DEF Rows
  <2>3. /\ [by |-> n, magic |-> book[n].magic, orphan |-> FALSE] \in Positions
        /\ [by |-> n, magic |-> book[n].magic] \in Marks
    BY <2>2 DEF Positions, Marks
  <2> QED BY <1>6, <2>3 DEF Fill, Vanish
<1>7. ASSUME NEW g \in scan, Surface(g) \/ ScanEnds(g) PROVE BookTypeOK'
  <2>1. [by |-> g.by, magic |-> g.magic, orphan |-> TRUE] \in Positions
    BY DEF Positions, Marks
  <2> QED BY <1>7, <2>1 DEF Surface, ScanEnds
<1>8. ASSUME NEW p \in held, PositionCloses(p) PROVE BookTypeOK'
  <2>1. [by |-> p.by, magic |-> p.magic] \in Marks
    BY DEF Positions, Marks
  <2> QED BY <1>8, <2>1 DEF PositionCloses
<1>9. ASSUME NEW d \in deals, Age(d) PROVE BookTypeOK'
  BY <1>9 DEF Age
<1>10. CASE Link
  <2>1. connected' \in BOOLEAN
    BY <1>10, Zenon DEF Link
  <2> QED BY <1>10, <2>1 DEF Link
<1>11. CASE Restart
  BY <1>11 DEF Restart
<1>12. CASE UNCHANGED bookVars
  BY <1>12 DEF bookVars
<1> QED
  BY <1>1, <1>2, <1>3, <1>4, <1>5, <1>6, <1>7, <1>8, <1>9, <1>10, <1>11, <1>12
  DEF Autopilot, Optimizer, Broker

-----------------------------------------------------------------------------
(* The theorems.                                                           *)

\* The portfolio and its requests have the types their definitions give them,
\* for several desks at once and steps of others into their windows too.
THEOREM BookTypes == BookSpec => []BookTypeOK
<1>1. BookInit => BookTypeOK
  <2> SUFFICES ASSUME BookInit PROVE BookTypeOK
    OBVIOUS
  <2>1. \A n \in Names : Preset[n] # 0 => Preset[n] \in Magics
    BY BookPresets, BookCounts DEF Magics
  <2>2. book \in [Names -> Rows \cup {Absent}]
    BY <2>1, NewRowParts DEF BookInit
  <2>3. connected \in BOOLEAN
    BY Zenon DEF BookInit
  <2> QED BY <2>2, <2>3 DEF BookInit, BookTypeOK
<1>2. BookTypeOK /\ [BookNext]_bookVars => BookTypeOK'
  BY RequestTypes, OtherTypes DEF BookNext
<1> QED BY <1>1, <1>2, PTL DEF BookSpec

\* No two symbols of the portfolio trade under one magic, whatever was added,
\* deleted, renumbered, seeded and wiped, for every number of symbols.
THEOREM UniqueMagicSafe == OneDesk => (BookSpec => []UniqueMagic)
<1>1. BookInv => UniqueMagic
  BY DEF BookInv
<1> QED
  BY <1>1, BookInvHolds, PTL

\* Every open position and every fill still looked for belongs to a symbol of
\* the portfolio that trades under its magic.
THEOREM ManagedSafe == OneDesk => (BookSpec => []Managed)
<1>1. BookInv => Managed
  BY DEF BookInv
<1> QED
  BY <1>1, BookInvHolds, PTL

\* What the operator switched off stays off, however searches, autopilot ticks
\* and restarts come between.
THEOREM OffStaysSafe == OneDesk => (BookSpec => []OffStays)
<1>1. BookInv => OffStays
  BY DEF BookInv
<1> QED
  BY <1>1, BookInvHolds, PTL

\* What CleanMagic says of a step.
TakesCleanNumber(n) ==
    /\ book'[n] # Absent
    /\ book[n] = Absent \/ book[n].magic # book'[n].magic
    => \/ book' = [k \in Names |-> IF Preset[k] = 0 THEN Absent ELSE NewRow(Preset[k])]
       \/ \A d \in deals : d.magic = book'[n].magic => d.by = n

LEMMA CleanStep ==
    ASSUME OneDesk, ~ReadsMayFail, BookInv, BookNext, NEW n \in Names
    PROVE  TakesCleanNumber(n)
<1> USE DEF BookInv
<1>1. ASSUME \A k \in Names : (book'[k] # Absent) => /\ book[k] # Absent
                                                     /\ book'[k].magic = book[k].magic
      PROVE  TakesCleanNumber(n)
  BY <1>1 DEF TakesCleanNumber
<1>2. CASE book' = book
  BY <1>2 DEF TakesCleanNumber
<1>3. ASSUME NEW k \in InBook, NEW row \in Rows, row.magic = book[k].magic,
             book' = [book EXCEPT ![k] = row]
      PROVE  TakesCleanNumber(n)
  BY <1>1, <1>3, InBookRows DEF BookTypeOK
<1>4. ASSUME NEW t \in Threads, Request(t) \/ Mark(t)
      PROVE  TakesCleanNumber(n)
  <2>1. CASE \/ \E k \in Names : AddReads(t, k)
             \/ AddPicks(t) \/ SortPanel(t) \/ Mark(t)
    BY <1>2, <2>1 DEF AddReads, AddPicks, SortPanel, Mark, MarkReads, MarkWrites
  <2>2. CASE Sorts(t)
    BY <1>2, <2>2, SortsNothing
  <2>3. CASE AddSaves(t)
    <3>1. PICK k \in Names, m \in Magics : k = req[t].name /\ m = req[t].magic
      BY <2>3, ReqParts DEF AddSaves
    <3>2. /\ book' = [book EXCEPT ![k] = NewRow(m)]
          /\ At(t, "save")
      BY <2>3, <3>1 DEF AddSaves, At
    <3>3. NewRow(m).magic = m
      BY NewRowParts
    <3>4. /\ book'[k] = NewRow(m) /\ \A u \in Names \ {k} : book'[u] = book[u]
      BY <3>2 DEF BookTypeOK
    <3>5. \A d \in deals : d.magic # m
      BY <3>1, <3>2 DEF DealsAvoided
    <3> QED
      BY <3>3, <3>4, <3>5 DEF TakesCleanNumber
  <2>4. ASSUME NEW k \in Names, Delete(t, k)
        PROVE  TakesCleanNumber(n)
    <3>1. \A u \in Names : book'[u] = Absent \/ book'[u] = book[u]
      BY <2>4 DEF Delete, BookTypeOK
    <3> QED
      BY <3>1 DEF TakesCleanNumber
  <2>5. ASSUME NEW k \in Names, NEW m \in Magics, Renumber(t, k, m)
        PROVE  TakesCleanNumber(n)
    <3>1. /\ k \in InBook /\ m \notin DealMagics
          /\ book' = [book EXCEPT ![k].magic = m]
      BY <2>5 DEF Renumber
    <3>2. book[k] \in Rows
      BY <3>1, InBookRows
    <3>3. /\ book'[k].magic = m /\ \A u \in Names \ {k} : book'[u] = book[u]
      BY <3>1, <3>2, RowParts DEF BookTypeOK
    <3>4. \A d \in deals : d.magic # m
      BY <3>1 DEF DealMagics
    <3> QED
      BY <3>3, <3>4 DEF TakesCleanNumber
  <2>6. CASE Wipe(t)
    BY <2>6 DEF Wipe, TakesCleanNumber
  <2>7. ASSUME NEW k \in Names, NEW on \in BOOLEAN, Switch(t, k, on)
        PROVE  TakesCleanNumber(n)
    <3> DEFINE row == [book[k] EXCEPT !.enabled = on]
    <3>1. k \in InBook /\ book' = [book EXCEPT ![k] = row]
      BY <2>7 DEF Switch
    <3>2. row \in Rows /\ row.magic = book[k].magic
      BY <3>1, InBookRows, RowParts
    <3> HIDE DEF row
    <3> QED
      BY <1>3, <3>1, <3>2
  <2> QED
    BY <1>4, <2>1, <2>2, <2>3, <2>4, <2>5, <2>6, <2>7 DEF Request
<1>5. ASSUME NEW k \in Names, EnableWrites(k)
      PROVE  TakesCleanNumber(n)
  <2>1. CASE k \notin InBook
    BY <1>2, <1>5, <2>1 DEF EnableWrites
  <2>2. CASE k \in InBook
    <3> DEFINE row == [book[k] EXCEPT !.enabled = TRUE]
    <3>1. book' = [book EXCEPT ![k] = row]
      BY <1>5, <2>2 DEF EnableWrites
    <3>2. row \in Rows /\ row.magic = book[k].magic
      BY <2>2, InBookRows, RowParts
    <3> HIDE DEF row
    <3> QED
      BY <1>3, <2>2, <3>1, <3>2
  <2> QED
    BY <2>1, <2>2
<1>6. ASSUME NEW result \in Stamps, SearchEnds(result)
      PROVE  TakesCleanNumber(n)
  <2>1. CASE result = "none"
    BY <1>2, <1>6, <2>1 DEF SearchEnds
  <2>2. CASE result # "none"
    <3>1. PICK k \in InBook : k = job.name
      BY <1>6, <2>2 DEF SearchEnds
    <3> DEFINE row == [book[k] EXCEPT !.stamp = result]
    <3>2. book' = [book EXCEPT ![k] = row]
      BY <1>6, <2>2, <3>1 DEF SearchEnds
    <3>3. row \in Rows /\ row.magic = book[k].magic
      BY <3>1, InBookRows, RowParts
    <3> HIDE DEF row
    <3> QED
      BY <1>3, <3>2, <3>3
  <2> QED
    BY <2>1, <2>2
<1>7. CASE TickEnables \/ TickQueues \/ Broker \/ Restart \/ \E k \in Names : PanelSearch(k)
  BY <1>2, <1>7
  DEF TickEnables, TickQueues, PanelSearch, Restart, Broker, Fill, Vanish, Surface,
      ScanEnds, PositionCloses, Age, Link
<1> QED
  BY <1>4, <1>5, <1>6, <1>7 DEF BookNext, Autopilot, Optimizer

\* Whenever a row gets a number, by being added or renumbered, no recent deal
\* under it is another symbol's, as long as the reads of the deals succeed.
THEOREM CleanMagicSafe == OneDesk /\ ~ReadsMayFail => (BookSpec => CleanMagic)
<1> SUFFICES ASSUME OneDesk, ~ReadsMayFail
             PROVE  BookSpec => CleanMagic
  OBVIOUS
<1>1. BookInv /\ [BookNext]_bookVars => [\A n \in Names : TakesCleanNumber(n)]_bookVars
  BY CleanStep
<1>2. BookInv /\ [BookNext]_bookVars =>
        [\A n \in Names :
          /\ book'[n] # Absent
          /\ book[n] = Absent \/ book[n].magic # book'[n].magic
          => \/ book' = [k \in Names |-> IF Preset[k] = 0 THEN Absent ELSE NewRow(Preset[k])]
             \/ \A d \in deals : d.magic = book'[n].magic => d.by = n]_bookVars
  BY <1>1 DEF TakesCleanNumber
<1> QED
  BY <1>2, BookInvHolds, PTL DEF BookSpec, CleanMagic
=============================================================================
