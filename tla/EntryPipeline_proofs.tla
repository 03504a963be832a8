------------------------ MODULE EntryPipeline_proofs -------------------------
(***************************************************************************)
(* What holds of EntryPipeline for every number of bars, orders, restarts  *)
(* and magic changes, every cap, every set of replies and every lag of the *)
(* broker: the types, the invariant that says why no bar is booked twice,  *)
(* and with it that the bookings implement SignalLedger.  Then, for a      *)
(* broker that decides within the code's waits, that one order at a time   *)
(* is undecided, and with it the cap and the bar of every booking.         *)
(***************************************************************************)
EXTENDS EntryPipeline, TLAPS, FiniteSetTheorems

\* The inductive invariant.
IInv == TypeOK /\ BookingInv /\ ScanOfLiveSymbol /\ BookedOnce

-----------------------------------------------------------------------------
(* The helpers of the model.                                               *)

\* The answer acted on is a field of the order.
LEMMA AnswerType ==
    ASSUME NEW o \in [Tickets -> Order], NEW t, NEW a \in Answers
    PROVE  Answer(o, t, a) \in [Tickets -> Order]
BY DEF Answer, Order

\* So is its state at the broker.
LEMMA StateType ==
    ASSUME NEW o \in [Tickets -> Order], NEW t, NEW s \in OrderStates
    PROVE  [o EXCEPT ![t].st = s] \in [Tickets -> Order]
BY DEF Order

\* Closing any tickets leaves a table of orders.
LEMMA CloseType ==
    ASSUME NEW o \in [Tickets -> Order], NEW T
    PROVE  Close(o, T) \in [Tickets -> Order]
<1> SUFFICES ASSUME NEW t \in Tickets PROVE Close(o, T)[t] \in Order
  BY DEF Close
<1>1. o[t] \in Order
  OBVIOUS
<1>2. [o[t] EXCEPT !.st = "closed"] \in Order
  BY <1>1 DEF Order, OrderStates
<1> QED
  BY <1>1, <1>2 DEF Close

\* The null values belong to their types.
LEMMA NullTypes ==
    /\ 0 \in 0..MaxBar /\ 0 \in 0..(MaxEdits + 1) /\ 0 \in 0..MaxSends
    /\ 0 \in 0..MaxRestarts
    /\ NoOrder \in Order /\ NoScan \in Scan
    /\ NoProbe \in Probe /\ NoVerify \in Verify
BY BoundsAssumption
   DEF NoOrder, Order, OrderStates, Answers, NoScan, Scan, NoProbe, Probe,
       NoVerify, Verify

\* What the broker shows, and what of it is under one magic, are tickets.
LEMMA BookTypes ==
    /\ Visible \subseteq Tickets
    /\ \A book, m : Under(book, m) \subseteq book
BY DEF Visible, Under

\* A set of tickets has at most MaxSends members: the count in the probe.
LEMMA KnownCount ==
    ASSUME NEW T \in SUBSET Tickets
    PROVE  Cardinality(T) \in 0..MaxSends
<1>1. IsFiniteSet(Tickets) /\ Cardinality(Tickets) = MaxSends
  BY FS_Interval, BoundsAssumption DEF Tickets
<1>2. IsFiniteSet(T) /\ Cardinality(T) <= Cardinality(Tickets)
  BY <1>1, FS_Subset
<1>3. Cardinality(T) \in Nat
  BY <1>2, FS_CardinalityType
<1> QED
  BY <1>1, <1>2, <1>3, BoundsAssumption

\* Whatever the broker decides of an order, the types stay.
LEMMA BrokerSetsType ==
    ASSUME IInv, NEW t \in Tickets, NEW from, NEW to \in OrderStates,
           BrokerSets(t, from, to)
    PROVE  TypeOK'
<1>1. BrokerType'
  BY StateType DEF BrokerSets, IInv, TypeOK, BrokerType
<1> QED
  BY <1>1 DEF BrokerSets, IInv, TypeOK, MarketType, StoreType, SignalType,
              SendType, market, store, memory

\* The verifier only reports while it looks, and under a ticket it saw.
LEMMA VerifierType ==
    ASSUME IInv, NEW result \in {"filled", "unfilled", "ambiguous"},
           NEW t \in 0..MaxSends, VerifierReports(result, t)
    PROVE  SendType'
BY DEF VerifierReports, IInv, TypeOK, SendType, Verify

\* An order that is sent carries the live bar and the magic of the offer.
LEMMA SendOrderType ==
    ASSUME IInv, NEW st \in OrderStates, NEW ans \in Answers, SendOrder(st, ans)
    PROVE  BrokerType'
<1>1. [bar |-> lastBar, magic |-> base, st |-> st, ans |-> ans] \in Order
  BY DEF IInv, TypeOK, SignalType, Order
<1>2. orders' \in [Tickets -> Order]
  BY <1>1 DEF SendOrder, IInv, TypeOK, BrokerType
<1>3. sent' \in 0..MaxSends
  BY BoundsAssumption DEF SendOrder, IInv, TypeOK, BrokerType
<1> QED
  BY <1>2, <1>3 DEF BrokerType

\* A booking on the success path is of a ticket under a bar that exists.
LEMMA BooksType ==
    ASSUME IInv, pc = "reply", NEW t \in Tickets, Books(t)
    PROVE  StoreType'
<1>1. lastBar \in Bars
  BY BoundsAssumption
     DEF IInv, TypeOK, SignalType, BookingInv, MarksInv, OfferInv, EntryLocked,
         Bars
<1> QED
  BY <1>1 DEF Books, ReplyDone, MarkFilled, IInv, TypeOK, StoreType, Bars

\* Every booking is under a bar.
LEMMA LedgerBars ==
    ASSUME TypeOK
    PROVE  filledBars \in Int /\ \A p \in ledger : p[2] \in Int
BY BoundsAssumption DEF TypeOK, StoreType, Bars

\* A booking above every mark that marks its own bar keeps the record.
LEMMA BookingKeepsRecord ==
    ASSUME IInv, magic # 0, NEW t, NEW b \in Int, filledBars < b,
           ledger' = ledger \cup {<<t, b>>}, filledBars' = b
    PROVE  BookedInv' /\ BookedOnce'
<1>1. \A p \in ledger : p[2] \in Int /\ p[2] <= filledBars /\ filledBars \in Int
  BY LedgerBars DEF IInv, BookingInv, BookedInv
<1>2. \A p \in ledger : p[2] < b
  BY <1>1
<1>3. \A p \in ledger' : p[2] <= b
  BY <1>2, <1>1
<1>4. BookedOnce'
  BY <1>2, <1>1 DEF IInv, BookedOnce
<1> QED
  BY <1>3, <1>4 DEF BookedInv

-----------------------------------------------------------------------------
(* Types.                                                                  *)

\* A step of the market and the broker keeps the types.
LEMMA MarketTypes ==
    ASSUME IInv,
           \/ BarCloses \/ OrderExecutes \/ OrderDies \/ FillSurfaces
           \/ PositionCloses
    PROVE  TypeOK'
<1> USE DEF IInv, TypeOK, MarketType, BrokerType, StoreType, SignalType,
        SendType, Phases, market, broker, store, memory
<1>1. CASE BarCloses
  <2>1. bar' \in 0..MaxBar
    BY <1>1, BoundsAssumption DEF BarCloses
  <2>2. sig' \in [Bars -> Sides]
    BY <1>1 DEF BarCloses
  <2> QED
    BY <1>1, <2>1, <2>2 DEF BarCloses, Sides
<1>2. CASE OrderExecutes
  BY <1>2, BrokerSetsType DEF OrderExecutes, OrderStates
<1>3. CASE OrderDies
  BY <1>3, BrokerSetsType DEF OrderDies, OrderStates
<1>4. CASE FillSurfaces
  BY <1>4, BrokerSetsType DEF FillSurfaces, OrderStates
<1>5. CASE PositionCloses
  BY <1>5, BrokerSetsType DEF PositionCloses, OrderStates
<1> QED
  BY <1>1, <1>2, <1>3, <1>4, <1>5

\* A step of the head of a cycle keeps the types.
LEMMA HeadTypes ==
    ASSUME IInv,
           \/ CycleStarts \/ ScanFinds \/ ScanWaits \/ ScanAbandons
           \/ ScanLastLookFinds \/ ScanGivesUp \/ ScanPutsOff
           \/ ManagePositions
    PROVE  TypeOK'
<1> USE DEF IInv, TypeOK, MarketType, BrokerType, StoreType, SignalType,
        SendType, Phases, market, broker, store, memory
<1>1. CASE CycleStarts
  BY <1>1, BookTypes DEF CycleStarts
<1>2. CASE ScanFinds
  BY <1>2, CloseType, BookTypes, NullTypes
     DEF ScanFinds, CloseScanned, ScanUnchanged
<1>3. CASE ScanWaits
  BY <1>3 DEF ScanWaits, ScanUnchanged
<1>4. CASE ScanAbandons
  <2>1. orphanScan' \in Scan
    BY <1>4 DEF ScanAbandons, Scan
  <2> QED
    BY <1>4, <2>1 DEF ScanAbandons, ScanUnchanged
<1>5. CASE ScanLastLookFinds
  BY <1>5, CloseType, BookTypes, NullTypes
     DEF ScanLastLookFinds, LastLook, CloseScanned, ScanUnchanged
<1>6. CASE ScanGivesUp
  BY <1>6, NullTypes DEF ScanGivesUp, LastLook, ScanUnchanged
<1>7. CASE ScanPutsOff
  BY <1>7 DEF ScanPutsOff, LastLook, ScanUnchanged
<1>8. CASE ManagePositions
  BY <1>8, CloseType DEF ManagePositions
<1> QED
  BY <1>1, <1>2, <1>3, <1>4, <1>5, <1>6, <1>7, <1>8

\* A step of the evaluation of the live bar keeps the types.
LEMMA EvaluateTypes ==
    ASSUME IInv,
           \/ EvaluateShut \/ EvaluateHolds \/ EvaluateOffers
           \/ EvaluateSkips
    PROVE  TypeOK'
<1> USE DEF IInv, TypeOK, MarketType, BrokerType, StoreType, SignalType,
        SendType, Phases, market, broker, store, memory
<1>1. CASE EvaluateShut
  <2>1. SignalType'
    BY <1>1, NullTypes DEF EvaluateShut, Evaluated
  <2> QED
    BY <1>1, <2>1, NullTypes DEF EvaluateShut, Evaluated
<1>2. CASE EvaluateHolds
  <2>1. SignalType'
    BY <1>2, NullTypes DEF EvaluateHolds, Evaluated, SignalAt, PendingAt
  <2> QED
    BY <1>2, <2>1, NullTypes DEF EvaluateHolds, Evaluated, SignalAt, PendingAt
<1>3. CASE EvaluateOffers
  BY <1>3, NullTypes DEF EvaluateOffers, SignalAt, Evaluated
<1>4. CASE EvaluateSkips
  BY <1>4, NullTypes DEF EvaluateSkips
<1> QED
  BY <1>1, <1>2, <1>3, <1>4

\* A step of the drain of the verifier results keeps the types.
LEMMA DrainTypes ==
    ASSUME IInv,
           \/ DrainNothing \/ DrainDropped \/ DrainBooked \/ DrainUnfilled
           \/ DrainAmbiguous
    PROVE  TypeOK'
<1> USE DEF IInv, TypeOK, MarketType, BrokerType, StoreType, SignalType,
        SendType, Phases, market, broker, store, memory
<1>1. CASE DrainNothing
  BY <1>1, NullTypes DEF DrainNothing, Answers
<1>2. CASE DrainDropped
  BY <1>2, AnswerType, NullTypes DEF DrainDropped, Drained, Answers
<1>3. CASE DrainBooked
  <2>1. verify.bar \in Bars /\ verify.ticket \in Tickets
    BY <1>3, BoundsAssumption
       DEF DrainBooked, Verify, BookingInv, FlightInv, Bars, Tickets
  <2>2. filledBars' \in 0..MaxBar /\ ledger' \subseteq Tickets \X Bars
    BY <1>3, <2>1 DEF DrainBooked, MarkFilled, Bars
  <2> QED
    BY <1>3, <2>1, <2>2, AnswerType, NullTypes, BookTypes
       DEF DrainBooked, MarkFilled, Drained, Answers
<1>4. CASE DrainUnfilled
  <2>1. probe' \in Probe
    BY <1>4, KnownCount DEF DrainUnfilled, Verify, Probe
  <2> QED
    BY <1>4, <2>1, AnswerType, NullTypes, KnownCount
       DEF DrainUnfilled, Drained, Answers
<1>5. CASE DrainAmbiguous
  <2>1. SignalType'
    BY <1>5, NullTypes DEF DrainAmbiguous, Drained
  <2> QED
    BY <1>5, <2>1, AnswerType, NullTypes DEF DrainAmbiguous, Drained, Answers
<1> QED
  BY <1>1, <1>2, <1>3, <1>4, <1>5

\* A step of the gates of an entry keeps the types.
LEMMA EntryTypes ==
    ASSUME IInv,
           \/ EntryRefused \/ ProbeFindsLateFill \/ ProbeExhausted
           \/ EntryProceeds \/ LockRefuses \/ LockRechecks
    PROVE  TypeOK'
<1> USE DEF IInv, TypeOK, MarketType, BrokerType, StoreType, SignalType,
        SendType, Phases, market, broker, store, memory
<1>1. CASE EntryRefused
  BY <1>1, NullTypes DEF EntryRefused, EntryDone
<1>2. CASE ProbeFindsLateFill
  BY <1>2, NullTypes DEF ProbeFindsLateFill, EntryGatesPass, EntryDone
<1>3. CASE ProbeExhausted
  BY <1>3, NullTypes DEF ProbeExhausted, EntryGatesPass, EntryDone
<1>4. CASE EntryProceeds
  <2>1. probe' \in Probe
    BY <1>4, NullTypes DEF EntryProceeds, Probe
  <2> QED
    BY <1>4, <2>1, NullTypes DEF EntryProceeds, EntryGatesPass
<1>5. CASE LockRefuses
  BY <1>5, BookTypes, NullTypes DEF LockRefuses
<1>6. CASE LockRechecks
  BY <1>6, BookTypes DEF LockRechecks
<1> QED
  BY <1>1, <1>2, <1>3, <1>4, <1>5, <1>6

\* A step of the send and its reply keeps the types.
LEMMA SendTypes ==
    ASSUME IInv,
           \/ SendImpossible \/ SendRejected \/ SendReplied
           \/ ReplyResolved \/ ReplyAdopts \/ ReplyOpensScan
           \/ ReplySafetyCloses \/ ReplyDefers \/ ReplyAmbiguous
    PROVE  TypeOK'
<1> USE DEF IInv, TypeOK, MarketType, BrokerType, StoreType, SignalType,
        SendType, Phases, market, broker, store, memory
<1>1. CASE SendImpossible
  BY <1>1, NullTypes DEF SendImpossible
<1>2. CASE SendRejected
  <2>1. BrokerType'
    BY <1>2, SendOrderType DEF SendRejected, OrderStates, Answers
  <2>2. SignalType'
    BY <1>2, NullTypes DEF SendRejected
  <2> QED
    BY <1>2, <2>1, <2>2, NullTypes DEF SendRejected
<1>3. CASE SendReplied
  <2>1. BrokerType'
    BY <1>3, SendOrderType DEF SendReplied, OrderStates, Answers
  <2> QED
    BY <1>3, <2>1, NullTypes DEF SendReplied
<1>4. CASE ReplyResolved
  <2>1. sent \in Tickets
    BY <1>4, BoundsAssumption DEF ReplyResolved, BookingInv, OfferInv, Tickets
  <2>2. StoreType'
    BY <1>4, <2>1, BooksType DEF ReplyResolved
  <2>3. SignalType'
    BY <1>4, NullTypes, BookTypes DEF ReplyResolved, Books, ReplyDone
  <2> QED
    BY <1>4, <2>1, <2>2, <2>3, AnswerType, NullTypes, BookTypes
       DEF ReplyResolved, Books, MarkFilled, ReplyDone, Answers
<1>5. CASE ReplyAdopts
  <2>1. StoreType'
    BY <1>5, BooksType, BookTypes DEF ReplyAdopts, NewTickets
  <2>2. SignalType'
    BY <1>5, NullTypes, BookTypes DEF ReplyAdopts, Books, ReplyDone
  <2> QED
    BY <1>5, <2>1, <2>2, AnswerType, NullTypes, BookTypes
       DEF ReplyAdopts, Books, MarkFilled, ReplyDone, Answers
<1>6. CASE ReplyOpensScan
  <2>1. orphanScan' \in Scan
    BY <1>6, BookTypes DEF ReplyOpensScan, Scan
  <2> QED
    BY <1>6, <2>1, AnswerType, BookTypes, NullTypes
       DEF ReplyOpensScan, ReplyDone, Answers
<1>7. CASE ReplySafetyCloses
  <2>1. orphanTickets' \subseteq Tickets
    BY <1>7, BookTypes DEF ReplySafetyCloses, NewTickets
  <2> QED
    BY <1>7, <2>1, AnswerType, CloseType, BookTypes, NullTypes
       DEF ReplySafetyCloses, ReplyDone, Answers
<1>8. CASE ReplyDefers
  <2>1. verify' \in Verify
    BY <1>8, NullTypes DEF ReplyDefers, Verify
  <2> QED
    BY <1>8, <2>1, NullTypes DEF ReplyDefers, ReplyDone, Answers
<1>9. CASE ReplyAmbiguous
  <2>1. SignalType'
    BY <1>9, NullTypes DEF ReplyAmbiguous, ReplyDone
  <2> QED
    BY <1>9, <2>1, AnswerType, NullTypes
       DEF ReplyAmbiguous, ReplyDone, Answers
<1> QED
  BY <1>1, <1>2, <1>3, <1>4, <1>5, <1>6, <1>7, <1>8, <1>9

\* A step of the verifier, the panel, the clock and a restart keeps the types.
LEMMA OtherTypes ==
    ASSUME IInv,
           \/ VerifierAdopts \/ VerifierGivesUp \/ VerifierIsLost
           \/ ChangeMagic \/ DeleteSymbol \/ BackoffEnds \/ CooldownEnds
           \/ Crash \/ Boot
    PROVE  TypeOK'
<1> USE DEF IInv, TypeOK, MarketType, BrokerType, StoreType, SignalType,
        SendType, Phases, market, broker, store, memory
<1>1. CASE VerifierAdopts
  <2>1. SendType'
    BY <1>1, VerifierType, NullTypes DEF VerifierAdopts, Tickets
  <2> QED
    BY <1>1, <2>1 DEF VerifierAdopts, VerifierReports
<1>2. CASE VerifierGivesUp
  <2>1. SendType'
    BY <1>2, VerifierType, NullTypes DEF VerifierGivesUp
  <2> QED
    BY <1>2, <2>1 DEF VerifierGivesUp, VerifierReports
<1>3. CASE VerifierIsLost
  <2>1. SendType'
    BY <1>3, VerifierType, NullTypes DEF VerifierIsLost
  <2> QED
    BY <1>3, <2>1 DEF VerifierIsLost, VerifierReports
<1>4. CASE ChangeMagic
  BY <1>4, BoundsAssumption DEF ChangeMagic, PanelMayEdit
<1>5. CASE DeleteSymbol
  <2>1. SignalType'
    BY <1>5, NullTypes DEF DeleteSymbol
  <2> QED
    BY <1>5, <2>1, NullTypes DEF DeleteSymbol, PanelMayEdit
<1>6. CASE BackoffEnds
  BY <1>6 DEF BackoffEnds
<1>7. CASE CooldownEnds
  BY <1>7 DEF CooldownEnds
<1>8. CASE Crash
  <2>1. restarts' \in 0..MaxRestarts
    BY <1>8, BoundsAssumption DEF Crash
  <2>2. SignalType'
    BY <1>8, <2>1, NullTypes DEF Crash
  <2> QED
    BY <1>8, <2>1, <2>2, NullTypes DEF Crash
<1>9. CASE Boot
  BY <1>9 DEF Boot
<1> QED
  BY <1>1, <1>2, <1>3, <1>4, <1>5, <1>6, <1>7, <1>8, <1>9

-----------------------------------------------------------------------------
(* The booking invariant.                                                  *)

Kept == BookingInv /\ ScanOfLiveSymbol /\ BookedOnce

\* A booking on the success path keeps the record.
LEMMA BooksKeepsRecord ==
    ASSUME IInv, pc = "reply", NEW t, Books(t)
    PROVE  BookedInv' /\ BookedOnce'
<1>1. magic # 0 /\ lastBar \in Int /\ filledBars < lastBar
  BY BoundsAssumption
     DEF IInv, TypeOK, SignalType, BookingInv, OfferInv, Offering, EntryLocked
<1> QED
  BY <1>1, BookingKeepsRecord DEF Books, MarkFilled

\* A step of the market and the broker keeps the booking invariant.
LEMMA MarketKeeps ==
    ASSUME IInv,
           \/ BarCloses \/ OrderExecutes \/ OrderDies \/ FillSurfaces
           \/ PositionCloses
    PROVE  Kept'
<1> USE BoundsAssumption DEF IInv, TypeOK, MarketType, StoreType, SignalType,
        SendType, Verify, Kept, BookingInv, MarksInv, FlightInv, OfferInv,
        BookedInv, ScanOfLiveSymbol, BookedOnce, Offering, EntryLocked,
        NoVerify, NoScan, market, broker, store, memory
<1>1. CASE BarCloses
  BY <1>1 DEF BarCloses, Sides
<1>2. CASE OrderExecutes
  BY <1>2 DEF OrderExecutes, BrokerSets
<1>3. CASE OrderDies
  BY <1>3 DEF OrderDies, BrokerSets
<1>4. CASE FillSurfaces
  BY <1>4 DEF FillSurfaces, BrokerSets
<1>5. CASE PositionCloses
  BY <1>5 DEF PositionCloses, BrokerSets
<1> QED
  BY <1>1, <1>2, <1>3, <1>4, <1>5

\* A step of the head of a cycle keeps the booking invariant.
LEMMA HeadKeeps ==
    ASSUME IInv,
           \/ CycleStarts \/ ScanFinds \/ ScanWaits \/ ScanAbandons
           \/ ScanLastLookFinds \/ ScanGivesUp \/ ScanPutsOff
           \/ ManagePositions
    PROVE  Kept'
<1> USE BoundsAssumption DEF IInv, TypeOK, MarketType, StoreType, SignalType,
        SendType, Verify, Kept, BookingInv, MarksInv, FlightInv, OfferInv,
        BookedInv, ScanOfLiveSymbol, BookedOnce, Offering, EntryLocked,
        NoVerify, NoScan, market, broker, store, memory
<1>1. CASE CycleStarts
  BY <1>1 DEF CycleStarts
<1>2. CASE ScanFinds
  BY <1>2 DEF ScanFinds, CloseScanned, ScanUnchanged
<1>3. CASE ScanWaits
  BY <1>3 DEF ScanWaits, ScanUnchanged
<1>4. CASE ScanAbandons
  BY <1>4 DEF ScanAbandons, ScanUnchanged
<1>5. CASE ScanLastLookFinds
  BY <1>5 DEF ScanLastLookFinds, LastLook, CloseScanned, ScanUnchanged
<1>6. CASE ScanGivesUp
  BY <1>6 DEF ScanGivesUp, LastLook, ScanUnchanged
<1>7. CASE ScanPutsOff
  BY <1>7 DEF ScanPutsOff, LastLook, ScanUnchanged
<1>8. CASE ManagePositions
  BY <1>8 DEF ManagePositions
<1> QED
  BY <1>1, <1>2, <1>3, <1>4, <1>5, <1>6, <1>7, <1>8

\* A step of the evaluation of the live bar keeps the booking invariant.
LEMMA EvaluateKeeps ==
    ASSUME IInv,
           \/ EvaluateShut \/ EvaluateHolds \/ EvaluateOffers
           \/ EvaluateSkips
    PROVE  Kept'
<1> USE BoundsAssumption DEF IInv, TypeOK, MarketType, StoreType, SignalType,
        SendType, Verify, Kept, BookingInv, MarksInv, FlightInv, OfferInv,
        BookedInv, ScanOfLiveSymbol, BookedOnce, Offering, EntryLocked,
        NoVerify, NoScan, market, broker, store, memory
<1>1. CASE EvaluateShut
  BY <1>1 DEF EvaluateShut, Evaluated, SignalAt, PendingAt
<1>2. CASE EvaluateHolds
  BY <1>2 DEF EvaluateHolds, Evaluated, SignalAt, PendingAt
<1>3. CASE EvaluateOffers
  BY <1>3 DEF EvaluateOffers, SignalAt, Evaluated, PendingAt
<1>4. CASE EvaluateSkips
  BY <1>4 DEF EvaluateSkips, SignalAt, PendingAt
<1> QED
  BY <1>1, <1>2, <1>3, <1>4

\* A step of the drain of the verifier results keeps the booking invariant.
LEMMA DrainKeeps ==
    ASSUME IInv,
           \/ DrainNothing \/ DrainDropped \/ DrainBooked \/ DrainUnfilled
           \/ DrainAmbiguous
    PROVE  Kept'
<1> USE BoundsAssumption DEF IInv, TypeOK, MarketType, StoreType, SignalType,
        SendType, Verify, Kept, BookingInv, MarksInv, FlightInv, OfferInv,
        BookedInv, ScanOfLiveSymbol, BookedOnce, Offering, EntryLocked,
        NoVerify, NoScan, market, broker, store, memory
<1>1. CASE DrainNothing
  BY <1>1 DEF DrainNothing
<1>2. CASE DrainDropped
  BY <1>2 DEF DrainDropped, Drained
<1>3. CASE DrainBooked
  <2>1. BookedInv' /\ BookedOnce'
    <3>1. verify.bar \in Int /\ filledBars < verify.bar
      BY <1>3 DEF DrainBooked
    <3> QED
      BY <1>3, <3>1, BookingKeepsRecord DEF DrainBooked, MarkFilled
  <2>2. OfferInv'
    <3>1. /\ filledBars' = verify.bar /\ lastBar' = lastBar /\ pc' = "entry"
          /\ base' = base /\ magic' = magic
          /\ primary' = (primary /\ lastBar # verify.bar)
      BY <1>3 DEF DrainBooked, Drained, MarkFilled
    <3>2. verify.bar \in Int /\ lastBar \in Int
      OBVIOUS
    <3>3. primary => verify.bar <= lastBar
      BY <1>3 DEF DrainBooked
    <3>4. primary' => primary /\ lastBar # verify.bar
      BY <3>1
    <3>5. Offering' => verify.bar < lastBar
      BY <3>2, <3>3, <3>4
    <3> QED
      BY <3>1, <3>5
  <2> QED
    BY <1>3, <2>1, <2>2 DEF DrainBooked, MarkFilled, Drained
<1>4. CASE DrainUnfilled
  BY <1>4 DEF DrainUnfilled, Drained
<1>5. CASE DrainAmbiguous
  BY <1>5 DEF DrainAmbiguous, Drained
<1> QED
  BY <1>1, <1>2, <1>3, <1>4, <1>5

\* A step of the gates of an entry keeps the booking invariant.
LEMMA EntryKeeps ==
    ASSUME IInv,
           \/ EntryRefused \/ ProbeFindsLateFill \/ ProbeExhausted
           \/ EntryProceeds \/ LockRefuses \/ LockRechecks
    PROVE  Kept'
<1> USE BoundsAssumption DEF IInv, TypeOK, MarketType, StoreType, SignalType,
        SendType, Verify, Kept, BookingInv, MarksInv, FlightInv, OfferInv,
        BookedInv, ScanOfLiveSymbol, BookedOnce, Offering, EntryLocked,
        NoVerify, NoScan, market, broker, store, memory
<1>1. CASE EntryRefused
  BY <1>1 DEF EntryRefused, EntryDone
<1>2. CASE ProbeFindsLateFill
  <2>1. BookedInv'
    <3>1. filledBars < lastBar
      BY <1>2 DEF ProbeFindsLateFill, EntryGatesPass
    <3>2. lastBar \in Int /\ \A p \in ledger : p[2] \in Int
      BY LedgerBars
    <3> QED
      BY <1>2, <3>1, <3>2, LedgerBars DEF ProbeFindsLateFill, EntryDone
  <2> QED
    BY <1>2, <2>1 DEF ProbeFindsLateFill, EntryGatesPass, EntryDone
<1>3. CASE ProbeExhausted
  BY <1>3 DEF ProbeExhausted, EntryGatesPass, EntryDone
<1>4. CASE EntryProceeds
  BY <1>4 DEF EntryProceeds, EntryGatesPass
<1>5. CASE LockRefuses
  BY <1>5 DEF LockRefuses
<1>6. CASE LockRechecks
  BY <1>6 DEF LockRechecks
<1> QED
  BY <1>1, <1>2, <1>3, <1>4, <1>5, <1>6

\* A step of the send and its reply keeps the booking invariant.
LEMMA SendKeeps ==
    ASSUME IInv,
           \/ SendImpossible \/ SendRejected \/ SendReplied
           \/ ReplyResolved \/ ReplyAdopts \/ ReplyOpensScan
           \/ ReplySafetyCloses \/ ReplyDefers \/ ReplyAmbiguous
    PROVE  Kept'
<1> USE BoundsAssumption DEF IInv, TypeOK, MarketType, StoreType, SignalType,
        SendType, Verify, Kept, BookingInv, MarksInv, FlightInv, OfferInv,
        BookedInv, ScanOfLiveSymbol, BookedOnce, Offering, EntryLocked,
        NoVerify, NoScan, market, broker, store, memory
<1>1. CASE SendImpossible
  BY <1>1 DEF SendImpossible
<1>2. CASE SendRejected
  BY <1>2 DEF SendRejected, SendOrder
<1>3. CASE SendReplied
  <2>1. OfferInv'
    <3>1. sent' # 0
      BY <1>3 DEF SendReplied, SendOrder, BrokerType
    <3> QED
      BY <1>3, <3>1 DEF SendReplied, SendOrder
  <2> QED
    BY <1>3, <2>1 DEF SendReplied, SendOrder
<1>4. CASE ReplyResolved
  <2>1. BookedInv' /\ BookedOnce'
    BY <1>4, BooksKeepsRecord DEF ReplyResolved
  <2> QED
    BY <1>4, <2>1 DEF ReplyResolved, Books, MarkFilled, ReplyDone
<1>5. CASE ReplyAdopts
  <2>1. BookedInv' /\ BookedOnce'
    BY <1>5, BooksKeepsRecord DEF ReplyAdopts
  <2> QED
    BY <1>5, <2>1 DEF ReplyAdopts, Books, MarkFilled, ReplyDone
<1>6. CASE ReplyOpensScan
  BY <1>6 DEF ReplyOpensScan, ReplyDone
<1>7. CASE ReplySafetyCloses
  BY <1>7 DEF ReplySafetyCloses, ReplyDone
<1>8. CASE ReplyDefers
  BY <1>8 DEF ReplyDefers, ReplyDone
<1>9. CASE ReplyAmbiguous
  BY <1>9 DEF ReplyAmbiguous, ReplyDone
<1> QED
  BY <1>1, <1>2, <1>3, <1>4, <1>5, <1>6, <1>7, <1>8, <1>9

\* A step of the verifier, the panel, the clock and a restart
\* keeps the booking invariant.
LEMMA OtherKeeps ==
    ASSUME IInv,
           \/ VerifierAdopts \/ VerifierGivesUp \/ VerifierIsLost
           \/ ChangeMagic \/ DeleteSymbol \/ BackoffEnds \/ CooldownEnds
           \/ Crash \/ Boot
    PROVE  Kept'
<1> USE BoundsAssumption DEF IInv, TypeOK, MarketType, StoreType, SignalType,
        SendType, Verify, Kept, BookingInv, MarksInv, FlightInv, OfferInv,
        BookedInv, ScanOfLiveSymbol, BookedOnce, Offering, EntryLocked,
        NoVerify, NoScan, market, broker, store, memory
<1>1. CASE VerifierAdopts
  <2>1. PICK t \in Tickets : VerifierReports("filled", t)
    BY <1>1 DEF VerifierAdopts
  <2> QED
    BY <2>1 DEF VerifierReports, Tickets
<1>2. CASE VerifierGivesUp
  BY <1>2 DEF VerifierGivesUp, VerifierReports
<1>3. CASE VerifierIsLost
  BY <1>3 DEF VerifierIsLost, VerifierReports
<1>4. CASE ChangeMagic
  BY <1>4 DEF ChangeMagic, PanelMayEdit
<1>5. CASE DeleteSymbol
  BY <1>5 DEF DeleteSymbol, PanelMayEdit
<1>6. CASE BackoffEnds
  BY <1>6 DEF BackoffEnds
<1>7. CASE CooldownEnds
  BY <1>7 DEF CooldownEnds
<1>8. CASE Crash
  BY <1>8 DEF Crash
<1>9. CASE Boot
  BY <1>9 DEF Boot
<1> QED
  BY <1>1, <1>2, <1>3, <1>4, <1>5, <1>6, <1>7, <1>8, <1>9

-----------------------------------------------------------------------------
(* The theorems.                                                           *)

\* The invariant holds at the start.
LEMMA InitIInv == Init => IInv
<1> SUFFICES ASSUME Init PROVE IInv
  OBVIOUS
<1>1. MarketType
  BY NullTypes DEF Init, MarketType, Sides
<1>2. BrokerType
  <2>1. orders \in [Tickets -> Order]
    BY NullTypes DEF Init
  <2>2. sent \in 0..MaxSends
    BY NullTypes DEF Init
  <2> QED
    BY <2>1, <2>2 DEF BrokerType
<1>3. StoreType
  <2>1. 1 \in 0..(MaxEdits + 1)
    BY BoundsAssumption
  <2> QED
    BY <2>1, NullTypes DEF Init, StoreType
<1>4. SignalType /\ SendType
  BY NullTypes DEF Init, SignalType, SendType, Phases
<1>5. BookingInv /\ ScanOfLiveSymbol /\ BookedOnce
  BY DEF Init, BookingInv, MarksInv, FlightInv, OfferInv, Offering, EntryLocked,
         BookedInv, ScanOfLiveSymbol, BookedOnce, NoScan, NoVerify
<1> QED
  BY <1>1, <1>2, <1>3, <1>4, <1>5 DEF IInv, TypeOK

\* Every step keeps it.
LEMMA StepIInv == IInv /\ [Next]_vars => IInv'
<1> SUFFICES ASSUME IInv, [Next]_vars PROVE IInv'
  OBVIOUS
<1>1. CASE Next
  <2>1. TypeOK'
    BY <1>1, MarketTypes, HeadTypes, EvaluateTypes, DrainTypes, EntryTypes,
       SendTypes, OtherTypes
       DEF Next, Broker, PollThread, VerifyThread, Panel, Clock
  <2>2. Kept'
    BY <1>1, MarketKeeps, HeadKeeps, EvaluateKeeps, DrainKeeps, EntryKeeps,
       SendKeeps, OtherKeeps
       DEF Next, Broker, PollThread, VerifyThread, Panel, Clock
  <2> QED
    BY <2>1, <2>2 DEF IInv, Kept
<1>2. CASE UNCHANGED vars
  BY <1>2 DEF vars, market, broker, store, memory, IInv, TypeOK, MarketType,
     BrokerType, StoreType, SignalType, SendType, BookingInv, MarksInv, FlightInv,
     OfferInv, Offering, EntryLocked, BookedInv, ScanOfLiveSymbol, BookedOnce
<1> QED
  BY <1>1, <1>2

\* The invariant holds in every behaviour.
THEOREM Invariant == Spec => []IInv
<1>1. Init => IInv
  BY InitIInv
<1>2. IInv /\ [Next]_vars => IInv'
  BY StepIInv
<1> QED
  BY <1>1, <1>2, PTL DEF Spec

\* The state of the pipeline, of the broker and of the store stays within its
\* types; with it no booking is ever under no bar.
THEOREM Typing == Spec => []TypeOK
<1>1. IInv => TypeOK
  BY DEF IInv
<1> QED
  BY <1>1, Invariant, PTL

\* An offer, an order in flight and a booking are each of a bar younger than
\* every mark, so neither a late answer nor a restart takes a bar again that
\* was booked (_evaluate, _book_deferred_fill, _mark_bar_filled).
THEOREM BookingSafe == Spec => []BookingInv
<1>1. IInv => BookingInv
  BY DEF IInv
<1> QED
  BY <1>1, Invariant, PTL

\* No bar is booked twice, whatever is lost, late or restarted.
THEOREM BookedOnceSafe == Spec => []BookedOnce
<1>1. IInv => BookedOnce
  BY DEF IInv
<1> QED
  BY <1>1, Invariant, PTL

\* A symbol whose lost ticket is searched keeps its magic
\* (_magic_blocked_by_orphan_state, entry_lock).
THEOREM ScanSafe == Spec => []ScanOfLiveSymbol
<1>1. IInv => ScanOfLiveSymbol
  BY DEF IInv
<1> QED
  BY <1>1, Invariant, PTL

-----------------------------------------------------------------------------
(* The bookings implement SignalLedger.                                    *)

\* A booking above every mark is a step of SignalLedger.
LEMMA BookingIsNote ==
    ASSUME IInv, magic # 0, NEW t \in Tickets, NEW b \in Bars, filledBars < b,
           ledger' = ledger \cup {<<t, b>>}
    PROVE  Abstract!Next
<1>1. \A p \in ledger : p[2] \in Int /\ p[2] <= filledBars /\ filledBars \in Int
  BY LedgerBars DEF IInv, BookingInv, BookedInv
<1>2. \A p \in ledger : p[2] < b
  BY <1>1 DEF Bars
<1> QED
  BY <1>2 DEF Abstract!Next, Abstract!Note

\* So is a booking on the success path.
LEMMA BooksIsNote ==
    ASSUME IInv, pc = "reply", NEW t \in Tickets, Books(t)
    PROVE  Abstract!Next
<1>1. magic # 0 /\ lastBar \in Bars /\ filledBars < lastBar
  BY BoundsAssumption
     DEF IInv, TypeOK, SignalType, BookingInv, MarksInv, OfferInv, Offering,
         EntryLocked, Bars
<1> QED
  BY <1>1, BookingIsNote DEF Books

\* Every step is a booking in the order of the bars, or books nothing.
LEMMA StepIsNote == IInv /\ [Next]_vars => [Abstract!Next]_ledger
<1> SUFFICES ASSUME IInv, [Next]_vars PROVE Abstract!Next \/ ledger' = ledger
  OBVIOUS
<1>1. CASE DrainBooked
  <2>1. /\ verify.bar \in Bars /\ verify.ticket \in Tickets
        /\ filledBars < verify.bar
    BY <1>1, BoundsAssumption
       DEF DrainBooked, IInv, TypeOK, StoreType, SendType, Verify, BookingInv,
           FlightInv, Bars, Tickets
  <2> QED
    BY <1>1, <2>1, BookingIsNote DEF DrainBooked
<1>2. CASE ReplyResolved
  <2>1. sent \in Tickets
    BY <1>2, BoundsAssumption
       DEF ReplyResolved, IInv, TypeOK, BrokerType, BookingInv, OfferInv, Tickets
  <2> QED
    BY <1>2, <2>1, BooksIsNote DEF ReplyResolved
<1>3. CASE ReplyAdopts
  BY <1>3, BooksIsNote, BookTypes DEF ReplyAdopts, NewTickets
<1>4. ASSUME ~DrainBooked, ~ReplyResolved, ~ReplyAdopts
      PROVE  ledger' = ledger
  BY <1>4
     DEF Next, Broker, PollThread, VerifyThread, Panel, Clock, vars, store,
         BarCloses, OrderExecutes, BrokerSets, OrderDies, FillSurfaces,
         PositionCloses, CycleStarts, ScanFinds, ScanUnchanged, ScanWaits,
         ScanAbandons, ScanLastLookFinds, LastLook, ScanGivesUp, ScanPutsOff,
         ManagePositions, EvaluateShut, Evaluated, EvaluateHolds,
         EvaluateOffers, EvaluateSkips, DrainNothing, DrainDropped, Drained,
         DrainUnfilled, DrainAmbiguous, EntryRefused, EntryDone,
         ProbeFindsLateFill, ProbeExhausted, EntryProceeds, LockRefuses,
         LockRechecks, SendImpossible, SendRejected, SendReplied,
         ReplyOpensScan, ReplyDone, ReplySafetyCloses, ReplyDefers,
         ReplyAmbiguous, VerifierAdopts, VerifierReports, VerifierGivesUp,
         VerifierIsLost, ChangeMagic, DeleteSymbol, BackoffEnds, CooldownEnds,
         Crash, Boot
<1> QED
  BY <1>1, <1>2, <1>3, <1>4

\* The pipeline implements SignalLedger: every behaviour of the poll thread,
\* the verifier, the panel and the broker books signals one by one in the
\* order of their bars.
THEOREM LedgerRefines == Spec => LedgerKept
<1>1. Init => Abstract!Init
  BY DEF Init, Abstract!Init
<1> QED
  BY <1>1, StepIsNote, Invariant, PTL DEF Spec, LedgerKept, Abstract!Spec

-----------------------------------------------------------------------------
(* One order at a time.  From here on the code's waits outlast the broker  *)
(* and the book can be read.                                               *)

Prompt == BoundedLag /\ ~ReadsMayFail

\* Orders the broker has not decided or does not show yet, and all that may
\* be open under a magic.
Undecided == {t \in Tickets : orders[t].st \in {"work", "lag"}}
Live(m)   == {t \in Tickets : orders[t].st \in {"work", "lag", "open"} /\ orders[t].magic = m}

\* Tickets are numbered in the order they are sent, only the last one may be
\* undecided, and the engine's book shows nothing that was never shown.
LastInv ==
    /\ \A t \in Tickets : orders[t].st = "none" <=> t > sent
    /\ Undecided \subseteq {sent}
    /\ \A t \in positions : orders[t].st \in {"open", "closed"}

\* While it is, something holds the symbol off the next send;
HeldInv ==
    Undecided # {} =>
        \/ magic = 0 \/ pc \in {"down", "reply"}
        \/ verify.phase \in {"looking", "unfilled"}
        \/ linkBackoff # "off" \/ orphanScan.phase # "none"
        \/ (cooldown /\ base = 0)

\* and once the gates let an offer through, none of it comes back.
GateInv ==
    pc \in {"send", "order"} => linkBackoff = "off" /\ orphanScan.phase = "none"

\* Whoever looks for the last order's ticket sees no other new ticket.
OrderInv ==
    pc = "order" =>
        /\ \A t \in Visible : orders[t].magic = base => t \in before
        /\ \A m : m = base => Cardinality(Live(m)) < PositionCap

ReplyInv ==
    pc = "reply" =>
        /\ \A t \in Visible : orders[t].magic = base => t \in before \/ t = sent
        /\ orders[sent].bar = lastBar
        /\ reply = "resolved" => sent \in Executed

VerifyInv ==
    verify.phase # "none" =>
        /\ sent # 0 /\ verify.send = sent /\ orders[sent].bar = verify.bar
        /\ \A t \in Visible :
               orders[t].magic = verify.magic => t \in verify.known \/ t = sent
        /\ verify.phase # "ambiguous"
        /\ verify.phase = "filled" =>
               verify.ticket = sent /\ orders[sent].st \in {"open", "closed"}

ScanInv ==
    orphanScan.phase # "none" =>
        \A t \in Visible \cup positions :
            orders[t].magic = orphanScan.magic => t \in orphanScan.known \/ t = sent

CapInv == \A m \in Magics : Cardinality(Live(m)) <= PositionCap

OneOrder ==
    /\ LastInv /\ HeldInv /\ GateInv /\ OrderInv /\ ReplyInv /\ VerifyInv /\ ScanInv
    /\ CapInv /\ LedgerTruth

\* An order changes its state at the broker and the answer to it, in the
\* order of the states, and nothing else.
Fades ==
    \A t \in Tickets :
        /\ orders'[t].bar = orders[t].bar /\ orders'[t].magic = orders[t].magic
        /\ orders'[t].st = "none" <=> orders[t].st = "none"
        /\ orders'[t].st \in {"work", "lag"} => orders[t].st \in {"work", "lag"}
        /\ orders'[t].st = "open" => orders[t].st \in {"work", "lag", "open"}
        /\ orders[t].st \in {"lag", "open"} => orders'[t].st \in {"lag", "open", "closed"}
        /\ orders[t].st \in {"open"} => orders'[t].st \in {"open", "closed"}
        /\ orders[t].st = "closed" => orders'[t].st = "closed"

\* What is left of the sets of tickets after such a step.
LEMMA FadeLeaves ==
    ASSUME Fades, sent' = sent
    PROVE  /\ Undecided' \subseteq Undecided /\ Executed \subseteq Executed'
           /\ Visible' \subseteq Visible \cup Undecided
           /\ \A m : Live(m)' \subseteq Live(m)
BY DEF Fades, Undecided, Executed, Visible, Live

\* The room under the cap does not shrink.
LEMMA CapKept ==
    ASSUME Fades, sent' = sent, CapInv
    PROVE  /\ CapInv'
           /\ \A m : /\ Cardinality(Live(m)) \in Nat /\ Cardinality(Live(m)') \in Nat
                     /\ Cardinality(Live(m)') <= Cardinality(Live(m))
<1>1. IsFiniteSet(Tickets)
  BY FS_Interval, BoundsAssumption DEF Tickets
<1>2. ASSUME NEW m PROVE /\ Cardinality(Live(m)') <= Cardinality(Live(m))
                         /\ Cardinality(Live(m)) \in Nat /\ Cardinality(Live(m)') \in Nat
  <2>1. Live(m)' \subseteq Live(m) /\ Live(m) \subseteq Tickets
    BY FadeLeaves DEF Live
  <2>2. IsFiniteSet(Live(m))
    BY <1>1, <2>1, FS_Subset
  <2>3. IsFiniteSet(Live(m)') /\ Cardinality(Live(m)') <= Cardinality(Live(m))
    BY <2>1, <2>2, FS_Subset
  <2> QED BY <2>2, <2>3, FS_CardinalityType
<1> QED BY <1>2, CapAssumption DEF CapInv

\* The invariant that is about the orders alone goes through.
LEMMA FadeKeeps ==
    ASSUME IInv, OneOrder, Fades, sent' = sent, ledger' = ledger,
           positions' = positions
    PROVE  LastInv' /\ CapInv' /\ LedgerTruth'
<1>1. LastInv'
  <2>1. positions \subseteq Tickets
    BY DEF IInv, TypeOK, SignalType
  <2> QED BY <2>1, FadeLeaves DEF OneOrder, LastInv, Fades
<1>2. LedgerTruth'
  <2>1. \A p \in ledger : p[1] \in Tickets
    BY DEF OneOrder, LedgerTruth, Executed
  <2> QED BY <2>1, FadeLeaves DEF OneOrder, LedgerTruth, Fades
<1> QED BY <1>1, <1>2, CapKept DEF OneOrder

\* A step that leaves the orders as they are, or lets them fade.
LEMMA SameFades ==
    ASSUME orders' = orders
    PROVE  Fades
BY DEF Fades

LEMMA AnswerFades ==
    ASSUME IInv, NEW t, NEW a, orders' = Answer(orders, t, a)
    PROVE  Fades
BY DEF Fades, Answer, IInv, TypeOK, BrokerType, Order

LEMMA CloseFades ==
    ASSUME IInv, NEW T, \A t \in T \cap Tickets : orders[t].st \in {"open", "closed"},
           orders' = Close(orders, T)
    PROVE  Fades
BY DEF Fades, Close, IInv, TypeOK, BrokerType, Order

LEMMA BrokerFades ==
    ASSUME IInv, NEW t \in Tickets, NEW from, NEW to,
           <<from, to>> \in {<<"work", "open">>, <<"work", "dead">>, <<"lag", "open">>,
                             <<"open", "closed">>},
           BrokerSets(t, from, to)
    PROVE  Fades
BY DEF Fades, BrokerSets, IInv, TypeOK, BrokerType, Order

\* Nothing but the orders moves, and they only fade.
LEMMA OnlyFades ==
    ASSUME IInv, OneOrder, Fades, UNCHANGED <<sent, store, pc, memory>>
    PROVE  OneOrder'
<1> USE DEF OneOrder, store, memory
<1>1. Visible' \subseteq Visible \cup Undecided /\ Undecided' \subseteq Undecided
  BY FadeLeaves
<1>2. \A t \in Tickets : orders'[t].bar = orders[t].bar /\ orders'[t].magic = orders[t].magic
  BY DEF Fades
<1>3. Visible \subseteq Tickets /\ positions \subseteq Tickets /\ Undecided \subseteq {sent}
  BY DEF Visible, IInv, TypeOK, SignalType, LastInv
<1>4. LastInv' /\ CapInv' /\ LedgerTruth'
  BY FadeKeeps
<1>5. HeldInv'
  BY <1>1 DEF HeldInv
<1>6. GateInv'
  BY DEF GateInv
<1>7. OrderInv'
  <2> SUFFICES ASSUME pc = "order" PROVE OrderInv'
    BY DEF OrderInv
  <2>1. Undecided = {}
    BY DEF HeldInv, GateInv, IInv, BookingInv, OfferInv, FlightInv, EntryLocked
  <2>2. \A t \in Visible' : orders'[t].magic = base' => t \in before'
    BY <1>1, <1>2, <1>3, <2>1 DEF OrderInv
  <2>3. \A m : m = base' => Cardinality(Live(m)') < PositionCap
    BY CapKept, CapAssumption DEF OrderInv
  <2> QED BY <2>2, <2>3 DEF OrderInv
<1>8. ReplyInv'
  <2>1. sent \in Tickets \/ pc # "reply"
    BY BoundsAssumption DEF IInv, TypeOK, BrokerType, BookingInv, OfferInv, Tickets
  <2> QED BY <1>1, <1>2, <1>3, <2>1, FadeLeaves DEF ReplyInv
<1>9. VerifyInv'
  <2> SUFFICES ASSUME verify.phase # "none" PROVE VerifyInv'
    BY DEF VerifyInv
  <2>1. sent \in Tickets
    BY BoundsAssumption DEF VerifyInv, IInv, TypeOK, BrokerType, Tickets
  <2>2. orders[sent].st \in {"open", "closed"} => orders'[sent].st \in {"open", "closed"}
    BY <2>1 DEF Fades
  <2> QED BY <1>1, <1>2, <1>3, <2>1, <2>2 DEF VerifyInv
<1>10. ScanInv'
  BY <1>1, <1>2, <1>3 DEF ScanInv
<1> QED BY <1>4, <1>5, <1>6, <1>7, <1>8, <1>9, <1>10

\* A step of the broker or the market.
LEMMA MarketOneOrder ==
    ASSUME IInv, OneOrder,
           \/ BarCloses \/ OrderExecutes \/ OrderDies \/ FillSurfaces
           \/ PositionCloses
    PROVE  OneOrder' /\ Fades
<1>1. UNCHANGED <<sent, store, pc, memory>>
  BY DEF BarCloses, OrderExecutes, OrderDies, FillSurfaces, PositionCloses, BrokerSets,
         broker
<1>2. Fades
  BY SameFades, BrokerFades
     DEF BarCloses, OrderExecutes, OrderDies, FillSurfaces, PositionCloses, broker
<1> QED BY <1>1, <1>2, OnlyFades

\* The waits outlast the broker, and every read of the book returns.
LEMMA PromptFacts ==
    ASSUME Prompt
    PROVE  /\ WaitOver => Undecided = {}
           /\ Reads = {TRUE}
BY EnvironmentAssumption DEF Prompt, WaitOver, Settled, Undecided, Reads

\* A ticket of the engine's book was shown, so it is not undecided.
LEMMA ShownDecides ==
    ASSUME OneOrder, sent \in Visible \cup positions
    PROVE  Undecided = {}
BY DEF OneOrder, LastInv, Undecided, Visible

\* A step of the head of a cycle: the book is read anew, a found ticket of
\* the scan was shown, and a scan only ends by then or after its waits.
LEMMA HeadOneOrder ==
    ASSUME IInv, OneOrder, Prompt,
           \/ CycleStarts \/ ScanFinds \/ ScanWaits \/ ScanAbandons
           \/ ScanLastLookFinds \/ ScanGivesUp \/ ScanPutsOff
           \/ ManagePositions
    PROVE  OneOrder' /\ Fades
<1>0. Visible \subseteq Tickets /\ positions \subseteq Tickets /\ Undecided \subseteq {sent}
  BY DEF OneOrder, LastInv, Visible, IInv, TypeOK, SignalType
<1>1. /\ UNCHANGED <<sent, magic, cooldown, ledger, base, verify, before, reply, lastBar>>
      /\ pc' \in {"idle", "scan", "manage", "evaluate"}
      /\ pc \notin {"down", "reply", "send", "order"}
      /\ linkBackoff # "off" => linkBackoff' # "off"
  BY DEF CycleStarts, ScanFinds, ScanWaits, ScanAbandons, ScanLastLookFinds, ScanGivesUp,
         ScanPutsOff, ManagePositions, ScanUnchanged, CloseScanned, LastLook, broker, store, memory
<1>2. Fades /\ positions' \subseteq {t \in Tickets : orders'[t].st \in {"open", "closed"}}
  <2>1. CASE UNCHANGED orders /\ positions' \in {positions, Visible}
    BY <1>0, <2>1, SameFades DEF OneOrder, LastInv, Visible
  <2>2. CASE ManagePositions
    <3>1. PICK gone \in SUBSET (orphanTickets \cap positions \cap Visible) :
             orders' = Close(orders, gone)
      BY <2>2 DEF ManagePositions
    <3>2. Fades
      BY <3>1, CloseFades DEF Visible
    <3> QED BY <1>0, <2>2, <3>2 DEF ManagePositions, memory, OneOrder, LastInv, Fades
  <2>3. ASSUME NEW T \in SUBSET (Visible \cup positions), CloseScanned(T)
        PROVE  Fades /\ positions' \subseteq {t \in Tickets : orders'[t].st \in {"open", "closed"}}
    <3>1. PICK gone \in SUBSET T :
             /\ orders' = Close(orders, gone)
             /\ positions' \in {positions, Visible \ gone}
      BY <2>3 DEF CloseScanned
    <3>2. Fades
      BY <1>0, <2>3, <3>1, CloseFades DEF Visible, OneOrder, LastInv
    <3> QED BY <1>0, <3>1, <3>2 DEF OneOrder, LastInv, Fades, Visible
  <2>4. CASE ScanFinds
    BY <2>3, <2>4 DEF ScanFinds, Under
  <2>5. CASE ScanLastLookFinds
    BY <2>3, <2>5 DEF ScanLastLookFinds, Under
  <2> QED BY <2>1, <2>2, <2>4, <2>5
     DEF CycleStarts, ScanWaits, ScanAbandons, ScanGivesUp, ScanPutsOff, LastLook,
         ScanUnchanged, broker, memory
<1>3. Visible' \subseteq Visible \cup Undecided /\ Undecided' \subseteq Undecided
  BY <1>1, <1>2, FadeLeaves
<1>4. \A t \in Tickets : orders'[t].bar = orders[t].bar /\ orders'[t].magic = orders[t].magic
  BY <1>2 DEF Fades
<1>5. orphanScan.phase = "none" => orphanScan' = orphanScan
  BY DEF CycleStarts, ScanFinds, ScanWaits, ScanAbandons, ScanLastLookFinds, ScanGivesUp,
         ScanPutsOff, ManagePositions, LastLook, store, broker
<1>6. orphanScan.phase # "none" =>
         \/ Undecided = {}
         \/ /\ orphanScan'.phase # "none" /\ orphanScan'.magic = orphanScan.magic
            /\ orphanScan'.known = orphanScan.known
  <2>1. CASE ScanFinds
    <3>1. sent \in positions
      BY <2>1 DEF ScanFinds, Under, OneOrder, ScanInv
    <3> QED BY <3>1, ShownDecides
  <2>2. CASE ScanLastLookFinds
    BY <2>2, PromptFacts DEF ScanLastLookFinds, LastLook
  <2>3. CASE ScanGivesUp
    BY <2>3, PromptFacts DEF ScanGivesUp, LastLook
  <2>4. CASE ScanAbandons
    BY <2>4 DEF ScanAbandons, IInv, TypeOK, StoreType, Scan
  <2> QED BY <2>1, <2>2, <2>3, <2>4
     DEF CycleStarts, ScanWaits, ScanPutsOff, ManagePositions, LastLook, store
<1>7. orphanScan'.phase # "none" =>
         /\ orphanScan.phase # "none" /\ orphanScan'.magic = orphanScan.magic
         /\ orphanScan'.known = orphanScan.known
  BY DEF CycleStarts, ScanFinds, ScanWaits, ScanAbandons, ScanLastLookFinds, ScanGivesUp,
         ScanPutsOff, ManagePositions, LastLook, CloseScanned, NoScan, store, broker,
         IInv, TypeOK, StoreType, Scan
<1>8. LastInv'
  BY <1>0, <1>1, <1>2, <1>3 DEF OneOrder, LastInv, Fades
<1>9. CapInv' /\ LedgerTruth'
  <2>1. LedgerTruth'
    BY <1>1, <1>2, FadeLeaves, <1>4 DEF OneOrder, LedgerTruth, Executed
  <2> QED BY <1>1, <1>2, <2>1, CapKept DEF OneOrder
<1>10. HeldInv'
  BY <1>1, <1>3, <1>5, <1>6 DEF OneOrder, HeldInv
<1>11. GateInv' /\ OrderInv' /\ ReplyInv'
  BY <1>1 DEF GateInv, OrderInv, ReplyInv
<1>12. VerifyInv'
  <2> SUFFICES ASSUME verify.phase # "none" PROVE VerifyInv'
    BY <1>1 DEF VerifyInv
  <2>1. sent \in Tickets
    BY BoundsAssumption DEF OneOrder, VerifyInv, IInv, TypeOK, BrokerType, Tickets
  <2>2. orders[sent].st \in {"open", "closed"} => orders'[sent].st \in {"open", "closed"}
    BY <1>2, <2>1 DEF Fades
  <2> QED BY <1>0, <1>1, <1>3, <1>4, <2>1, <2>2 DEF OneOrder, VerifyInv
<1>13. ScanInv'
  <2>1. positions' \subseteq positions \cup Visible
    BY DEF CycleStarts, ScanFinds, ScanWaits, ScanAbandons, ScanLastLookFinds, ScanGivesUp,
           ScanPutsOff, ManagePositions, CloseScanned, LastLook, ScanUnchanged, memory
  <2> QED BY <1>0, <1>1, <1>3, <1>4, <1>7, <2>1 DEF OneOrder, ScanInv
<1> QED BY <1>8, <1>9, <1>10, <1>11, <1>12, <1>13, <1>2 DEF OneOrder

\* What says something of the orders alone, of a step that leaves them.
LEMMA SameOrders ==
    ASSUME IInv, OneOrder, Fades, UNCHANGED <<sent, ledger>>,
           positions' \in {positions, Visible}
    PROVE  /\ LastInv' /\ CapInv' /\ LedgerTruth'
           /\ Visible' \subseteq Visible \cup {sent} /\ Undecided' \subseteq Undecided
           /\ Visible \cup positions \cup positions' \subseteq Tickets
           /\ \A t \in Tickets : /\ orders'[t].bar = orders[t].bar
                                 /\ orders'[t].magic = orders[t].magic
<1>1. Visible \subseteq Tickets /\ positions \subseteq Tickets /\ Undecided \subseteq {sent}
  BY DEF OneOrder, LastInv, Visible, IInv, TypeOK, SignalType
<1>2. Visible' \subseteq Visible \cup Undecided /\ Undecided' \subseteq Undecided
  BY FadeLeaves
<1>3. \A t \in Tickets : /\ orders'[t].bar = orders[t].bar
                         /\ orders'[t].magic = orders[t].magic
  BY DEF Fades
<1>4. LastInv'
  BY <1>1, <1>2 DEF OneOrder, LastInv, Fades, Visible
<1>5. LedgerTruth'
  BY <1>3, FadeLeaves DEF OneOrder, LedgerTruth, Executed
<1> QED BY <1>1, <1>2, <1>3, <1>4, <1>5, CapKept DEF OneOrder

\* The evaluation offers nothing during a cooldown.
LEMMA EvaluateOneOrder ==
    ASSUME IInv, OneOrder,
           \/ EvaluateShut \/ EvaluateHolds \/ EvaluateOffers \/ EvaluateSkips
    PROVE  OneOrder' /\ Fades
<1>1. /\ UNCHANGED <<orders, sent, magic, cooldown, orphanScan, ledger, verify, positions,
                     before, reply, linkBackoff>>
      /\ pc = "evaluate" /\ pc' = "drain"
      /\ base' = 0 \/ ~cooldown
  BY DEF EvaluateShut, EvaluateHolds, EvaluateOffers, EvaluateSkips, Evaluated, broker, store
<1>2. Fades
  BY <1>1, SameFades
<1>3. /\ LastInv' /\ CapInv' /\ LedgerTruth'
      /\ Visible' = Visible /\ Undecided' = Undecided
  BY <1>1, <1>2, SameOrders DEF Visible, Undecided
<1>4. HeldInv'
  BY <1>1, <1>3 DEF OneOrder, HeldInv
<1>5. GateInv' /\ OrderInv' /\ ReplyInv'
  BY <1>1 DEF GateInv, OrderInv, ReplyInv
<1>6. VerifyInv'
  BY <1>1, <1>3 DEF OneOrder, VerifyInv
<1>7. ScanInv'
  BY <1>1, <1>3 DEF OneOrder, ScanInv
<1> QED BY <1>3, <1>4, <1>5, <1>6, <1>7, <1>2 DEF OneOrder

\* What the verifier found is of the last order, and nothing found parks the
\* symbol.
LEMMA DrainOneOrder ==
    ASSUME IInv, OneOrder, Prompt,
           \/ DrainNothing \/ DrainDropped \/ DrainBooked \/ DrainUnfilled
           \/ DrainAmbiguous
    PROVE  OneOrder' /\ Fades
<1>1. /\ UNCHANGED <<sent, magic, orphanScan, base, before, reply>>
      /\ pc = "drain" /\ pc' = "entry"
      /\ positions' \in {positions, Visible}
      /\ verify' \in {verify, NoVerify}
  BY PromptFacts
     DEF DrainNothing, DrainDropped, DrainBooked, DrainUnfilled, DrainAmbiguous, Drained,
         broker, store, memory
<1>2. Fades
  BY SameFades, AnswerFades
     DEF DrainNothing, DrainDropped, DrainBooked, DrainUnfilled, DrainAmbiguous, Drained, broker
<1>3. /\ Visible' \subseteq Visible \cup {sent} /\ Undecided' \subseteq Undecided
      /\ Visible \cup positions \cup positions' \subseteq Tickets
      /\ \A t \in Tickets : /\ orders'[t].bar = orders[t].bar
                            /\ orders'[t].magic = orders[t].magic
  <2>1. Visible \subseteq Tickets /\ positions \subseteq Tickets /\ Undecided \subseteq {sent}
    BY DEF OneOrder, LastInv, Visible, IInv, TypeOK, SignalType
  <2> QED BY <1>1, <1>2, <2>1, FadeLeaves DEF Fades
<1>4. LastInv' /\ CapInv'
  BY <1>1, <1>2, <1>3, CapKept DEF OneOrder, LastInv, Fades, Visible
<1>5. LedgerTruth'
  <2>1. CASE DrainBooked
    <3>1. /\ verify.ticket = sent /\ orders[sent].st \in {"open", "closed"}
          /\ orders[sent].bar = verify.bar /\ sent \in Tickets
          /\ ledger' = ledger \cup {<<verify.ticket, verify.bar>>}
      BY <2>1, BoundsAssumption
         DEF DrainBooked, OneOrder, VerifyInv, IInv, TypeOK, BrokerType, Tickets
    <3>2. Executed \subseteq Executed' /\ Executed \subseteq Tickets
      BY <1>1, <1>2, FadeLeaves DEF Executed
    <3>3. ASSUME NEW p \in ledger PROVE p[1] \in Executed' /\ orders'[p[1]].bar = p[2]
      BY <1>3, <3>2 DEF OneOrder, LedgerTruth
    <3>4. sent \in Executed' /\ orders'[sent].bar = verify.bar
      BY <1>3, <3>1, <3>2 DEF Executed
    <3>5. ASSUME NEW p \in {<<verify.ticket, verify.bar>>}
          PROVE  p[1] \in Executed' /\ orders'[p[1]].bar = p[2]
      BY <3>1, <3>4
    <3> QED BY <3>1, <3>3, <3>5 DEF LedgerTruth
  <2>2. CASE UNCHANGED ledger
    BY <1>3, <1>2, <1>1, <2>2, FadeLeaves DEF OneOrder, LedgerTruth, Executed
  <2> QED BY <2>1, <2>2
       DEF DrainNothing, DrainDropped, DrainUnfilled, DrainAmbiguous, store
<1>6. HeldInv'
  <2>1. CASE DrainNothing
    BY <1>1, <1>3, <2>1 DEF DrainNothing, OneOrder, HeldInv, memory, store
  <2>2. CASE DrainDropped
    BY <1>1, <2>2 DEF DrainDropped, HeldInv
  <2>3. CASE DrainBooked
    <3>1. Undecided = {}
      BY <2>3 DEF DrainBooked, OneOrder, VerifyInv, LastInv, Undecided
    <3> QED BY <1>3, <3>1 DEF HeldInv
  <2>4. CASE DrainUnfilled
    BY <1>1, <2>4 DEF DrainUnfilled, HeldInv
  <2>5. CASE DrainAmbiguous
    BY <2>5 DEF DrainAmbiguous, OneOrder, VerifyInv
  <2> QED BY <2>1, <2>2, <2>3, <2>4, <2>5
<1>7. GateInv' /\ OrderInv' /\ ReplyInv'
  BY <1>1 DEF GateInv, OrderInv, ReplyInv
<1>8. VerifyInv'
  <2>1. CASE verify' = NoVerify
    BY <2>1 DEF VerifyInv, NoVerify
  <2>2. CASE DrainNothing
    BY <2>2 DEF DrainNothing, OneOrder, VerifyInv, broker, memory, Visible
  <2> QED BY <2>1, <2>2 DEF DrainDropped, DrainBooked, DrainUnfilled, DrainAmbiguous, Drained
<1>9. ScanInv'
  BY <1>1, <1>3 DEF OneOrder, ScanInv
<1> QED BY <1>4, <1>5, <1>6, <1>7, <1>8, <1>9, <1>2 DEF OneOrder

\* The gates let an offer through while nothing is undecided, and the re-read
\* under entry_lock finds room.
LEMMA EntryOneOrder ==
    ASSUME IInv, OneOrder,
           \/ EntryRefused \/ ProbeFindsLateFill \/ ProbeExhausted
           \/ EntryProceeds \/ LockRefuses \/ LockRechecks
    PROVE  OneOrder' /\ Fades
<1>1. /\ UNCHANGED <<orders, sent, magic, cooldown, orphanScan, ledger, verify, reply, linkBackoff>>
      /\ pc \in {"entry", "send"} /\ pc' \in {"idle", "send", "order"}
      /\ positions' \in {positions, Visible}
      /\ base' = 0 \/ base' = base
  BY DEF EntryRefused, ProbeFindsLateFill, ProbeExhausted, EntryProceeds, LockRefuses,
         LockRechecks, EntryGatesPass, EntryDone, broker, store
<1>2. Fades
  BY <1>1, SameFades
<1>3. /\ LastInv' /\ CapInv' /\ LedgerTruth'
      /\ Visible' = Visible /\ Undecided' = Undecided
  BY <1>1, <1>2, SameOrders DEF Visible, Undecided
<1>4. HeldInv'
  BY <1>1, <1>3 DEF OneOrder, HeldInv
<1>5. GateInv'
  BY <1>1 DEF OneOrder, GateInv, EntryRefused, ProbeFindsLateFill, ProbeExhausted,
         EntryProceeds, LockRefuses, LockRechecks, EntryGatesPass, EntryDone
<1>6. OrderInv'
  <2> SUFFICES ASSUME LockRechecks PROVE OrderInv'
    BY DEF OrderInv, EntryRefused, ProbeFindsLateFill, ProbeExhausted, EntryProceeds,
           LockRefuses, EntryDone
  <2>1. Undecided = {}
    BY DEF LockRechecks, OneOrder, HeldInv, GateInv, IInv, BookingInv, OfferInv, FlightInv
  <2>2. Live(base) = Under(Visible, base)
    BY <2>1 DEF Live, Under, Visible, Undecided
  <2>3. Cardinality(Live(base)) < PositionCap
    BY <2>2 DEF LockRechecks, CanOpen
  <2>4. \A m : m = base' => Cardinality(Live(m)') < PositionCap
    <3> SUFFICES ASSUME NEW m, m = base PROVE Cardinality(Live(m)') < PositionCap
      BY DEF LockRechecks
    <3>1. Live(m)' = Live(m)
      BY <1>1 DEF Live
    <3> QED BY <2>3, <3>1
  <2>5. \A t \in Visible' : orders'[t].magic = base' => t \in before'
    BY <1>1, <1>3 DEF LockRechecks, Under
  <2> QED BY <2>4, <2>5 DEF OrderInv
<1>7. ReplyInv'
  BY <1>1 DEF ReplyInv
<1>8. VerifyInv'
  BY <1>1, <1>3 DEF OneOrder, VerifyInv
<1>9. ScanInv'
  BY <1>1, <1>3 DEF OneOrder, ScanInv
<1> QED BY <1>3, <1>4, <1>5, <1>6, <1>7, <1>8, <1>9, <1>2 DEF OneOrder

\* An order leaves while nothing is undecided, so the new ticket is the only
\* one anybody may miss.
LEMMA SendOneOrder ==
    ASSUME IInv, OneOrder, SendRejected \/ SendReplied
    PROVE  OneOrder'
<1>1. PICK st, ans :
        /\ st \in {"dead", "open", "lag", "work"} /\ SendOrder(st, ans)
        /\ \/ SendRejected /\ st = "dead"
           \/ SendReplied
  BY DEF SendRejected, SendReplied
<1>2. /\ UNCHANGED <<magic, cooldown, orphanScan, ledger, positions, verify, linkBackoff, lastBar>>
      /\ pc = "order" /\ sent' = sent + 1
      /\ orders' = [orders EXCEPT ![sent + 1] =
                      [bar |-> lastBar, magic |-> base, st |-> st, ans |-> ans]]
      /\ \/ pc' = "idle" /\ st = "dead"
         \/ pc' = "reply" /\ UNCHANGED <<base, before>>
  BY <1>1 DEF SendRejected, SendReplied, SendOrder, store
<1>3. Undecided = {}
  BY <1>2 DEF OneOrder, HeldInv, GateInv, IInv, BookingInv, OfferInv, FlightInv, EntryLocked
<1>4. /\ sent + 1 \in Tickets /\ sent \in Nat
      /\ orders'[sent + 1] = [bar |-> lastBar, magic |-> base, st |-> st, ans |-> ans]
      /\ \A t \in Tickets : t # sent + 1 => orders'[t] = orders[t]
      /\ orders[sent + 1].st = "none"
  <2>1. sent + 1 \in Tickets /\ sent \in Nat
    BY <1>1, BoundsAssumption DEF SendOrder, IInv, TypeOK, BrokerType, Tickets
  <2> QED BY <1>2, <2>1 DEF IInv, TypeOK, BrokerType, OneOrder, LastInv
<1>5. /\ Visible' \subseteq Visible \cup {sent'} /\ Executed \subseteq Executed'
      /\ Undecided' \subseteq {sent'}
      /\ st = "dead" => Undecided' = {}
      /\ Visible \subseteq Tickets /\ positions \subseteq Tickets
      /\ sent + 1 \notin Visible \cup positions \cup Executed
  BY <1>2, <1>3, <1>4
     DEF Visible, Executed, Undecided, IInv, TypeOK, SignalType, OneOrder, LastInv
<1>6. LastInv'
  <2>1. \A t \in Tickets : orders'[t].st = "none" <=> t > sent + 1
    <3>1. ASSUME NEW t \in Tickets, t # sent + 1
          PROVE  orders'[t].st = "none" <=> t > sent + 1
      <4>1. t \in Int /\ (orders[t].st = "none" <=> t > sent)
        BY DEF OneOrder, LastInv, Tickets
      <4> QED BY <1>4, <3>1, <4>1
    <3>2. orders'[sent + 1].st # "none" /\ ~(sent + 1 > sent + 1)
      BY <1>1, <1>4
    <3> QED BY <3>1, <3>2
  <2>2. \A t \in positions : orders'[t].st \in {"open", "closed"}
    BY <1>4, <1>5 DEF OneOrder, LastInv
  <2> QED BY <1>2, <1>5, <2>1, <2>2 DEF LastInv
<1>7. LedgerTruth'
  <2>1. \A p \in ledger : p[1] \in Executed /\ p[1] # sent + 1 /\ p[1] \in Tickets
    BY <1>5 DEF OneOrder, LedgerTruth, Executed
  <2> QED BY <1>2, <1>4, <1>5, <2>1 DEF OneOrder, LedgerTruth
<1>8. CapInv'
  <2> SUFFICES ASSUME NEW m \in Magics PROVE Cardinality(Live(m)') <= PositionCap
    BY DEF CapInv
  <2>1. IsFiniteSet(Live(m)) /\ Cardinality(Live(m)) \in Nat
    <3>1. IsFiniteSet(Tickets)
      BY FS_Interval, BoundsAssumption DEF Tickets
    <3>2. Live(m) \subseteq Tickets
      BY DEF Live
    <3> QED BY <3>1, <3>2, FS_Subset, FS_CardinalityType
  <2>2. CASE m # base
    <3>1. Live(m)' \subseteq Live(m)
      BY <1>4, <2>2 DEF Live
    <3>2. Cardinality(Live(m)') <= Cardinality(Live(m)) /\ Cardinality(Live(m)') \in Nat
      BY <2>1, <3>1, FS_Subset, FS_CardinalityType
    <3> QED BY <2>1, <3>2, CapAssumption DEF OneOrder, CapInv
  <2>3. CASE m = base
    <3>1. Live(m)' \subseteq Live(m) \cup {sent + 1}
      BY <1>4 DEF Live
    <3>2. sent + 1 \notin Live(m)
      BY <1>4 DEF Live
    <3>3. /\ IsFiniteSet(Live(m) \cup {sent + 1})
          /\ Cardinality(Live(m) \cup {sent + 1}) = Cardinality(Live(m)) + 1
      BY <2>1, <3>2, FS_AddElement
    <3>4. /\ Cardinality(Live(m)') <= Cardinality(Live(m)) + 1
          /\ Cardinality(Live(m)') \in Nat
      BY <3>1, <3>3, FS_Subset, FS_CardinalityType
    <3>5. Cardinality(Live(m)) < PositionCap
      BY <1>2, <2>3 DEF OneOrder, OrderInv
    <3> QED BY <2>1, <3>4, <3>5, CapAssumption
  <2> QED BY <2>2, <2>3
<1>9. HeldInv'
  BY <1>2, <1>5 DEF HeldInv
<1>10. GateInv' /\ OrderInv'
  BY <1>2 DEF GateInv, OrderInv
<1>11. ReplyInv'
  <2> SUFFICES ASSUME pc' = "reply" PROVE ReplyInv'
    BY DEF ReplyInv
  <2>1. base' = base /\ before' = before /\ lastBar' = lastBar
    BY <1>2
  <2>2. \A t \in Visible' : orders'[t].magic = base' => t \in before' \/ t = sent'
    BY <1>2, <1>4, <1>5, <2>1 DEF OneOrder, OrderInv
  <2>3. orders'[sent'].bar = lastBar'
    BY <1>2, <1>4, <2>1
  <2>4. reply' = "resolved" => sent' \in Executed'
    <3> SUFFICES ASSUME reply' = "resolved" PROVE sent' \in Executed'
      OBVIOUS
    <3>1. PICK kind \in {"open", "lag"} : SendOrder(kind, "none")
      BY <1>2 DEF SendReplied, SendRejected
    <3>2. orders'[sent'].st = kind
      BY <1>4, <3>1 DEF SendOrder, IInv, TypeOK, BrokerType
    <3> QED BY <1>2, <1>4, <3>2 DEF Executed
  <2> QED BY <2>2, <2>3, <2>4 DEF ReplyInv
<1>12. VerifyInv'
  BY <1>2 DEF VerifyInv, IInv, BookingInv, FlightInv
<1>13. ScanInv'
  BY <1>2 DEF ScanInv, OneOrder, GateInv
<1> QED BY <1>6, <1>7, <1>8, <1>9, <1>10, <1>11, <1>12, <1>13 DEF OneOrder

\* The reply is resolved to the last order or to nothing: it books it, opens
\* a scan for it or hands it to the verifier, and each holds the symbol.
LEMMA ReplyOneOrder ==
    ASSUME IInv, OneOrder, Prompt,
           \/ ReplyResolved \/ ReplyAdopts \/ ReplyOpensScan
           \/ ReplySafetyCloses \/ ReplyDefers \/ ReplyAmbiguous
    PROVE  OneOrder' /\ Fades
<1>0. NewTickets \subseteq {sent} /\ sent \in Tickets /\ pc = "reply"
  <2>1. pc = "reply"
    BY DEF ReplyResolved, ReplyAdopts, ReplyOpensScan, ReplySafetyCloses, ReplyDefers,
           ReplyAmbiguous
  <2> QED BY <2>1, BoundsAssumption
       DEF OneOrder, ReplyInv, NewTickets, Under, IInv, TypeOK, BrokerType, BookingInv,
           OfferInv, Tickets
<1>1. ~(Cardinality(NewTickets) > 1)
  <2>1. NewTickets = {} \/ NewTickets = {sent}
    BY <1>0
  <2>2. Cardinality({}) = 0 /\ Cardinality({sent}) = 1
    BY FS_EmptySet, FS_Singleton
  <2> QED BY <2>1, <2>2
<1>2. ~ReplySafetyCloses /\ ~ReplyAmbiguous
  BY <1>1 DEF ReplySafetyCloses, ReplyAmbiguous, Prompt
<1>3. /\ UNCHANGED <<sent, magic, lastBar>> /\ pc' = "idle" /\ base' = 0 /\ before' = {}
      /\ positions' \in {positions, Visible}
  BY <1>2, PromptFacts
     DEF ReplyResolved, ReplyAdopts, ReplyOpensScan, ReplyDefers, Books, ReplyDone
<1>4. Fades
  BY <1>2, SameFades, AnswerFades
     DEF ReplyResolved, ReplyAdopts, ReplyOpensScan, ReplyDefers, Books
<1>5. /\ Visible' \subseteq Visible \cup {sent} /\ Undecided' \subseteq Undecided
      /\ Visible \cup positions \cup positions' \subseteq Tickets
      /\ \A t \in Tickets : /\ orders'[t].bar = orders[t].bar
                            /\ orders'[t].magic = orders[t].magic
      /\ Executed \subseteq Executed' /\ Executed \subseteq Tickets
  <2>1. Visible \subseteq Tickets /\ positions \subseteq Tickets /\ Undecided \subseteq {sent}
    BY DEF OneOrder, LastInv, Visible, IInv, TypeOK, SignalType
  <2> QED BY <1>3, <1>4, <2>1, FadeLeaves DEF Fades, Executed
<1>6. LastInv' /\ CapInv'
  BY <1>3, <1>4, <1>5, CapKept DEF OneOrder, LastInv, Fades, Visible
<1>7. ReplyAdopts => sent \in Visible
  BY <1>0 DEF ReplyAdopts, NewTickets, Under
<1>8. LedgerTruth'
  <2>1. CASE UNCHANGED ledger
    BY <1>5, <2>1 DEF OneOrder, LedgerTruth
  <2>2. CASE ledger' = ledger \cup {<<sent, lastBar>>} /\ sent \in Executed
    <3>1. ASSUME NEW p \in ledger PROVE p[1] \in Executed' /\ orders'[p[1]].bar = p[2]
      BY <1>5 DEF OneOrder, LedgerTruth
    <3>2. sent \in Executed' /\ orders'[sent].bar = lastBar
      BY <1>0, <1>5, <2>2 DEF OneOrder, ReplyInv
    <3>3. ASSUME NEW p \in {<<sent, lastBar>>}
          PROVE  p[1] \in Executed' /\ orders'[p[1]].bar = p[2]
      BY <3>2
    <3> QED BY <2>2, <3>1, <3>3 DEF LedgerTruth
  <2>3. CASE ReplyResolved
    BY <2>2, <2>3 DEF ReplyResolved, Books, OneOrder, ReplyInv
  <2>4. CASE ReplyAdopts
    <3>1. PICK t \in NewTickets : Books(t)
      BY <2>4 DEF ReplyAdopts
    <3>2. t = sent /\ sent \in Executed
      BY <1>0, <1>7, <2>4 DEF Visible, Executed
    <3> QED BY <2>2, <3>1, <3>2 DEF Books
  <2> QED BY <1>2, <2>1, <2>3, <2>4 DEF ReplyOpensScan, ReplyDefers
<1>9. HeldInv'
  <2>1. CASE ReplyResolved
    BY <1>3, <2>1 DEF ReplyResolved, Books, MarkFilled, HeldInv
  <2>2. CASE ReplyAdopts
    <3>1. Undecided = {}
      BY <1>7, <2>2, ShownDecides
    <3> QED BY <1>5, <3>1 DEF HeldInv
  <2>3. CASE ReplyOpensScan
    BY <2>3 DEF ReplyOpensScan, HeldInv
  <2>4. CASE ReplyDefers
    BY <2>4 DEF ReplyDefers, HeldInv
  <2> QED BY <1>2, <2>1, <2>2, <2>3, <2>4
<1>10. GateInv' /\ OrderInv' /\ ReplyInv'
  BY <1>3 DEF GateInv, OrderInv, ReplyInv
<1>11. VerifyInv'
  <2>1. CASE ReplyDefers
    <3>1. /\ verify'.phase = "looking" /\ verify'.bar = lastBar /\ verify'.magic = base
          /\ verify'.send = sent /\ verify'.known = before /\ orders' = orders
      BY <2>1 DEF ReplyDefers
    <3>2. sent # 0
      BY <1>0, BoundsAssumption DEF Tickets
    <3>3. \A t \in Visible : orders[t].magic = base => t \in before \/ t = sent
      BY <1>0 DEF OneOrder, ReplyInv
    <3> QED BY <1>0, <1>3, <3>1, <3>2, <3>3 DEF VerifyInv, OneOrder, ReplyInv, Visible
  <2>2. CASE UNCHANGED verify
    BY <1>0, <2>2 DEF VerifyInv, IInv, BookingInv, FlightInv
  <2> QED BY <1>2, <2>1, <2>2 DEF ReplyResolved, ReplyAdopts, ReplyOpensScan, Books
<1>12. ScanInv'
  <2>1. CASE ReplyOpensScan
    <3>1. /\ positions' = Visible /\ orphanScan'.magic = base
          /\ orphanScan'.known = Under(Visible, base)
      <4>1. PICK ok \in Reads :
              /\ positions' = IF ok THEN Visible ELSE positions
              /\ orphanScan' = [phase |-> "active", magic |-> base,
                                known |-> IF ok THEN Under(Visible, base) ELSE before]
        BY <2>1 DEF ReplyOpensScan
      <4>2. ok = TRUE
        BY PromptFacts
      <4> QED BY <4>1, <4>2
    <3>2. \A t \in Visible : orders[t].magic = base => t \in orphanScan'.known
      BY <3>1 DEF Under
    <3> QED BY <1>3, <1>5, <3>1, <3>2 DEF ScanInv
  <2>2. CASE UNCHANGED orphanScan
    BY <1>3, <1>5, <2>2 DEF ScanInv, OneOrder
  <2> QED BY <1>2, <2>1, <2>2 DEF ReplyResolved, ReplyAdopts, ReplyDefers, Books
<1> QED BY <1>6, <1>8, <1>9, <1>10, <1>11, <1>12, <1>4 DEF OneOrder

\* The verifier reports what it saw, the waits end after the broker decided,
\* the panel and a restart send nothing.
LEMMA OtherOneOrder ==
    ASSUME IInv, OneOrder, Prompt,
           \/ SendImpossible \/ VerifierAdopts \/ VerifierGivesUp \/ VerifierIsLost
           \/ ChangeMagic \/ DeleteSymbol \/ BackoffEnds \/ CooldownEnds \/ Crash \/ Boot
    PROVE  OneOrder' /\ Fades
<1>1. /\ UNCHANGED <<orders, sent, orphanScan, ledger>>
      /\ positions' \in {positions, {}}
  BY DEF SendImpossible, VerifierAdopts, VerifierGivesUp, VerifierIsLost, VerifierReports,
         ChangeMagic, DeleteSymbol, BackoffEnds, CooldownEnds, Crash, Boot, broker, store, memory
<1>2. /\ UNCHANGED <<Visible, Undecided, Executed>>
      /\ \A m : Live(m)' = Live(m)
  BY <1>1 DEF Visible, Undecided, Executed, Live
<1>3. LastInv' /\ CapInv' /\ LedgerTruth'
  BY <1>1, <1>2 DEF OneOrder, LastInv, CapInv, LedgerTruth
<1>0. Fades
  BY <1>1, SameFades
<1>4. CASE VerifierAdopts \/ VerifierGivesUp \/ VerifierIsLost
  <2>1. PICK result, t :
          /\ VerifierReports(result, t)
          /\ \/ result = "filled" /\ t \in Tickets /\ VerifierSees({t})
             \/ result = "unfilled"
             \/ VerifierIsLost
    <3>1. CASE VerifierAdopts
      BY <3>1 DEF VerifierAdopts
    <3>2. CASE VerifierGivesUp
      BY <3>2 DEF VerifierGivesUp
    <3>3. CASE VerifierIsLost
      <4>1. VerifierReports("ambiguous", 0)
        BY <3>3 DEF VerifierIsLost
      <4> QED BY <3>3, <4>1
    <3> QED BY <1>4, <3>1, <3>2, <3>3
  <2>2. /\ verify.phase = "looking" /\ sent # 0 /\ verify.send = sent
        /\ orders[sent].bar = verify.bar /\ sent \in Tickets
        /\ \A u \in Visible : orders[u].magic = verify.magic => u \in verify.known \/ u = sent
    BY <2>1, BoundsAssumption
       DEF VerifierReports, OneOrder, VerifyInv, IInv, TypeOK, BrokerType, Tickets
  <2>3. ~VerifierIsLost
    <3>1. Under(Visible, verify.magic) \ verify.known \in {{}, {sent}}
      BY <2>2 DEF Under
    <3>2. Cardinality({}) = 0 /\ Cardinality({sent}) = 1
      BY FS_EmptySet, FS_Singleton
    <3> QED BY <3>1, <3>2 DEF VerifierIsLost, Prompt
  <2>4. result = "filled" => t = sent /\ sent \in Visible
    BY <2>1, <2>2, <2>3 DEF VerifierSees, VerifierReports, Under
  <2>5. /\ UNCHANGED <<pc, base, positions, lastBar, linkBackoff, before, reply, store>>
        /\ verify' = [verify EXCEPT !.phase = result, !.ticket = t]
        /\ verify \in Verify
    BY <2>1 DEF VerifierReports, IInv, TypeOK, SendType
  <2>6. /\ verify'.phase = result /\ verify'.ticket = t /\ verify'.bar = verify.bar
        /\ verify'.magic = verify.magic /\ verify'.known = verify.known
        /\ verify'.send = verify.send
    BY <2>5 DEF Verify
  <2>7. VerifyInv'
    <3>1. result \in {"filled", "unfilled"}
      BY <2>1, <2>3
    <3>2. result = "filled" => orders[sent].st = "open"
      BY <2>4 DEF Visible
    <3> QED BY <1>1, <1>2, <2>2, <2>4, <2>6, <3>1, <3>2 DEF VerifyInv
  <2>8. HeldInv'
    <3>1. result = "filled" => Undecided = {}
      BY <2>4, ShownDecides
    <3> QED BY <1>2, <2>1, <2>3, <2>6, <3>1 DEF HeldInv
  <2>9. GateInv' /\ OrderInv' /\ ReplyInv' /\ ScanInv'
    <3>1. pc \notin {"order", "reply"}
      BY <2>2 DEF IInv, BookingInv, FlightInv
    <3> QED BY <1>1, <1>2, <2>5, <3>1
         DEF OneOrder, GateInv, OrderInv, ReplyInv, ScanInv, store
  <2> QED BY <1>0, <1>3, <2>7, <2>8, <2>9 DEF OneOrder
<1>5. CASE Crash \/ SendImpossible
  <2>1. HeldInv'
    <3>1. SendImpossible => Undecided = {}
      BY DEF SendImpossible, OneOrder, HeldInv, GateInv, IInv, BookingInv, OfferInv, FlightInv,
             EntryLocked
    <3> QED BY <1>2, <1>5, <3>1 DEF Crash, HeldInv
  <2>2. pc' \in {"down", "idle"}
    BY <1>5 DEF Crash, SendImpossible
  <2>3. GateInv' /\ OrderInv' /\ ReplyInv'
    BY <2>2 DEF GateInv, OrderInv, ReplyInv
  <2>4. VerifyInv'
    BY <1>1, <1>2, <1>5 DEF Crash, SendImpossible, OneOrder, VerifyInv, NoVerify
  <2>5. ScanInv'
    BY <1>1, <1>2 DEF OneOrder, ScanInv
  <2> QED BY <1>0, <1>3, <2>1, <2>3, <2>4, <2>5 DEF OneOrder
<1>6. CASE BackoffEnds \/ CooldownEnds \/ Boot
  <2>1. Undecided = {}
    BY <1>6, PromptFacts DEF BackoffEnds, CooldownEnds, Boot
  <2>2. /\ UNCHANGED <<base, positions, lastBar, verify, before, reply, magic>>
        /\ pc' = pc \/ (pc = "down" /\ pc' = "idle")
        /\ linkBackoff' = linkBackoff \/ linkBackoff' = "off"
    BY <1>6 DEF BackoffEnds, CooldownEnds, Boot, store, memory
  <2>3. HeldInv'
    BY <1>2, <2>1 DEF HeldInv
  <2>4. GateInv' /\ ReplyInv' /\ VerifyInv' /\ ScanInv'
    BY <1>1, <1>2, <2>2 DEF OneOrder, GateInv, ReplyInv, VerifyInv, ScanInv
  <2>5. OrderInv'
    BY <1>1, <1>2, <2>2 DEF OneOrder, OrderInv
  <2> QED BY <1>0, <1>3, <2>3, <2>4, <2>5 DEF OneOrder
<1>7. CASE ChangeMagic \/ DeleteSymbol
  <2>1. /\ UNCHANGED <<pc, base, positions, verify, before, reply, linkBackoff, cooldown>>
        /\ pc \notin {"order", "reply"}
        /\ magic # 0 \/ magic' = 0
    BY <1>7 DEF ChangeMagic, DeleteSymbol, PanelMayEdit, EntryLocked, memory
  <2>2. HeldInv'
    BY <1>1, <1>2, <2>1 DEF OneOrder, HeldInv
  <2>3. GateInv' /\ OrderInv' /\ ReplyInv' /\ VerifyInv' /\ ScanInv'
    BY <1>1, <1>2, <2>1 DEF OneOrder, GateInv, OrderInv, ReplyInv, VerifyInv, ScanInv
  <2> QED BY <1>0, <1>3, <2>2, <2>3 DEF OneOrder
<1> QED BY <1>4, <1>5, <1>6, <1>7

\* At the start nothing is sent.
LEMMA InitOneOrder == Init => OneOrder
<1> SUFFICES ASSUME Init PROVE OneOrder
  OBVIOUS
<1>1. \A t \in Tickets : orders[t].st = "none"
  BY DEF Init, NoOrder
<1>2. Visible = {} /\ Undecided = {} /\ \A m : Live(m) = {}
  BY <1>1 DEF Visible, Undecided, Live
<1>3. LastInv
  <2>1. \A t \in Tickets : t > 0
    BY DEF Tickets
  <2> QED BY <1>1, <1>2, <2>1 DEF Init, LastInv
<1>4. CapInv
  BY <1>2, FS_EmptySet, CapAssumption DEF CapInv
<1>5. HeldInv /\ GateInv /\ OrderInv /\ ReplyInv /\ VerifyInv /\ ScanInv /\ LedgerTruth
  BY <1>2 DEF Init, HeldInv, GateInv, OrderInv, ReplyInv, VerifyInv, ScanInv, LedgerTruth,
              NoVerify, NoScan
<1> QED BY <1>3, <1>4, <1>5 DEF OneOrder

\* Every step keeps it, and only a send writes a new order.
LEMMA StepOneOrder ==
    ASSUME Prompt, IInv, OneOrder, [Next]_vars
    PROVE  OneOrder' /\ (Fades \/ SendRejected \/ SendReplied)
<1>1. CASE Next
  BY <1>1, MarketOneOrder, HeadOneOrder, EvaluateOneOrder, DrainOneOrder, EntryOneOrder,
     SendOneOrder, ReplyOneOrder, OtherOneOrder
     DEF Next, Broker, PollThread, VerifyThread, Panel, Clock
<1>2. CASE UNCHANGED vars
  BY <1>2, OnlyFades, SameFades DEF vars, broker
<1> QED BY <1>1, <1>2

\* With a broker that decides within the waits and a book that can be read,
\* one order at a time is undecided and every answer is of that order.
THEOREM OneOrderInvariant == Prompt => (Spec => []OneOrder)
<1> SUFFICES ASSUME Prompt PROVE Spec => []OneOrder
  OBVIOUS
<1>1. Init => OneOrder
  BY InitOneOrder
<1>2. IInv /\ OneOrder /\ [Next]_vars => OneOrder'
  BY StepOneOrder
<1> QED BY <1>1, <1>2, Invariant, PTL DEF Spec

\* A fill is noted under the bar whose signal sent it, also when the verifier
\* answers after the next bar has closed (_book_deferred_fill).
THEOREM LedgerTruthSafe == Prompt => (Spec => []LedgerTruth)
<1> SUFFICES ASSUME Prompt PROVE Spec => []LedgerTruth
  OBVIOUS
<1>1. OneOrder => LedgerTruth
  BY DEF OneOrder
<1> QED BY <1>1, OneOrderInvariant, PTL

\* The broker never shows more positions than max_positions, for every cap,
\* number of orders, restarts and changes of the magic (can_open, entry_lock).
THEOREM OpenWithinCapSafe == Prompt => (Spec => []OpenWithinCap)
<1> SUFFICES ASSUME Prompt PROVE Spec => []OpenWithinCap
  OBVIOUS
<1>1. OneOrder => OpenWithinCap
  <2> SUFFICES ASSUME OneOrder, NEW m \in Magics
               PROVE  Cardinality(Under(Visible, m)) <= PositionCap
    BY DEF OpenWithinCap
  <2>1. Under(Visible, m) \subseteq Live(m) /\ Live(m) \subseteq Tickets
    BY DEF Under, Visible, Live
  <2>2. IsFiniteSet(Tickets)
    BY FS_Interval, BoundsAssumption DEF Tickets
  <2>3. IsFiniteSet(Live(m))
    BY <2>1, <2>2, FS_Subset
  <2>4. /\ Cardinality(Under(Visible, m)) <= Cardinality(Live(m))
        /\ Cardinality(Under(Visible, m)) \in Nat /\ Cardinality(Live(m)) \in Nat
    BY <2>1, <2>3, FS_Subset, FS_CardinalityType
  <2>5. Cardinality(Live(m)) <= PositionCap
    BY DEF OneOrder, CapInv
  <2> QED BY <2>4, <2>5, CapAssumption
<1> QED BY <1>1, OneOrderInvariant, PTL

\* No order leaves while an earlier one is undecided or hidden at the broker
\* (_verify_inflight, _link_backoff, the cooldown, the orphan scan).
THEOREM SendsSettled == Prompt => (Spec => NoSendWhileUnsettled)
<1> SUFFICES ASSUME Prompt PROVE Spec => NoSendWhileUnsettled
  OBVIOUS
<1>1. IInv /\ OneOrder /\ [Next]_vars => [SendsNow => Settled]_vars
  <2> SUFFICES ASSUME IInv, OneOrder, [Next]_vars, SendsNow PROVE Settled
    OBVIOUS
  <2>1. SendRejected \/ SendReplied
    BY DEF SendsNow, Next, Broker, PollThread, VerifyThread, Panel, Clock, vars, store, broker,
         BarCloses, OrderExecutes, BrokerSets, OrderDies, FillSurfaces,
         PositionCloses, CycleStarts, ScanFinds, ScanUnchanged, ScanWaits,
         ScanAbandons, ScanLastLookFinds, LastLook, ScanGivesUp, ScanPutsOff,
         ManagePositions, EvaluateShut, Evaluated, EvaluateHolds,
         EvaluateOffers, EvaluateSkips, DrainNothing, DrainDropped, Drained, DrainBooked,
         DrainUnfilled, DrainAmbiguous, EntryRefused, EntryDone,
         ProbeFindsLateFill, ProbeExhausted, EntryProceeds, LockRefuses,
         LockRechecks, SendImpossible, ReplyResolved, ReplyAdopts, Books,
         ReplyOpensScan, ReplyDone, ReplySafetyCloses, ReplyDefers,
         ReplyAmbiguous, VerifierAdopts, VerifierReports, VerifierGivesUp,
         VerifierIsLost, ChangeMagic, DeleteSymbol, BackoffEnds, CooldownEnds,
         Crash, Boot
  <2>2. pc = "order"
    BY <2>1 DEF SendRejected, SendReplied, SendOrder
  <2>3. Undecided = {}
    BY <2>2 DEF OneOrder, HeldInv, GateInv, IInv, BookingInv, OfferInv, FlightInv, EntryLocked
  <2> QED BY <2>3 DEF Undecided, Settled
<1> QED BY <1>1, OneOrderInvariant, Invariant, PTL DEF Spec, NoSendWhileUnsettled

\* Where no magic is ever changed, every order carries the one there is.
Unedited ==
    /\ magic = 1 /\ base \in {0, 1}
    /\ \A t \in Tickets : orders[t].st # "none" => orders[t].magic = 1

\* No step but the panel's changes it.
LEMMA StepUnedited ==
    ASSUME MaxEdits = 0, Prompt, IInv, OneOrder, Unedited, [Next]_vars
    PROVE  Unedited'
<1> USE DEF vars, store, broker, memory,
         BarCloses, OrderExecutes, BrokerSets, OrderDies, FillSurfaces,
         PositionCloses, CycleStarts, ScanFinds, ScanUnchanged, ScanWaits,
         ScanAbandons, ScanLastLookFinds, LastLook, ScanGivesUp, ScanPutsOff,
         ManagePositions, EvaluateShut, Evaluated, EvaluateHolds,
         EvaluateOffers, EvaluateSkips, DrainNothing, DrainDropped, Drained, DrainBooked,
         DrainUnfilled, DrainAmbiguous, EntryRefused, EntryDone,
         ProbeFindsLateFill, ProbeExhausted, EntryProceeds, LockRefuses,
         LockRechecks, SendImpossible, SendRejected, SendReplied, SendOrder,
         ReplyResolved, ReplyAdopts, Books,
         ReplyOpensScan, ReplyDone, ReplySafetyCloses, ReplyDefers,
         ReplyAmbiguous, VerifierAdopts, VerifierReports, VerifierGivesUp,
         VerifierIsLost, ChangeMagic, DeleteSymbol, BackoffEnds, CooldownEnds,
         Crash, Boot
<1>1. magic' = magic
  <2>1. ~ChangeMagic /\ ~DeleteSymbol
    BY DEF Unedited
  <2> QED BY <2>1 DEF Next, Broker, PollThread, VerifyThread, Panel, Clock
<1>2. base' \in {0, base, magic}
  BY DEF Next, Broker, PollThread, VerifyThread, Panel, Clock
<1>3. ASSUME NEW t \in Tickets, orders'[t].st # "none" PROVE orders'[t].magic = 1
  <2>1. CASE Fades
    BY <1>3, <2>1 DEF Fades, Unedited
  <2>2. CASE SendRejected \/ SendReplied
    <3>1. PICK st, ans : SendOrder(st, ans) /\ magic = base
      <4>1. pc = "order"
        BY <2>2
      <4>2. magic = base
        BY <4>1 DEF IInv, BookingInv, OfferInv, EntryLocked
      <4> QED BY <2>2, <4>2
    <3> QED BY <1>3, <3>1 DEF Unedited, IInv, TypeOK, BrokerType
  <2> QED BY <2>1, <2>2, StepOneOrder
<1> QED BY <1>1, <1>2, <1>3 DEF Unedited

\* With a cap of one and a magic that stays, one bar never holds two
\* positions: the probe, the filled-bar record, the backoff and the cap
\* together (_try_entry, can_open).
THEOREM OneOpenPerBarSafe ==
    Prompt /\ PositionCap = 1 /\ MaxEdits = 0 => (Spec => []OneOpenPerBar)
<1> SUFFICES ASSUME Prompt, PositionCap = 1, MaxEdits = 0 PROVE Spec => []OneOpenPerBar
  OBVIOUS
<1>1. Init => Unedited
  BY DEF Init, Unedited, NoOrder
<1>2. IInv /\ OneOrder /\ Unedited /\ [Next]_vars => Unedited'
  BY StepUnedited
<1>3. OneOrder /\ Unedited => OneOpenPerBar
  <2> SUFFICES ASSUME OneOrder, Unedited, NEW t \in Visible, NEW u \in Visible PROVE t = u
    BY DEF OneOpenPerBar
  <2>1. {t, u} \subseteq Live(1) /\ Live(1) \subseteq Tickets
    BY DEF Unedited, Visible, Live
  <2>2. IsFiniteSet(Tickets)
    BY FS_Interval, BoundsAssumption DEF Tickets
  <2>3. IsFiniteSet(Live(1))
    BY <2>1, <2>2, FS_Subset
  <2>4. IsFiniteSet({t, u}) /\ Cardinality({t, u}) <= Cardinality(Live(1))
    BY <2>1, <2>3, FS_Subset
  <2>5. Cardinality(Live(1)) <= 1
    BY DEF OneOrder, CapInv, Magics
  <2>6. Cardinality(Live(1)) \in Nat /\ Cardinality({t, u}) \in Nat
    BY <2>3, <2>4, FS_CardinalityType
  <2>7. t # u => Cardinality({t, u}) = 2
    <3>1. IsFiniteSet({t}) /\ Cardinality({t}) = 1 /\ {t, u} = {t} \cup {u}
      BY FS_Singleton
    <3>2. u \notin {t} => Cardinality({t} \cup {u}) = 1 + 1
      BY <3>1, FS_AddElement
    <3> QED BY <3>1, <3>2
  <2> QED BY <2>4, <2>5, <2>6, <2>7
<1> QED BY <1>1, <1>2, <1>3, OneOrderInvariant, Invariant, PTL DEF Spec
=============================================================================
