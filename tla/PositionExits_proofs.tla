------------------------ MODULE PositionExits_proofs -------------------------
(***************************************************************************)
(* What holds of PositionExits for every number of positions, lots and     *)
(* restarts: the types, that a flatten once owed stays owed, and, where    *)
(* the broker and the process allow it, that a position is scaled out      *)
(* once, that a close has one row, and that a close of the broker has it.  *)
(***************************************************************************)
EXTENDS PositionExits, TLAPS

\* While the cycle works on the book, no position has more lots than it says.
BookCovers ==
    pc \in {"reap", "prune", "manage", "mark", "flush"} =>
        \A t \in Tickets : lots[t] <= book[t]

\* A position that was scaled out and still has lots is remembered: by the
\* one-shot set, or until the next step by the call that is under way.
SliceInv ==
    /\ slice # {} => pc = "mark"
    /\ slices \in [Tickets -> Nat]
    /\ \A t \in Tickets \ unsure :
         /\ slices[t] <= 1
         /\ slices[t] = 1 /\ lots[t] > 0 => t \in scaled \cup slice

Elsewhere(t) == "elsewhere" \in deals[t] \cup late[t]

\* A row is of a position that is closed, and one the broker closed has left
\* the book and the watch list when it has its row.
RowInv ==
    \A t \in Tickets :
        /\ saved[t] <= rows[t] /\ rows[t] <= 1
        /\ Elsewhere(t) \/ rows[t] = 1 => lots[t] = 0
        /\ Elsewhere(t) /\ rows[t] = 1 => t \notin open /\ book[t] = 0

\* The inductive invariant.
IInv ==
    /\ TypeOK /\ BookCovers
    /\ ~HardCrash => SliceInv
    /\ ~Chunks => RowInv

-----------------------------------------------------------------------------
(* The parts of a close.                                                   *)

\* A slice is at least a lot.
LEMMA SliceType == \A v \in Nat : Slice(v) \in Nat \ {0}
BY DEF Slice

\* n lots of t are closed, by maker.
LEMMA TradesEffect ==
    ASSUME TypeOK, NEW t \in Tickets, NEW n \in Nat \ {0}, n <= lots[t],
           NEW maker \in Makers, Trades(t, n, maker)
    PROVE  /\ lots' \in [Tickets -> 0..Lots]
           /\ deals' \in [Tickets -> SUBSET Makers]
           /\ late' \in [Tickets -> SUBSET Makers]
           /\ lots'[t] = lots[t] - n
           /\ \A u \in Tickets \ {t} : lots'[u] = lots[u] /\ Elsewhere(u)' = Elsewhere(u)
           /\ maker = "engine" => Elsewhere(t)' = Elsewhere(t)
<1>1. /\ lots \in [Tickets -> 0..Lots] /\ Lots \in Nat
      /\ deals \in [Tickets -> SUBSET Makers] /\ late \in [Tickets -> SUBSET Makers]
  BY PositionsAssumption DEF TypeOK
<1>2. lots' = [lots EXCEPT ![t] = @ - n]
  BY DEF Trades
<1>3. \/ deals' = [deals EXCEPT ![t] = @ \cup {maker}] /\ late' = late
      \/ late' = [late EXCEPT ![t] = @ \cup {maker}] /\ deals' = deals
  BY DEF Trades
<1>4. lots[t] - n \in 0..Lots
  BY <1>1
<1>5. deals' \in [Tickets -> SUBSET Makers] /\ late' \in [Tickets -> SUBSET Makers]
  BY <1>1, <1>3
<1>6. \A u \in Tickets \ {t} : deals'[u] = deals[u] /\ late'[u] = late[u]
  BY <1>1, <1>3
<1>7. \/ deals'[t] = deals[t] \cup {maker} /\ late'[t] = late[t]
      \/ late'[t] = late[t] \cup {maker} /\ deals'[t] = deals[t]
  BY <1>1, <1>3
<1>8. maker = "engine" => Elsewhere(t)' = Elsewhere(t)
  BY <1>7 DEF Elsewhere
<1> QED
  BY <1>1, <1>2, <1>4, <1>5, <1>6, <1>8 DEF Elsewhere

\* What a close the engine sends may change: it takes at most what is there,
\* and only of that ticket.
Shrinks(t) ==
    /\ lots' \in [Tickets -> 0..Lots]
    /\ deals' \in [Tickets -> SUBSET Makers] /\ late' \in [Tickets -> SUBSET Makers]
    /\ retry' \subseteq Tickets /\ unsure \subseteq unsure'
    /\ lots'[t] <= lots[t]
    /\ \A u \in Tickets \ {t} : lots'[u] = lots[u]
    /\ \A u \in Tickets : Elsewhere(u)' = Elsewhere(u)

LEMMA FailsShrinks ==
    ASSUME TypeOK, NEW t \in Tickets, CloseFails(t)
    PROVE  Shrinks(t) /\ lots' = lots
<1>1. lots \in [Tickets -> 0..Lots] /\ Lots \in Nat
  BY PositionsAssumption DEF TypeOK
<1> QED
  BY <1>1 DEF CloseFails, Shrinks, TypeOK, Elsewhere

LEMMA DoneShrinks ==
    ASSUME TypeOK, NEW t \in Tickets, NEW n \in Nat \ {0}, CloseDone(t, n)
    PROVE  Shrinks(t) /\ lots'[t] = lots[t] - n /\ n <= lots[t] /\ unsure' = unsure
<1>1. lots \in [Tickets -> 0..Lots] /\ Lots \in Nat /\ retry \subseteq Tickets
  BY PositionsAssumption DEF TypeOK
<1>2. n <= lots[t] /\ Trades(t, n, "engine") /\ "engine" \in Makers
  BY DEF CloseDone, Makers
<1> QED
  BY <1>1, <1>2, TradesEffect DEF CloseDone, Shrinks

LEMMA UnclearShrinks ==
    ASSUME TypeOK, NEW t \in Tickets, NEW n \in Nat \ {0}, CloseUnclear(t, n)
    PROVE  Shrinks(t) /\ t \in unsure'
<1>1. lots \in [Tickets -> 0..Lots] /\ Lots \in Nat /\ retry \subseteq Tickets
  BY PositionsAssumption DEF TypeOK
<1>2. n <= lots[t] /\ Trades(t, n, "engine") /\ "engine" \in Makers
  BY DEF CloseUnclear, Makers
<1> QED
  BY <1>1, <1>2, TradesEffect DEF CloseUnclear, Shrinks

\* A close of the whole ticket writes a row only when nothing of it is left.
LEMMA CloseTicketEffect ==
    ASSUME TypeOK, BookCovers, pc = "manage", NEW t \in Tickets, CloseTicket(t)
    PROVE  /\ Shrinks(t)
           /\ \/ rows' = rows
              \/ /\ rows' = [rows EXCEPT ![t] = @ + 1]
                 /\ lots[t] > 0 /\ lots'[t] = 0
<1>1. /\ lots \in [Tickets -> 0..Lots] /\ Lots \in Nat
      /\ book \in [Tickets -> 0..Lots] /\ lots[t] <= book[t]
  BY PositionsAssumption DEF TypeOK, BookCovers
<1>2. CASE CloseFails(t) /\ UNCHANGED rows
  BY <1>2, FailsShrinks
<1>3. ASSUME NEW n \in 1..Lots, CloseDone(t, n),
             rows' = IF n >= book[t] THEN [rows EXCEPT ![t] = @ + 1] ELSE rows
      PROVE  /\ Shrinks(t)
             /\ \/ rows' = rows
                \/ /\ rows' = [rows EXCEPT ![t] = @ + 1]
                   /\ lots[t] > 0 /\ lots'[t] = 0
  <2>1. Shrinks(t) /\ lots'[t] = lots[t] - n /\ n <= lots[t]
    BY <1>1, <1>3, DoneShrinks
  <2>2. n >= book[t] => n = lots[t]
    BY <1>1, <2>1
  <2> QED
    BY <1>1, <1>3, <2>1, <2>2
<1>4. ASSUME NEW n \in 1..Lots, CloseUnclear(t, n), UNCHANGED rows
      PROVE  Shrinks(t) /\ rows' = rows
  BY <1>1, <1>4, UnclearShrinks
<1> QED
  BY <1>2, <1>3, <1>4 DEF CloseTicket

\* A position that keeps its stop loses nothing.
LEMMA TrailShrinks ==
    ASSUME TypeOK, NEW t \in Tickets, Trail(t)
    PROVE  Shrinks(t) /\ lots' = lots
<1>1. lots \in [Tickets -> 0..Lots] /\ Lots \in Nat
  BY PositionsAssumption DEF TypeOK
<1> QED
  BY <1>1 DEF Trail, broker, Shrinks, TypeOK, Elsewhere

\* A scale-out closes at most what is there; a confirmed one is the first of a
\* ticket that is not remembered, and is now under way.
LEMMA ScaleOutEffect ==
    ASSUME TypeOK, NEW t \in Tickets, ScaleOut(t)
    PROVE  /\ Shrinks(t) /\ t \notin scaled
           /\ \/ slices' = slices /\ slice' = slice /\ pc' = pc /\ lots' = lots
              \/ /\ slices' = [slices EXCEPT ![t] = @ + 1]
                 /\ slice' = {t} /\ pc' = "mark" /\ lots[t] > 0 /\ unsure' = unsure
              \/ /\ slices' = [slices EXCEPT ![t] = @ + 1]
                 /\ slice' = slice /\ pc' = pc /\ t \in unsure'
<1>1. /\ lots \in [Tickets -> 0..Lots] /\ Lots \in Nat
      /\ Slice(book[t]) \in Nat \ {0}
  BY SliceType, PositionsAssumption DEF TypeOK
<1>2. CASE CloseFails(t) /\ UNCHANGED <<slices, slice, pc>>
  BY <1>2, FailsShrinks DEF ScaleOut
<1>3. ASSUME NEW n \in 1..Slice(book[t]), CloseDone(t, n)
      PROVE  Shrinks(t) /\ lots[t] > 0 /\ unsure' = unsure
  BY <1>1, <1>3, DoneShrinks
<1>4. ASSUME NEW n \in 1..Slice(book[t]), CloseUnclear(t, n)
      PROVE  Shrinks(t) /\ t \in unsure'
  BY <1>1, <1>4, UnclearShrinks
<1> QED
  BY <1>2, <1>3, <1>4 DEF ScaleOut

\* What one round of manage_positions does to a position.
LEMMA ManageEffect ==
    ASSUME IInv, NEW t \in Tickets, Manage(t)
    PROVE  /\ pc = "manage" /\ pc' \in {"manage", "mark"} /\ Shrinks(t)
           /\ <<window, scaled, saved, book, open, misses, swept, restarts>>'
                = <<window, scaled, saved, book, open, misses, swept, restarts>>
           /\ todo' \subseteq todo /\ halted' \in BOOLEAN
           /\ owed' \in [Reasons -> SUBSET Tickets]
           /\ \A r \in Reasons : owed[r] \subseteq owed'[r]
           /\ \/ rows' = rows
              \/ /\ rows' = [rows EXCEPT ![t] = @ + 1]
                 /\ lots[t] > 0 /\ lots'[t] = 0
<1>1. /\ owed \in [Reasons -> SUBSET Tickets] /\ halted \in BOOLEAN
      /\ TypeOK /\ BookCovers
  BY DEF IInv, TypeOK
<1>2. ASSUME NEW r \in Reasons, Owe(r, t)
      PROVE  /\ owed' \in [Reasons -> SUBSET Tickets]
             /\ \A q \in Reasons : owed[q] \subseteq owed'[q]
  BY <1>1, <1>2 DEF Owe
<1>3. CASE CloseForWeekend(t)
  BY <1>1, <1>2, <1>3, CloseTicketEffect
     DEF CloseForWeekend, Reached, ManageUnchanged, Reasons
<1>4. CASE CloseForLoss(t)
  BY <1>1, <1>4, CloseTicketEffect DEF CloseForLoss, Reached, ManageUnchanged
<1>5. CASE CloseForFlatten(t)
  BY <1>1, <1>2, <1>5, CloseTicketEffect
     DEF CloseForFlatten, Reached, ManageUnchanged, Reasons
<1>6. CASE Trail(t)
  BY <1>1, <1>6, TrailShrinks DEF Trail, Rides, Reached, ManageUnchanged
<1>7. CASE ScaleOut(t)
  BY <1>1, <1>7, ScaleOutEffect DEF ScaleOut, Rides, Reached
<1> QED
  BY <1>3, <1>4, <1>5, <1>6, <1>7 DEF Manage

-----------------------------------------------------------------------------
(* Types.                                                                  *)

LEMMA ZeroTypes ==
    /\ Zero \in [Tickets -> Nat] /\ Zero \in [Tickets -> 0..Lots]
    /\ Zero \in [Tickets -> 0..MaxMisses] /\ 0 \in 0..MaxRestarts
BY PositionsAssumption, LimitsAssumption DEF Zero

LEMMA TypeInit == Init => TypeOK
<1> SUFFICES ASSUME Init PROVE TypeOK
  OBVIOUS
<1>1. lots \in [Tickets -> 0..Lots]
  BY PositionsAssumption DEF Init
<1>2. deals \in [Tickets -> SUBSET Makers] /\ late \in [Tickets -> SUBSET Makers]
  BY DEF Init
<1>3. owed \in [Reasons -> SUBSET Tickets]
  BY DEF Init
<1> QED
  BY <1>1, <1>2, <1>3, ZeroTypes DEF Init, TypeOK, Phases

\* A step of the broker or the clock keeps the types.
LEMMA WorldTypes ==
    ASSUME IInv, Broker \/ Clock
    PROVE  TypeOK'
<1>1. ASSUME NEW t \in Tickets, ClosedElsewhere(t)
      PROVE  TypeOK'
  <2>1. PICK n \in 1..lots[t] : Trades(t, n, "elsewhere")
    BY <1>1 DEF ClosedElsewhere
  <2>2. n \in Nat \ {0} /\ n <= lots[t] /\ "elsewhere" \in Makers
    BY <2>1, PositionsAssumption DEF IInv, TypeOK, Makers
  <2>3. /\ lots' \in [Tickets -> 0..Lots] /\ deals' \in [Tickets -> SUBSET Makers]
        /\ late' \in [Tickets -> SUBSET Makers]
    BY <2>1, <2>2, TradesEffect DEF IInv
  <2> QED
    BY <1>1, <2>3 DEF ClosedElsewhere, store, memory, IInv, TypeOK
<1>2. ASSUME NEW t \in Tickets, DealAppears(t)
      PROVE  TypeOK'
  BY <1>2 DEF DealAppears, store, memory, IInv, TypeOK
<1>3. CASE Clock
  BY <1>3 DEF Clock, WindowTurns, DayTurns, RetryEnds, broker, store, memory, IInv, TypeOK
<1> QED
  BY <1>1, <1>2, <1>3 DEF Broker

\* A step of the poll thread keeps the types.
LEMMA PollTypes ==
    ASSUME IInv, PollThread
    PROVE  TypeOK'
<1>0. TypeOK
  BY DEF IInv
<1>1. CASE CycleStarts
  BY <1>0, <1>1 DEF CycleStarts, broker, store, TypeOK, Phases
<1>2. CASE Reap
  <2>1. /\ rows' \in [Tickets -> Nat] /\ open' \subseteq Tickets
    BY <1>0, <1>2 DEF Reap, TypeOK, Live
  <2>2. misses' \in [Tickets -> 0..MaxMisses]
    BY <1>0, <1>2, LimitsAssumption DEF Reap, Waiting, TypeOK
  <2>3. swept' \in BOOLEAN /\ pc' \in Phases
    BY <1>2 DEF Reap, Phases
  <2> QED
    BY <1>0, <1>2, <2>1, <2>2, <2>3 DEF Reap, broker, store, TypeOK
<1>3. CASE Prune
  BY <1>0, <1>3 DEF Prune, broker, TypeOK, Live, Phases
<1>4. ASSUME NEW t \in Tickets, Manage(t)
      PROVE  TypeOK'
  <2>1. rows' \in [Tickets -> Nat]
    BY <1>0, <1>4, ManageEffect DEF TypeOK
  <2>2. pc' \in Phases
    BY <1>4, ManageEffect DEF Phases
  <2>3. slice' \subseteq Tickets
    <3>1. CASE ScaleOut(t)
      BY <1>0, <3>1, ScaleOutEffect DEF TypeOK
    <3>2. CASE ~ScaleOut(t)
      BY <1>0, <1>4, <3>2
         DEF Manage, CloseForWeekend, CloseForLoss, CloseForFlatten, Trail,
             ManageUnchanged, TypeOK
    <3> QED
      BY <3>1, <3>2
  <2> QED
    BY <1>0, <1>4, <2>1, <2>2, <2>3, ManageEffect DEF Shrinks, TypeOK
<1>5. CASE MarkSlice
  BY <1>0, <1>5 DEF MarkSlice, broker, TypeOK, Phases
<1>6. CASE ManageEnds
  BY <1>0, <1>6 DEF ManageEnds, broker, store, memory, TypeOK, Phases
<1>7. CASE Flush
  BY <1>0, <1>7 DEF Flush, broker, memory, TypeOK, Phases
<1> QED
  BY <1>1, <1>2, <1>3, <1>4, <1>5, <1>6, <1>7 DEF PollThread

\* So does the end of the process and its next start.
LEMMA RestartTypes ==
    ASSUME IInv, Crash \/ Boot
    PROVE  TypeOK'
<1>1. CASE Crash
  <2>1. restarts' \in 0..MaxRestarts
    BY <1>1, LimitsAssumption DEF Crash, IInv, TypeOK
  <2> QED
    BY <1>1, <2>1, ZeroTypes DEF Crash, IInv, TypeOK, broker, store, Phases
<1>2. CASE Boot
  BY <1>2 DEF Boot, IInv, TypeOK, broker, store, memory, Phases
<1> QED
  BY <1>1, <1>2

LEMMA TypeStep == IInv /\ [Next]_vars => TypeOK'
<1>1. ASSUME IInv, UNCHANGED vars
      PROVE  TypeOK'
  BY <1>1 DEF IInv, TypeOK, vars, broker, store, memory
<1> QED
  BY <1>1, WorldTypes, PollTypes, RestartTypes DEF Next

-----------------------------------------------------------------------------
(* The book.                                                               *)

\* Within a cycle positions only lose lots.
LEMMA BookStep == IInv /\ [Next]_vars => BookCovers'
<1> SUFFICES ASSUME IInv, [Next]_vars PROVE BookCovers'
  OBVIOUS
<1>0. /\ TypeOK /\ BookCovers
      /\ lots \in [Tickets -> 0..Lots] /\ book \in [Tickets -> 0..Lots] /\ Lots \in Nat
  BY PositionsAssumption DEF IInv, TypeOK
<1>1. ASSUME NEW t \in Tickets, ClosedElsewhere(t)
      PROVE  BookCovers'
  <2>1. PICK n \in 1..lots[t] : lots' = [lots EXCEPT ![t] = @ - n]
    BY <1>1 DEF ClosedElsewhere, Trades
  <2>2. \A u \in Tickets : lots'[u] <= lots[u] /\ lots'[u] \in Int
    BY <1>0, <2>1
  <2> QED
    BY <1>0, <1>1, <2>2 DEF ClosedElsewhere, memory, BookCovers
<1>2. ASSUME NEW t \in Tickets, DealAppears(t)
      PROVE  BookCovers'
  BY <1>0, <1>2 DEF DealAppears, memory, BookCovers
<1>3. CASE Clock
  BY <1>0, <1>3 DEF Clock, WindowTurns, DayTurns, RetryEnds, broker, memory, BookCovers
<1>4. CASE CycleStarts
  BY <1>0, <1>4 DEF CycleStarts, broker, BookCovers
<1>5. CASE Reap \/ Prune \/ MarkSlice \/ ManageEnds \/ Flush
  BY <1>0, <1>5 DEF Reap, Prune, MarkSlice, ManageEnds, Flush, broker, memory, BookCovers
<1>6. ASSUME NEW t \in Tickets, Manage(t)
      PROVE  BookCovers'
  <2>1. pc = "manage" /\ Shrinks(t) /\ book' = book
    BY <1>6, ManageEffect
  <2>2. \A u \in Tickets : lots'[u] <= lots[u] /\ lots'[u] \in Int
    BY <1>0, <2>1 DEF Shrinks
  <2> QED
    BY <1>0, <2>1, <2>2 DEF BookCovers
<1>7. CASE Crash \/ Boot
  BY <1>7 DEF Crash, Boot, BookCovers
<1>8. CASE UNCHANGED vars
  BY <1>0, <1>8 DEF vars, broker, memory, BookCovers
<1> QED
  BY <1>1, <1>2, <1>3, <1>4, <1>5, <1>6, <1>7, <1>8 DEF Next, Broker, PollThread

\* What a step of a flatten set may do.
LEMMA OwedStep ==
    IInv /\ [Next]_vars =>
        \A r \in Reasons, t \in Tickets :
            t \in owed[r] /\ lots'[t] > 0 => t \in owed'[r]
<1> SUFFICES ASSUME IInv, [Next]_vars, NEW r \in Reasons, NEW t \in Tickets,
                    t \in owed[r], lots'[t] > 0
             PROVE  t \in owed'[r]
  OBVIOUS
<1>1. CASE Prune
  <2>1. lots' = lots /\ book[t] \in Nat /\ lots[t] \in Nat /\ lots[t] <= book[t]
    BY <1>1, PositionsAssumption DEF Prune, broker, IInv, TypeOK, BookCovers
  <2> QED
    BY <1>1, <2>1 DEF Prune, Live
<1>2. CASE \E u \in Tickets : Manage(u)
  BY <1>2, ManageEffect
<1>3. ASSUME ~Prune, ~\E u \in Tickets : Manage(u)
      PROVE  owed' = owed
  BY <1>3 DEF Next, Broker, Clock, PollThread, ClosedElsewhere, DealAppears, WindowTurns,
              DayTurns, RetryEnds, CycleStarts, Reap, MarkSlice, ManageEnds, Flush,
              Crash, Boot, vars, store
<1> QED
  BY <1>1, <1>2, <1>3

-----------------------------------------------------------------------------
(* The scale-out.                                                          *)

\* Without a hard crash a position that was scaled out stays remembered.
LEMMA SliceStep ==
    ASSUME IInv, SliceInv, ~HardCrash, [Next]_vars
    PROVE  SliceInv'
<1>0. /\ lots \in [Tickets -> 0..Lots] /\ book \in [Tickets -> 0..Lots] /\ Lots \in Nat
      /\ slices \in [Tickets -> Nat] /\ TypeOK
  BY PositionsAssumption DEF IInv, TypeOK, SliceInv
<1>1. ASSUME NEW t \in Tickets, ClosedElsewhere(t)
      PROVE  SliceInv'
  <2>1. PICK n \in 1..lots[t] : lots' = [lots EXCEPT ![t] = @ - n]
    BY <1>1 DEF ClosedElsewhere, Trades
  <2>2. \A u \in Tickets : lots'[u] <= lots[u] /\ lots'[u] \in Int
    BY <1>0, <2>1
  <2> QED
    BY <1>0, <1>1, <2>2 DEF ClosedElsewhere, store, memory, ghosts, SliceInv
<1>2. ASSUME NEW t \in Tickets, DealAppears(t)
      PROVE  SliceInv'
  BY <1>2 DEF DealAppears, store, memory, ghosts, SliceInv
<1>3. CASE Clock
  BY <1>3 DEF Clock, WindowTurns, DayTurns, RetryEnds, broker, store, memory, ghosts,
              SliceInv
<1>4. CASE CycleStarts \/ Reap \/ ManageEnds \/ Flush
  BY <1>4 DEF CycleStarts, Reap, ManageEnds, Flush, broker, store, memory, ghosts,
              SliceInv
<1>5. CASE Prune
  <2>1. \A t \in Tickets : lots[t] > 0 => t \in Live(book)
    BY <1>0, <1>5 DEF Prune, IInv, BookCovers, Live
  <2> QED
    BY <1>5, <2>1 DEF Prune, broker, ghosts, SliceInv
<1>6. ASSUME NEW t \in Tickets, ScaleOut(t)
      PROVE  SliceInv'
  <2>1. /\ Shrinks(t) /\ t \notin scaled /\ scaled' = scaled
        /\ pc = "manage" /\ slice = {}
    BY <1>0, <1>6, ScaleOutEffect DEF ScaleOut, Rides, Reached, SliceInv
  <2>2. /\ \A u \in Tickets : lots'[u] <= lots[u] /\ lots'[u] \in Int
        /\ unsure \subseteq unsure'
    BY <1>0, <2>1 DEF Shrinks
  <2>3. CASE slices' = slices /\ slice' = slice /\ pc' = pc /\ lots' = lots
    BY <1>0, <2>1, <2>2, <2>3 DEF SliceInv
  <2>4. CASE /\ slices' = [slices EXCEPT ![t] = @ + 1]
             /\ slice' = {t} /\ pc' = "mark" /\ lots[t] > 0 /\ unsure' = unsure
    <3>1. t \notin unsure => slices[t] = 0
      BY <1>0, <2>1, <2>4 DEF SliceInv
    <3> QED
      BY <1>0, <2>1, <2>2, <2>4, <3>1 DEF SliceInv
  <2>5. CASE /\ slices' = [slices EXCEPT ![t] = @ + 1]
             /\ slice' = slice /\ pc' = pc /\ t \in unsure'
    BY <1>0, <2>1, <2>2, <2>5 DEF SliceInv
  <2> QED
    BY <1>0, <1>6, <2>3, <2>4, <2>5, ScaleOutEffect
<1>7. ASSUME NEW t \in Tickets, Manage(t), ~ScaleOut(t)
      PROVE  SliceInv'
  <2>1. /\ scaled' = scaled /\ slice' = slice /\ slices' = slices /\ pc' = pc
    BY <1>7 DEF Manage, CloseForWeekend, CloseForLoss, CloseForFlatten, Trail,
                ManageUnchanged
  <2>2. Shrinks(t)
    BY <1>7, ManageEffect
  <2>3. /\ \A u \in Tickets : lots'[u] <= lots[u] /\ lots'[u] \in Int
        /\ unsure \subseteq unsure'
    BY <1>0, <2>2 DEF Shrinks
  <2> QED
    BY <1>0, <2>1, <2>3 DEF SliceInv
<1>8. CASE MarkSlice
  BY <1>8 DEF MarkSlice, broker, ghosts, SliceInv
<1>9. CASE Crash \/ Boot
  BY <1>9 DEF Crash, Boot, broker, store, memory, ghosts, SliceInv
<1>10. CASE UNCHANGED vars
  BY <1>10 DEF vars, broker, store, memory, ghosts, SliceInv
<1> QED
  BY <1>1, <1>2, <1>3, <1>4, <1>5, <1>6, <1>7, <1>8, <1>9, <1>10
     DEF Next, Broker, PollThread

-----------------------------------------------------------------------------
(* The record of a close.                                                  *)

\* Where the broker closes a position as a whole, no close gets a second row.
LEMMA RowStep ==
    ASSUME IInv, RowInv, ~Chunks, [Next]_vars
    PROVE  RowInv'
<1>0. /\ lots \in [Tickets -> 0..Lots] /\ Lots \in Nat
      /\ rows \in [Tickets -> Nat] /\ saved \in [Tickets -> Nat] /\ TypeOK
  BY PositionsAssumption DEF IInv, TypeOK
<1>1. ASSUME NEW t \in Tickets, ClosedElsewhere(t)
      PROVE  RowInv'
  <2>1. PICK n \in 1..lots[t] : n = lots[t] /\ Trades(t, n, "elsewhere")
    BY <1>1 DEF ClosedElsewhere
  <2>2. n \in Nat \ {0} /\ n <= lots[t] /\ "elsewhere" \in Makers /\ lots[t] > 0
    BY <1>0, <2>1 DEF Makers
  <2>3. /\ lots'[t] = 0
        /\ \A u \in Tickets \ {t} : lots'[u] = lots[u] /\ Elsewhere(u)' = Elsewhere(u)
    BY <1>0, <2>1, <2>2, TradesEffect
  <2>4. rows[t] # 1
    BY <1>0, <2>2 DEF RowInv
  <2> QED
    BY <1>1, <2>3, <2>4 DEF ClosedElsewhere, store, memory, RowInv
<1>2. ASSUME NEW t \in Tickets, DealAppears(t)
      PROVE  RowInv'
  <2>1. \A u \in Tickets : Elsewhere(u)' = Elsewhere(u)
    BY <1>0, <1>2 DEF DealAppears, TypeOK, Elsewhere
  <2> QED
    BY <1>2, <2>1 DEF DealAppears, store, memory, RowInv
<1>3. CASE Clock
  BY <1>3 DEF Clock, WindowTurns, DayTurns, RetryEnds, broker, store, memory, RowInv,
              Elsewhere
<1>4. CASE CycleStarts
  BY <1>4 DEF CycleStarts, broker, store, RowInv, Elsewhere
<1>5. CASE Reap
  <2> DEFINE gone     == open \ Live(book)
             reported == Untracked \cup {t \in gone : Foreign(t)}
  <2>1. /\ rows' = [t \in Tickets |-> IF t \in reported THEN rows[t] + 1 ELSE rows[t]]
        /\ open' = Live(book) \cup {t \in gone : ~Foreign(t) /\ Waiting(t)}
        /\ <<lots, deals, late, saved, book>>' = <<lots, deals, late, saved, book>>
    BY <1>5 DEF Reap, broker, store
  <2>2. \A t \in Tickets : t \notin Live(book) => book[t] = 0
    BY <1>0 DEF TypeOK, Live
  <2>3. ASSUME NEW t \in Tickets, t \in reported
        PROVE  Foreign(t) /\ rows[t] = 0 /\ t \notin open' /\ book[t] = 0
    <3>1. Foreign(t) /\ t \notin Live(book)
      BY <2>3 DEF Untracked
    <3>2. Elsewhere(t)
      BY <3>1 DEF Foreign, Elsewhere
    <3>3. rows[t] = 0
      BY <1>0, <2>3, <3>2 DEF Untracked, RowInv
    <3> QED
      BY <2>1, <2>2, <3>1, <3>3
  <2>4. ASSUME NEW t \in Tickets, t \in reported
        PROVE  rows'[t] = 1 /\ lots[t] = 0 /\ saved[t] = 0
    BY <1>0, <2>1, <2>3, <2>4 DEF RowInv, Foreign, Elsewhere
  <2>5. ASSUME NEW t \in Tickets, t \notin reported
        PROVE  /\ rows'[t] = rows[t]
               /\ Elsewhere(t) /\ rows[t] = 1 => t \notin open'
    BY <1>0, <2>1, <2>2, <2>5 DEF RowInv, Live
  <2>6. \A t \in Tickets : Elsewhere(t)' = Elsewhere(t)
    BY <2>1 DEF Elsewhere
  <2> HIDE DEF reported, gone
  <2> QED
    BY <1>0, <2>1, <2>3, <2>4, <2>5, <2>6 DEF RowInv
<1>6. CASE Prune \/ MarkSlice \/ ManageEnds
  BY <1>6 DEF Prune, MarkSlice, ManageEnds, broker, store, memory, RowInv, Elsewhere
<1>7. ASSUME NEW t \in Tickets, Manage(t)
      PROVE  RowInv'
  <2>1. /\ Shrinks(t) /\ saved' = saved /\ open' = open /\ book' = book
        /\ \/ rows' = rows
           \/ rows' = [rows EXCEPT ![t] = @ + 1] /\ lots[t] > 0 /\ lots'[t] = 0
    BY <1>7, ManageEffect
  <2>2. /\ \A u \in Tickets : lots[u] = 0 => lots'[u] = 0
        /\ \A u \in Tickets : Elsewhere(u)' = Elsewhere(u)
    BY <1>0, <2>1 DEF Shrinks
  <2>3. CASE rows' = rows
    BY <2>1, <2>2, <2>3 DEF RowInv
  <2>4. CASE rows' = [rows EXCEPT ![t] = @ + 1] /\ lots[t] > 0 /\ lots'[t] = 0
    <3>1. rows[t] = 0 /\ ~Elsewhere(t)
      BY <1>0, <2>4 DEF RowInv
    <3>2. rows'[t] = 1 /\ \A u \in Tickets \ {t} : rows'[u] = rows[u]
      BY <1>0, <2>4, <3>1
    <3> QED
      BY <1>0, <2>1, <2>2, <2>4, <3>1, <3>2 DEF RowInv
  <2> QED
    BY <2>1, <2>3, <2>4
<1>8. CASE Flush
  BY <1>0, <1>8 DEF Flush, broker, memory, RowInv, Elsewhere
<1>9. CASE Crash
  BY <1>0, <1>9 DEF Crash, Zero, broker, store, RowInv, Elsewhere
<1>10. CASE Boot
  BY <1>10 DEF Boot, broker, store, memory, RowInv, Elsewhere
<1>11. CASE UNCHANGED vars
  BY <1>11 DEF vars, broker, store, memory, RowInv, Elsewhere
<1> QED
  BY <1>1, <1>2, <1>3, <1>4, <1>5, <1>6, <1>7, <1>8, <1>9, <1>10, <1>11
     DEF Next, Broker, PollThread

-----------------------------------------------------------------------------
(* The invariant and what follows from it.                                 *)

\* The inductive invariant holds: every close of the engine, every close of
\* the broker, every restart keeps it.
THEOREM Invariant == Spec => []IInv
<1>1. Init => IInv
  <2> SUFFICES ASSUME Init PROVE IInv
    OBVIOUS
  <2>1. SliceInv
    BY ZeroTypes DEF Init, SliceInv, Zero
  <2>2. RowInv
    BY DEF Init, RowInv, Elsewhere, Zero
  <2> QED
    BY <2>1, <2>2, TypeInit DEF IInv, BookCovers, Init
<1>2. IInv /\ [Next]_vars => IInv'
  BY TypeStep, BookStep, SliceStep, RowStep DEF IInv
<1> QED
  BY <1>1, <1>2, PTL DEF Spec

\* Every reachable state is typed: in particular no close takes more lots than
\* a position has.
THEOREM Typing == Spec => []TypeOK
<1>1. IInv => TypeOK
  BY DEF IInv
<1> QED
  BY <1>1, Invariant, PTL

\* What owes a flatten owes it until it has left the book, whatever the broker
\* fills of a close, and over windows, failed reads, crashes and restarts
\* (weekend_pending, force_flat_pending of manage_positions).
THEOREM OwedStaysSafe == Spec => OwedStays
<1>1. IInv /\ [Next]_vars =>
        [\A r \in Reasons, t \in Tickets :
            t \in owed[r] /\ lots'[t] > 0 => t \in owed'[r]]_vars
  BY OwedStep
<1> QED
  BY <1>1, Invariant, PTL DEF Spec, OwedStays

\* A position is scaled out once if the process is only ended between cycles
\* (scale_out_done of _maybe_scale_out).
THEOREM ScaledOutOnceSafe ==
    ASSUME ~HardCrash
    PROVE  Spec => []ScaledOutOnce
<1>1. IInv => ScaledOutOnce
  BY DEF IInv, SliceInv, ScaledOutOnce
<1> QED
  BY <1>1, Invariant, PTL

\* A close has one row if the broker closes positions as a whole, also when the
\* process ends in the middle of a cycle (_reap_execution, _close_tracked,
\* _reconcile_untracked_closes).
THEOREM OneRowPerCloseSafe ==
    ASSUME ~Chunks
    PROVE  Spec => []OneRowPerClose
<1>1. IInv => OneRowPerClose
  BY DEF IInv, RowInv, OneRowPerClose
<1> QED
  BY <1>1, Invariant, PTL

-----------------------------------------------------------------------------
(* The report of a close the broker made.                                  *)

\* Only the broker closed the position, and it is gone.
Abroad(t) == lots[t] = 0 /\ deals[t] \cup late[t] = {"elsewhere"}

\* From the first reap of a process on, every position is watched until it is
\* gone and reported, or its deal came too late for the restart scan; and the
\* wait for a deal ends before the tries do.
ReportInv ==
    /\ pc \in {"prune", "manage", "mark", "flush"} => swept
    /\ \A t \in Tickets :
         /\ misses[t] < MaxMisses
         /\ swept /\ lots[t] > 0 => t \in open
         /\ swept /\ Abroad(t) /\ t \notin overlooked \cup open => rows[t] > 0

\* A deal of the engine is never the broker's own.
LEMMA EngineMarks ==
    ASSUME TypeOK, NEW t \in Tickets, NEW n \in Nat \ {0}, Trades(t, n, "engine")
    PROVE  deals'[t] \cup late'[t] # {"elsewhere"}
<1>1. \/ "engine" \in deals'[t]
      \/ "engine" \in late'[t]
  BY DEF Trades, TypeOK
<1> QED BY <1>1

\* A round of manage_positions makes no close of the broker.
LEMMA ManageAbroad ==
    ASSUME IInv, NEW t \in Tickets, Manage(t), NEW u \in Tickets, Abroad(u)'
    PROVE  Abroad(u)
<1>0. TypeOK /\ Lots \in Nat /\ lots \in [Tickets -> 0..Lots]
  BY PositionsAssumption DEF IInv, TypeOK
<1>1. Slice(book[t]) \in Nat \ {0}
  BY <1>0, SliceType DEF TypeOK
<1>2. \/ UNCHANGED <<lots, deals, late>>
      \/ \E n \in Nat \ {0} : Trades(t, n, "engine")
  BY <1>0, <1>1 DEF Manage, CloseForWeekend, CloseForLoss, CloseForFlatten, Trail, ScaleOut,
         CloseTicket, CloseFails, CloseDone, CloseUnclear, broker
<1>3. CASE UNCHANGED <<lots, deals, late>>
  BY <1>3 DEF Abroad
<1>4. CASE \E n \in Nat \ {0} : Trades(t, n, "engine")
  <2>1. PICK n \in Nat \ {0} : Trades(t, n, "engine")
    BY <1>4
  <2>2. u # t
    BY <1>0, <2>1, EngineMarks DEF Abroad
  <2>3. lots'[u] = lots[u] /\ deals'[u] = deals[u] /\ late'[u] = late[u]
    BY <1>0, <2>1, <2>2 DEF Trades, TypeOK
  <2> QED BY <2>3 DEF Abroad
<1> QED BY <1>2, <1>3, <1>4

\* Where the history shows of a fresh close nothing but its own deal, no step
\* loses one.
LEMMA ReportStep ==
    ASSUME IInv, ReportInv, ~YoungPositions, [Next]_vars
    PROVE  ReportInv'
<1>0. /\ lots \in [Tickets -> 0..Lots] /\ Lots \in Nat
      /\ rows \in [Tickets -> Nat] /\ saved \in [Tickets -> Nat] /\ TypeOK
      /\ book \in [Tickets -> 0..Lots] /\ BookCovers
  BY PositionsAssumption DEF IInv, TypeOK
<1>1. ASSUME NEW t \in Tickets, ClosedElsewhere(t)
      PROVE  ReportInv'
  <2>1. PICK n \in 1..lots[t] : Trades(t, n, "elsewhere")
    BY <1>1 DEF ClosedElsewhere
  <2>2. n \in Nat \ {0} /\ n <= lots[t] /\ lots[t] > 0
    BY <1>0, <2>1
  <2>3. /\ \A u \in Tickets \ {t} : lots'[u] = lots[u] /\ (Abroad(u)' <=> Abroad(u))
        /\ lots'[t] \in Int
    <3>1. \A u \in Tickets \ {t} : lots'[u] = lots[u] /\ deals'[u] = deals[u] /\ late'[u] = late[u]
      BY <1>0, <2>1 DEF Trades, TypeOK
    <3>2. lots'[t] = lots[t] - n
      BY <1>0, <2>1 DEF Trades
    <3> QED BY <1>0, <2>2, <3>1, <3>2 DEF Abroad
  <2> QED
    BY <1>1, <2>2, <2>3 DEF ClosedElsewhere, store, memory, ghosts, ReportInv
<1>2. ASSUME NEW t \in Tickets, DealAppears(t)
      PROVE  ReportInv'
  <2>1. \A u \in Tickets : Abroad(u)' <=> Abroad(u)
    BY <1>0, <1>2 DEF DealAppears, TypeOK, Abroad
  <2> QED
    BY <1>2, <2>1 DEF DealAppears, store, memory, ghosts, ReportInv
<1>3. CASE Clock
  BY <1>3 DEF Clock, WindowTurns, DayTurns, RetryEnds, broker, store, memory, ghosts,
              ReportInv, Abroad
<1>4. CASE CycleStarts \/ Prune \/ MarkSlice \/ ManageEnds \/ Flush \/ Boot
  BY <1>4 DEF CycleStarts, Prune, MarkSlice, ManageEnds, Flush, Boot, broker, store, memory,
              ghosts, ReportInv, Abroad
<1>5. CASE Reap
  <2> DEFINE gone     == open \ Live(book)
             reported == Untracked \cup {t \in gone : Foreign(t)}
             waits    == {t \in gone : ~Foreign(t) /\ Waiting(t)}
  <2>1. /\ \A t \in gone : misses[t] + 1 = MaxMisses => late[t] = {}
        /\ swept' = TRUE
        /\ rows' = [t \in Tickets |-> IF t \in reported THEN rows[t] + 1 ELSE rows[t]]
        /\ open' = Live(book) \cup waits
        /\ misses' = [t \in Tickets |-> IF t \in waits THEN misses[t] + 1 ELSE 0]
        /\ overlooked' = IF swept THEN overlooked
                         ELSE overlooked \cup {t \in Tickets : book[t] = 0 /\ late[t] # {}}
        /\ <<lots, deals, late>>' = <<lots, deals, late>>
        /\ pc = "reap"
    BY <1>5 DEF Reap, broker
  <2>2. \A t \in Tickets : t \notin Live(book) <=> book[t] = 0
    BY <1>0 DEF Live
  <2>3. \A t \in Tickets : misses[t] \in Nat /\ misses[t] < MaxMisses /\ MaxMisses \in Nat \ {0, 1}
    BY <1>0, LimitsAssumption DEF TypeOK, ReportInv
  <2>4. ASSUME NEW t \in Tickets PROVE misses'[t] < MaxMisses
    BY <2>1, <2>3 DEF Waiting
  <2>5. ASSUME NEW t \in Tickets, lots[t] > 0 PROVE t \in open'
    <3>1. lots[t] <= book[t] /\ lots[t] \in Int /\ book[t] \in Int
      BY <1>0, <2>1 DEF BookCovers
    <3>2. book[t] > 0
      BY <2>5, <3>1
    <3> QED BY <2>1, <3>2 DEF Live
  <2>6. ASSUME NEW t \in Tickets, Abroad(t), t \notin overlooked' \cup open' PROVE rows'[t] > 0
    <3>0. book[t] = 0 /\ t \notin waits
      BY <2>1, <2>2, <2>6
    <3>1. CASE Foreign(t) /\ (~swept \/ t \in open)
      <4>1. t \in reported \/ rows[t] # 0
        BY <2>2, <3>0, <3>1 DEF Untracked
      <4>2. rows'[t] = IF t \in reported THEN rows[t] + 1 ELSE rows[t]
        BY <2>1
      <4>3. rows[t] \in Nat
        BY <1>0
      <4> HIDE DEF reported
      <4> QED BY <4>1, <4>2, <4>3
    <3>2. CASE ~Foreign(t) /\ ~swept
      <4>1. late[t] # {}
        BY <2>6, <3>2 DEF Foreign, Abroad
      <4> QED BY <2>1, <2>6, <3>0, <3>2, <4>1
    <3>3. CASE swept /\ t \notin open
      <4>1. rows[t] > 0
        BY <2>1, <2>6, <3>3 DEF ReportInv
      <4>2. rows'[t] = IF t \in reported THEN rows[t] + 1 ELSE rows[t]
        BY <2>1
      <4>3. rows[t] \in Nat
        BY <1>0
      <4> HIDE DEF reported
      <4> QED BY <4>1, <4>2, <4>3
    <3>4. CASE ~Foreign(t) /\ t \in open
      <4>1. t \in gone
        BY <2>2, <3>0, <3>4
      <4>2. deals[t] = {} /\ late[t] # {}
        BY <2>6, <3>4 DEF Foreign, Abroad
      <4>3. ~Waiting(t)
        BY <3>0, <3>4, <4>1
      <4>4. misses[t] + 1 = MaxMisses
        BY <2>3, <4>2, <4>3 DEF Waiting, InHistory
      <4> QED BY <2>1, <4>1, <4>2, <4>4
    <3> QED BY <3>1, <3>2, <3>3, <3>4
  <2>7. \A t \in Tickets : Abroad(t)' <=> Abroad(t)
    BY <2>1 DEF Abroad
  <2> HIDE DEF reported, gone, waits
  <2> QED
    BY <2>1, <2>4, <2>5, <2>6, <2>7 DEF ReportInv
<1>6. ASSUME NEW t \in Tickets, Manage(t)
      PROVE  ReportInv'
  <2>1. /\ Shrinks(t) /\ pc = "manage"
        /\ <<open, misses, swept>>' = <<open, misses, swept>>
        /\ \/ rows' = rows
           \/ rows' = [rows EXCEPT ![t] = @ + 1]
    BY <1>6, ManageEffect
  <2>2. overlooked' = overlooked
    BY <1>6 DEF Manage, CloseForWeekend, CloseForLoss, CloseForFlatten, Trail, ScaleOut,
                ManageUnchanged
  <2>3. \A u \in Tickets : /\ lots'[u] > 0 => lots[u] > 0
                           /\ rows[u] > 0 => rows'[u] > 0
    BY <1>0, <2>1 DEF Shrinks
  <2>4. \A u \in Tickets : Abroad(u)' => Abroad(u)
    BY <1>6, ManageAbroad
  <2> QED BY <2>1, <2>2, <2>3, <2>4 DEF ReportInv
<1>7. CASE Crash
  BY <1>7, LimitsAssumption DEF Crash, Zero, ReportInv
<1>8. CASE UNCHANGED vars
  BY <1>8 DEF vars, broker, store, memory, ghosts, ReportInv, Abroad
<1> QED
  BY <1>1, <1>2, <1>3, <1>4, <1>5, <1>6, <1>7, <1>8 DEF Next, Broker, PollThread

\* A position that only the broker closed is in the ring once the engine has
\* stopped watching it, over partial closes of the broker and a process that
\* ends anywhere, where the history shows of a fresh close nothing but its own
\* deal (reap, _reconcile_untracked_closes).
THEOREM ForeignCloseReportedSafe ==
    ASSUME ~YoungPositions
    PROVE  Spec => []ForeignCloseReported
<1>1. Init => ReportInv
  BY LimitsAssumption DEF Init, ReportInv, Zero
<1>2. IInv /\ ReportInv /\ [Next]_vars => ReportInv'
  BY ReportStep
<1>3. ReportInv => ForeignCloseReported
  BY DEF ReportInv, ForeignCloseReported, Abroad
<1> QED
  BY <1>1, <1>2, <1>3, Invariant, PTL DEF Spec
=============================================================================
