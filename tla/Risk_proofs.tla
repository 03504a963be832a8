----------------------------- MODULE Risk_proofs ------------------------------
(***************************************************************************)
(* StopRatchet: the stop at the broker is a ladder, and in profit only if  *)
(* the chart has earned it, whatever is refused, lost, edited or forgotten *)
(* by a restart, for every tick, price and overlay.  No hand moves the     *)
(* stop in the middle of a cycle; of a fill nobody remembers the fallback  *)
(* does not follow the spread (Wide) and, for what is earned, is no        *)
(* smaller than the risk the trade was opened with (Steady).               *)
(*                                                                         *)
(* SpreadCost: a symbol is priced by its own spread, for every book, every *)
(* number of buckets and lives and every interval between two writes, as   *)
(* long as a delete meets no running cycle, its write succeeds and the     *)
(* process does not die in the middle of it.                               *)
(*                                                                         *)
(* Sizing: an entry over one and a half times its 1R ceiling is a minimum  *)
(* lot that the whole book has room for, for every account, symbol and     *)
(* roster, if the panel is not edited between an entry's size and its send *)
(* and, where margins cannot be read, no edge lifts a risk over its        *)
(* ceiling (ModestRisks); no lot exceeds the broker's maximum; and no      *)
(* split of the margin budget sizes a small account's entries away.        *)
(***************************************************************************)
EXTENDS SpreadCost, StopRatchet, Sizing, FiniteFacts

-----------------------------------------------------------------------------
(* Arithmetic: the greatest of finitely many levels, and the nearest level *)
(* on the grid, which is idempotent and never falls when its level climbs. *)

LEMMA DivParts ==
  ASSUME NEW a \in Int, NEW d \in Nat \ {0}
  PROVE  a \div d \in Int /\ d * (a \div d) <= a /\ a < d * (a \div d) + d
  OBVIOUS

LEMMA HalfTick == Tick \div 2 \in Nat /\ Tick \div 2 < Tick
  BY TickAssumption

LEMMA Cancels ==
  ASSUME NEW x \in Int, NEW y \in Int, NEW d \in Nat \ {0}, d * x < d * y + d
  PROVE  x <= y
  OBVIOUS

LEMMA Scales ==
  ASSUME NEW x \in Int, NEW y \in Int, NEW d \in Nat, x <= y
  PROVE  d * x <= d * y
  OBVIOUS

LEMMA DivUnique ==
  ASSUME NEW k \in Int, NEW d \in Nat \ {0}, NEW r \in Nat, r < d
  PROVE  (d * k + r) \div d = k
  OBVIOUS

LEMMA NormIsInt == \A x \in Int : Norm(x) \in Int
  BY TickAssumption, HalfTick DEF Norm

LEMMA NormTwice == \A x \in Int : Norm(Norm(x)) = Norm(x)
  <1> SUFFICES ASSUME NEW x \in Int PROVE Norm(Norm(x)) = Norm(x)
    OBVIOUS
  <1>1. PICK k \in Int : k = (x + Tick \div 2) \div Tick
    BY HalfTick, DivParts, TickAssumption
  <1>2. (Tick * k + Tick \div 2) \div Tick = k
    BY HalfTick, DivUnique, TickAssumption
  <1> QED BY <1>1, <1>2 DEF Norm

LEMMA NormClimbs ==
  ASSUME NEW x \in Int, NEW y \in Int, x <= y
  PROVE  Norm(x) <= Norm(y)
  <1>1. PICK j \in Int : j = (x + Tick \div 2) \div Tick /\ Tick * j <= x + Tick \div 2
    BY HalfTick, DivParts, TickAssumption
  <1>2. PICK k \in Int : k = (y + Tick \div 2) \div Tick /\ y + Tick \div 2 < Tick * k + Tick
    BY HalfTick, DivParts, TickAssumption
  <1>3. Tick * j \in Int /\ Tick * k \in Int
    BY TickAssumption
  <1>4. Tick * j < Tick * k + Tick
    BY <1>1, <1>2, <1>3, HalfTick, TickAssumption
  <1>5. j <= k
    BY <1>4, Cancels, TickAssumption
  <1> QED BY <1>1, <1>2, <1>5, Scales, TickAssumption DEF Norm

-----------------------------------------------------------------------------
(* What a closed bar is.                                                    *)
Bars == [n : 0 .. MaxBar, close : Int, high : Int, atr : Atrs, swing : Swings]

(* Every level the broker holds or is asked for is one it can hold.         *)
OnGrid ==
    /\ sl # None => Norm(sl) = sl
    /\ request # None => Norm(request.level) = request.level

(* No higher than a repair would put the stop.                              *)
NoHigher(level) == bars # None => level <= Norm(-FillRisk(bars.atr, 0))

(* What the cycle read is what stands at the broker, unless the answer of a *)
(* repair was lost; what it is about to send is no lower.                   *)
NoLower ==
    /\ pc = "repair" => sl = None /\ snap = None
    /\ pc = "update" => snap = sl \/ (snap = None /\ NoHigher(sl))
    /\ pc = "send" /\ request.what = "repair" =>
           sl = None /\ snap = None /\ NoHigher(request.level)
    /\ pc = "send" /\ request.what = "update" => (sl # None => request.level >= sl)

(* Inside a cycle the position is tracked.                                  *)
InBook == pc \in {"repair", "update", "send"} => book \in Records

LadderInv == TypeOK /\ OnGrid /\ NoLower /\ InBook

-----------------------------------------------------------------------------
(* The types of the operators a step is built from.                         *)

LEMMA TypesOfBars ==
  ASSUME TypeOK
  PROVE  (bars # None => bars \in Bars) /\ (last # None => last \in Bars)
<1>1. {last, bars} \ {None} \subseteq Bars
  BY DEF TypeOK, Bars
<1> QED BY <1>1

LEMMA TypesOfBar ==
  ASSUME NEW b \in Bars
  PROVE  b.atr \in Nat /\ b.close \in Int /\ b.swing \in Int \cup {None}
  BY PriceAssumption DEF Bars

LEMMA TypesOfConfig ==
  ASSUME TypeOK
  PROVE  /\ cfg.sl_mult \in Nat /\ cfg.start \in Nat /\ cfg.step \in Nat
         /\ cfg.be_at \in Nat /\ cfg.harvest_at \in Nat /\ cfg.harvest_step \in Nat
         /\ cfg.locks \subseteq [at_r : Nat, to_r : Nat] /\ IsFiniteSet(cfg.locks)
<1>1. cfg \in Configs
  BY DEF TypeOK
<1>2. {cfg.sl_mult, cfg.start, cfg.step, cfg.be_at, cfg.harvest_at, cfg.harvest_step} \subseteq Nat
  BY <1>1, ConfigAssumption
<1>3. cfg.locks \subseteq [at_r : Nat, to_r : Nat]
  BY <1>1, ConfigAssumption
<1>4. IsFiniteSet(cfg.locks)
  BY <1>1, ConfigAssumption
<1> QED BY <1>2, <1>3, <1>4

LEMMA RiskIsNat ==
  ASSUME TypeOK, NEW a \in Nat, NEW m \in Nat
  PROVE  /\ FillRisk(a, m) \in Nat
         /\ FillRisk(a, m) >= FillRisk(a, 0)
         /\ m <= a * cfg.sl_mult => FillRisk(a, m) = FillRisk(a, 0)
<1>1. PICK x \in Nat : x = a * cfg.sl_mult
  BY TypesOfConfig
<1>2. originals # None => originals \in Records
  BY DEF TypeOK, Books, Records
<1> QED BY <1>1, <1>2 DEF FillRisk, Higher, Records

LEMMA StepIsNat ==
  ASSUME TypeOK, NEW profit \in Int, NEW risk \in Nat
  PROVE  Step(profit, risk) \in Nat
  BY TypesOfConfig DEF Step, Lower

LEMMA MinStepIsNat ==
  ASSUME NEW a \in Nat, NEW s \in Nat, NEW m \in Nat
  PROVE  MinStep20(a, s, m) \in Nat
<1>1. PICK x \in Nat : x = 2 * a * s
  OBVIOUS
<1> QED BY <1>1 DEF MinStep20, Higher

LEMMA LocksAreLevels ==
  ASSUME TypeOK, NEW profit \in Int, NEW risk \in Nat, NEW peak \in Int
  PROVE  LockLevels(profit, risk, peak) \subseteq Int /\ IsFiniteSet(LockLevels(profit, risk, peak))
<1> DEFINE arm == IF peak > 0 THEN Higher(profit, peak) ELSE profit
<1> DEFINE due == {k \in cfg.locks : arm > 0 /\ arm >= k.at_r * risk}
<1> DEFINE to == [l \in due |-> l.to_r * risk]
<1> DEFINE levels == {l.to_r * risk : l \in due}
<1>1. LockLevels(profit, risk, peak) = levels
  BY DEF LockLevels
<1>2. due \subseteq cfg.locks /\ due \subseteq [at_r : Nat, to_r : Nat]
  BY TypesOfConfig
<1>3. IsFiniteSet(due)
  BY <1>2, TypesOfConfig, FS_Subset
<1>4. to \in Surjection(due, levels)
  BY DEF Surjection
<1>5. IsFiniteSet(levels)
  BY <1>3, <1>4, FS_Surjection
<1>6. levels \subseteq Int
  BY <1>2
<1> QED BY <1>1, <1>5, <1>6

LEMMA WantedAreLevels ==
  ASSUME TypeOK, NEW b \in Bars, NEW risk \in Nat, NEW peak \in Int
  PROVE  Wanted(b, risk, peak) \subseteq Int /\ IsFiniteSet(Wanted(b, risk, peak))
<1>1. b.atr \in Nat /\ b.close \in Int /\ b.swing \in Int \cup {None}
  BY TypesOfBar
<1>2. PICK x \in Int : x = b.close - b.atr * Step(b.close, risk)
  <2>1. PICK s \in Nat : s = Step(b.close, risk)
    BY <1>1, StepIsNat
  <2>2. PICK y \in Int : y = b.atr * s
    BY <1>1
  <2> QED BY <1>1, <2>1, <2>2
<1>3. TrailLevel(b.close, b.atr, b.swing, risk) \in Int
  BY <1>1, <1>2 DEF TrailLevel, Higher
<1> DEFINE armed == /\ b.close > 0 /\ Step(b.close, risk) > 0
                    /\ TrailArmed(b.close, b.atr, risk)
<1> DEFINE evened == cfg.be_at > 0 /\ b.close >= cfg.be_at * risk
<1>4. PICK trails : /\ trails = IF armed THEN {TrailLevel(b.close, b.atr, b.swing, risk)} ELSE {}
                    /\ trails \subseteq Int /\ IsFiniteSet(trails)
  <2>1. CASE armed
    <3>1. IsFiniteSet({TrailLevel(b.close, b.atr, b.swing, risk)})
      BY FS_Singleton
    <3> QED BY <1>3, <2>1, <3>1
  <2>2. CASE ~armed
    BY <2>2, FS_EmptySet
  <2> QED BY <2>1, <2>2
<1>5. PICK even : /\ even = IF evened THEN {0} ELSE {}
                  /\ even \subseteq Int /\ IsFiniteSet(even)
  <2>1. IsFiniteSet({0})
    BY FS_Singleton
  <2>2. IsFiniteSet({})
    BY FS_EmptySet
  <2> QED BY <2>1, <2>2
<1>6. PICK locked : /\ locked = LockLevels(b.close, risk, peak)
                    /\ locked \subseteq Int /\ IsFiniteSet(locked)
  BY <1>1, LocksAreLevels
<1>7. Wanted(b, risk, peak) = trails \cup even \cup locked
  BY <1>4, <1>5, <1>6 DEF Wanted
<1>8. IsFiniteSet(trails \cup even \cup locked)
  BY <1>4, <1>5, <1>6, FS_Union
<1> QED BY <1>4, <1>5, <1>6, <1>7, <1>8

(* What is sent is on the grid and above the level the trade was opened     *)
(* with; when the cycle has seen a stop it is not below that stop.          *)
LEMMA PlaceableClimbs ==
  ASSUME TypeOK, NEW b \in Bars, NEW wanted \in Int, NEW risk \in Nat, NEW m \in Nat,
         snap # None => Norm(snap) = snap,
         NEW level, level = Placeable(wanted, b, risk, m), level # None
  PROVE  /\ level \in Int /\ Norm(level) = level
         /\ snap # None => level >= snap
         /\ level >= Norm(-risk)
<1>1. PICK target \in Int : target = Lower(wanted, live - m)
  BY DEF TypeOK, Lower
<1>2. /\ level = Norm(target)
      /\ ~(target <= -risk)
      /\ ~(snap # None /\ 20 * (target - snap) < MinStep20(b.atr, Step(b.close, risk), m))
  BY <1>1 DEF Placeable
<1>3. level \in Int /\ Norm(level) = level
  BY <1>1, <1>2, NormIsInt, NormTwice
<1>4. level >= Norm(-risk)
  BY <1>1, <1>2, NormClimbs, NormIsInt
<1>5. ASSUME snap # None PROVE level >= snap
  <2>1. snap \in Int
    BY <1>5 DEF TypeOK
  <2>2. b.atr \in Nat /\ b.close \in Int
    BY PriceAssumption DEF Bars
  <2>3. PICK least \in Nat : least = MinStep20(b.atr, Step(b.close, risk), m)
    BY <2>2, StepIsNat, MinStepIsNat
  <2>4. target >= snap
    BY <1>1, <1>2, <1>5, <2>1, <2>3
  <2> QED BY <1>1, <1>2, <1>5, <2>1, <2>4, NormClimbs, NormIsInt
<1> QED BY <1>3, <1>4, <1>5

LEMMA StopForClimbs ==
  ASSUME TypeOK, NEW b \in Bars, NEW peak \in Int, NEW m \in Nat,
         snap # None => Norm(snap) = snap,
         NEW level, level = StopFor(b, peak, m), level # None
  PROVE  /\ level \in Int /\ Norm(level) = level
         /\ snap # None => level >= snap
         /\ level >= Norm(-FillRisk(b.atr, m))
<1>1. b.atr \in Nat
  BY PriceAssumption DEF Bars
<1> DEFINE risk == FillRisk(b.atr, m)
<1>2. risk \in Nat
  BY <1>1, RiskIsNat
<1>3. Wanted(b, risk, peak) \subseteq Int /\ IsFiniteSet(Wanted(b, risk, peak))
  BY <1>2, WantedAreLevels
<1>4. /\ Wanted(b, risk, peak) # {}
      /\ level = Placeable(Max(Wanted(b, risk, peak)), b, risk, m)
  BY DEF StopFor
<1>5. Max(Wanted(b, risk, peak)) \in Int
  BY <1>3, <1>4, MaxOfFinite
<1>6. level >= Norm(-risk) /\ level \in Int /\ Norm(level) = level /\ (snap # None => level >= snap)
  <2> HIDE DEF risk
  <2> QED BY <1>2, <1>4, <1>5, PlaceableClimbs
<1> QED BY <1>6

LEMMA TypesOfBooks ==
  ASSUME TypeOK
  PROVE  \A b \in {saved, book, originals} : b # None => b \in Records
  BY DEF TypeOK, Books, Records

LEMMA NotedIsRecord ==
  ASSUME NEW b \in Books, NEW risk \in Nat
  PROVE  Noted(b, risk) \in Records
  BY DEF Noted, NoBook, Books, Records

LEMMA RecordedIsRecord ==
  ASSUME TypeOK, NEW b \in Records
  PROVE  Recorded(b) \in Records
  BY TypesOfBooks DEF Recorded, Records, Higher

LEMMA FillIsRecorded ==
  ASSUME TypeOK, NEW risk \in Nat, NoteFill(risk)
  PROVE  {book', originals', saved'} \subseteq Records
<1>1. book' \in Records
  BY NotedIsRecord DEF NoteFill, TypeOK
<1>2. originals' \in Records
  BY <1>1, RecordedIsRecord DEF NoteFill
<1> QED BY <1>1, <1>2 DEF NoteFill

LEMMA TrackedIsRecord ==
  ASSUME TypeOK
  PROVE  Tracked \in Records
<1>1. FirstSight \in Records
  BY TypesOfBooks DEF TypeOK, FirstSight, NoBook, Higher, Records
<1>2. PICK b \in Records : b = IF book = None THEN FirstSight ELSE book
  BY <1>1, TypesOfBooks
<1>3. PICK kept \in Nat : kept = IF originals = None THEN 0 ELSE originals.mfe
  BY TypesOfBooks DEF Records
<1>4. live \in Int
  BY DEF TypeOK
<1>5. Tracked = [b EXCEPT !.mfe = Higher(Higher(b.mfe, kept), live)]
  BY <1>2, <1>3 DEF Tracked
<1>6. Higher(Higher(b.mfe, kept), live) \in Nat
  BY <1>4 DEF Higher, Records
<1> QED BY <1>5, <1>6 DEF Records

LEMMA PeakedIsBook ==
  ASSUME TypeOK, NEW b \in Records
  PROVE  Peaked(b) \in Books /\ PersistsPeak(b) \in Books
<1>1. Peaked(b) \in Books
  BY TypesOfBooks DEF Peaked, Records, Books, Higher
<1> QED BY <1>1 DEF PersistsPeak, TypeOK

LEMMA RepairOnGrid ==
  ASSUME TypeOK, NEW risk \in Nat, NEW m \in Nat,
         NEW level, level = RepairLevel(risk, m), level # None
  PROVE  level \in Int /\ Norm(level) = level /\ level <= Norm(-risk)
<1>1. PICK top \in Int : top = Norm(-risk)
  BY NormIsInt
<1>2. PICK low \in Int : low = Lower(top, live - m) /\ low <= top
  BY DEF Lower, TypeOK
<1>3. level = Norm(low)
  BY <1>1, <1>2 DEF RepairLevel
<1>4. Norm(low) <= Norm(top)
  BY <1>2, NormClimbs
<1>5. Norm(top) = top
  BY <1>1, NormTwice
<1> QED BY <1>1, <1>2, <1>3, <1>4, <1>5, NormIsInt, NormTwice

-----------------------------------------------------------------------------
(* The types, whoever moves the stop and whenever: inside a cycle the       *)
(* position is tracked.                                                     *)
StopTyped == TypeOK /\ InBook

LEMMA BeginsTyped == Init => StopTyped
<1> SUFFICES ASSUME Init PROVE StopTyped
  OBVIOUS
<1>1. last \in Bars
  <2>1. SignalCloses # {}
    BY DEF Init, SignalBars
  <2>2. PICK top \in Int : top = Max(SignalCloses)
    BY <2>1, MaxOfFinite, PriceAssumption
  <2>3. last \in [n : {0}, close : SignalCloses, high : {top}, atr : Atrs, swing : Swings]
    BY <2>2 DEF Init, SignalBars
  <2>4. 0 \in 0 .. MaxBar /\ SignalCloses \subseteq Int
    BY PriceAssumption, BoundAssumption
  <2> QED BY <2>2, <2>3, <2>4 DEF Bars
<1>2. sl \in Int \cup {None}
  BY NormIsInt, TickAssumption DEF Init
<1>3. {last, bars} \ {None} \subseteq Bars
  BY <1>1 DEF Init
<1>4. Gap \in Int
  BY TickAssumption DEF Gap
<1>5. TypeOK
  BY <1>2, <1>3, <1>4, BoundAssumption DEF Init, TypeOK, Bars, Books
<1> QED BY <1>5 DEF StopTyped, Init, InBook

LEMMA MarketTypes ==
  ASSUME StopTyped, MarketNext
  PROVE  StopTyped'
<1> USE DEF StopTyped
<1>0. UNCHANGED <<sl, hand, store, pc, memory, troubles, told, side>>
  BY DEF MarketNext, PriceMoves, BarCloses, StopHit, World, broker, market
<1>2. Gap \in Int
  BY TickAssumption DEF Gap
<1>3. /\ {live', high', best'} \subseteq Int /\ bar' \in 0 .. MaxBar /\ open' \in BOOLEAN
      /\ last' # None => last' \in Bars
  <2>1. CASE PriceMoves
    <3>1. live' \in Int
      BY <2>1, PriceAssumption DEF PriceMoves
    <3> QED BY <2>1, <3>1, <1>2, TypesOfBars DEF PriceMoves, TypeOK, Higher, broker
  <2>2. CASE BarCloses
    <3>1. last' \in Bars
      BY <2>2, <1>2, BoundAssumption DEF BarCloses, TypeOK, Bars
    <3> QED BY <2>2, <3>1, <1>2, BoundAssumption DEF BarCloses, TypeOK, broker
  <2>3. CASE StopHit
    BY <2>3, TypesOfBars DEF StopHit, TypeOK, market
  <2> QED BY <2>1, <2>2, <2>3 DEF MarketNext
<1>4. bars' # None => bars' \in Bars
  BY <1>0, TypesOfBars DEF memory
<1>5. ({last, bars} \ {None} \subseteq Bars)'
  BY <1>3, <1>4
<1>6. TypeOK'
  BY <1>0, <1>3, <1>5 DEF TypeOK, hand, store, memory, troubles, Bars
<1> QED BY <1>0, <1>6 DEF InBook, memory

LEMMA HandTypes ==
  ASSUME StopTyped, HandNext
  PROVE  StopTyped'
<1> USE DEF StopTyped
<1>0. UNCHANGED <<market, open, store, pc, memory, troubles, told>>
  BY DEF HandNext, HandMoves, Patch, World, broker
<1>1. ({last, bars} \ {None} \subseteq Bars)'
  BY <1>0, TypesOfBars DEF market, memory
<1>2. CASE HandMoves
  <2>1. sl' \in Int \cup {None}
    BY <1>2, PriceAssumption, NormIsInt DEF HandMoves
  <2>2. hands' \in 0 .. MaxTroubles /\ patches' \in 0 .. MaxTroubles /\ cfg' = cfg
    BY <1>2, BoundAssumption DEF HandMoves, Troubled, TypeOK
  <2>3. TypeOK'
    BY <1>0, <1>1, <2>1, <2>2 DEF TypeOK, market, store, memory, troubles, Bars
  <2> QED BY <1>0, <2>3 DEF InBook, memory
<1>3. CASE Patch
  <2>1. patches' \in 0 .. MaxTroubles /\ hands' = hands /\ sl' = sl /\ cfg' \in Configs
    BY <1>3, BoundAssumption DEF Patch, Troubled, TypeOK, broker
  <2>2. TypeOK'
    BY <1>0, <1>1, <2>1 DEF TypeOK, market, store, memory, troubles, Bars
  <2> QED BY <1>0, <2>2 DEF InBook, memory
<1> QED BY <1>2, <1>3 DEF HandNext

LEMMA RecordTypes ==
  ASSUME StopTyped, Book \/ ReadBook \/ ReadGone
  PROVE  StopTyped'
<1> USE DEF StopTyped
<1>0. UNCHANGED <<market, broker, hand, bars, request, troubles>> /\ pc = "idle"
  BY DEF Book, ReadBook, ReadGone
<1>1. ({last, bars} \ {None} \subseteq Bars)'
  BY <1>0, TypesOfBars DEF market
<1>2. request = None
  BY <1>0 DEF TypeOK
<1>4. CASE Book
  <2>1. {book', originals', saved'} \subseteq Books
    BY <1>4, FillIsRecorded, TickAssumption DEF Book, Books, Records
  <2>2. TypeOK'
    BY <1>0, <1>1, <1>4, <2>1 DEF Book, TypeOK, market, broker, hand, troubles, Bars
  <2> QED BY <1>0, <1>4, <2>2 DEF Book, InBook
<1>5. CASE ReadBook
  <2>1. book' \in Records
    BY <1>5, TrackedIsRecord DEF ReadBook
  <2>2. {book', originals', saved'} \subseteq Books
    BY <1>5, <2>1, PeakedIsBook DEF ReadBook, Books, Records
  <2>3. told' \in Nat
    BY <1>5, <2>1 DEF ReadBook, TypeOK, Higher, Records
  <2>4. snap' = sl /\ pc' = IF sl = None THEN "repair" ELSE "update"
    BY <1>5 DEF ReadBook
  <2>5. TypeOK'
    BY <1>0, <1>1, <1>2, <1>5, <2>2, <2>3, <2>4
    DEF ReadBook, TypeOK, market, broker, hand, troubles, Bars
  <2> QED BY <2>1, <2>5 DEF InBook
<1>6. CASE ReadGone
  <2>1. TypeOK'
    BY <1>0, <1>1, <1>6 DEF ReadGone, TypeOK, market, broker, hand, troubles, Bars, Books
  <2> QED BY <1>0, <1>6, <2>1 DEF ReadGone, InBook
<1> QED BY <1>4, <1>5, <1>6

LEMMA RepairTypes ==
  ASSUME StopTyped, RepairStop
  PROVE  StopTyped'
<1> USE DEF StopTyped
<1>0. UNCHANGED <<market, broker, hand, fill, snap, bars, troubles, told>> /\ pc = "repair"
  BY DEF RepairStop
<1>1. ({last, bars} \ {None} \subseteq Bars)'
  BY <1>0, TypesOfBars DEF market
<1>2. request = None /\ book \in Records
  BY <1>0 DEF TypeOK, InBook
<1>3. PICK m \in MinStops :
        LET risk  == FillRisk(IF bars = None THEN 0 ELSE bars.atr, m)
            level == RepairLevel(risk, m)
        IN IF Adopts(level, risk)
           THEN NoteFill(risk) /\ pc' = "evaluate" /\ UNCHANGED request
           ELSE Goes(level, "repair", risk) /\ UNCHANGED <<book, originals, saved>>
  BY DEF RepairStop
<1>4. PICK atr \in Nat : atr = IF bars = None THEN 0 ELSE bars.atr
  BY TypesOfBars, TypesOfBar
<1>5. m \in Nat
  BY TickAssumption
<1>6. PICK risk \in Nat : risk = FillRisk(atr, m)
  BY <1>4, <1>5, RiskIsNat
<1>7. PICK level : level = RepairLevel(risk, m) /\ (level # None => level \in Int)
  BY <1>5, RepairOnGrid
<1>8. IF Adopts(level, risk)
      THEN NoteFill(risk) /\ pc' = "evaluate" /\ UNCHANGED request
      ELSE Goes(level, "repair", risk) /\ UNCHANGED <<book, originals, saved>>
  BY <1>3, <1>4, <1>6, <1>7
<1>9. CASE Adopts(level, risk)
  <2>1. {book', originals', saved'} \subseteq Records
    BY <1>8, <1>9, FillIsRecorded
  <2>2. TypeOK'
    BY <1>0, <1>1, <1>2, <1>8, <1>9, <2>1
    DEF TypeOK, market, broker, hand, troubles, Bars, Books, Records
  <2> QED BY <2>1, <2>2 DEF InBook
<1>10. CASE ~Adopts(level, risk)
  <2>1. Goes(level, "repair", risk) /\ UNCHANGED <<book, originals, saved>>
    BY <1>8, <1>10
  <2>2. request' \in Modifies \cup {None}
    BY <1>7, <2>1 DEF Goes, Modifies
  <2>3. pc' \in {"send", "update"} /\ (pc' = "send" <=> request' # None)
    BY <1>7, <2>1, NullAssumption DEF Goes, Modifies
  <2>4. TypeOK'
    BY <1>0, <1>1, <2>1, <2>2, <2>3 DEF TypeOK, market, broker, hand, troubles, Bars
  <2> QED BY <1>2, <2>1, <2>4 DEF InBook
<1> QED BY <1>9, <1>10

(* The level an update wants, whatever stop the cycle saw.                  *)
LEMMA StopForIsLevel ==
  ASSUME TypeOK, NEW b \in Bars, NEW peak \in Int, NEW m \in Nat,
         StopFor(b, peak, m) # None
  PROVE  StopFor(b, peak, m) \in Int
<1>1. b.atr \in Nat
  BY PriceAssumption DEF Bars
<1> DEFINE risk == FillRisk(b.atr, m)
<1>2. risk \in Nat
  BY <1>1, RiskIsNat
<1>3. Wanted(b, risk, peak) \subseteq Int /\ IsFiniteSet(Wanted(b, risk, peak))
  BY <1>2, WantedAreLevels
<1>4. /\ Wanted(b, risk, peak) # {}
      /\ StopFor(b, peak, m) = Placeable(Max(Wanted(b, risk, peak)), b, risk, m)
  BY DEF StopFor
<1>5. PICK wanted \in Int : wanted = Max(Wanted(b, risk, peak))
  BY <1>3, <1>4, MaxOfFinite
<1>6. PICK target \in Int : target = Lower(wanted, live - m)
  BY DEF TypeOK, Lower
<1>7. StopFor(b, peak, m) = Norm(target)
  <2> HIDE DEF risk
  <2> QED BY <1>4, <1>5, <1>6 DEF Placeable
<1> QED BY <1>6, <1>7, NormIsInt

LEMMA UpdateTypes ==
  ASSUME StopTyped, UpdateStop
  PROVE  StopTyped'
<1> USE DEF StopTyped
<1>0. UNCHANGED <<market, broker, hand, store, snap, bars, originals, troubles, told>> /\ pc = "update"
  BY DEF UpdateStop
<1>1. ({last, bars} \ {None} \subseteq Bars)'
  BY <1>0, TypesOfBars DEF market
<1>2. PICK level : /\ Goes(level, "update", 0)
                   /\ book' \in Records
                   /\ level # None => level \in Int
  <2>1. book \in Records
    BY <1>0 DEF InBook
  <2>2. CASE ~Consults(bars)
    <3>1. Goes(None, "update", 0) /\ book' \in Records
      BY <2>1, <2>2 DEF UpdateStop
    <3> QED BY <3>1
  <2>3. CASE Consults(bars)
    <3>1. bars \in Bars /\ bars # None
      BY <2>3, TypesOfBars DEF Consults
    <3>2. PICK m \in MinStops :
            /\ book' = [book EXCEPT !.mfe = Higher(book.mfe, BarPeak(bars, m))]
            /\ Goes(StopFor(bars, Higher(book.mfe, BarPeak(bars, m)), m), "update", 0)
      BY <2>3 DEF UpdateStop
    <3>3. m \in Nat /\ BarPeak(bars, m) \in Int
      BY <3>1, TickAssumption DEF BarPeak, Bars
    <3>4. PICK peak \in Nat : peak = Higher(book.mfe, BarPeak(bars, m))
      BY <2>1, <3>3 DEF Higher, Records
    <3>5. book' \in Records
      BY <2>1, <3>2, <3>4 DEF Records
    <3>6. StopFor(bars, peak, m) # None => StopFor(bars, peak, m) \in Int
      BY <3>1, <3>3, <3>4, StopForIsLevel
    <3> QED BY <3>2, <3>4, <3>5, <3>6
  <2> QED BY <2>2, <2>3
<1>3. request' \in Modifies \cup {None}
  BY <1>2 DEF Goes, Modifies
<1>4. pc' \in {"send", "evaluate"} /\ (pc' = "send" <=> request' # None)
  BY <1>2, NullAssumption DEF Goes, Modifies
<1>5. TypeOK'
  BY <1>0, <1>1, <1>2, <1>3, <1>4 DEF TypeOK, market, broker, hand, store, troubles, Bars, Books, Records
<1> QED BY <1>2, <1>5 DEF InBook

LEMMA SendTypes ==
  ASSUME StopTyped, BrokerTakes \/ BrokerRefuses \/ AnswerLost
  PROVE  StopTyped'
<1> USE DEF StopTyped
<1>0. pc = "send" /\ request \in Modifies /\ UNCHANGED <<market, hand, fill, snap, bars, restarts, told, open>>
  BY DEF BrokerTakes, BrokerRefuses, AnswerLost, Answered, TypeOK, broker
<1>1. ({last, bars} \ {None} \subseteq Bars)'
  BY <1>0, TypesOfBars DEF market
<1>2. PICK ok \in BOOLEAN :
        /\ Answered(ok)
        /\ sl' = sl \/ sl' = request.level
        /\ lost' \in 0 .. MaxTroubles
  <2>1. CASE BrokerTakes
    BY <2>1 DEF BrokerTakes, TypeOK
  <2>2. CASE BrokerRefuses
    BY <2>2 DEF BrokerRefuses, TypeOK, broker
  <2>3. CASE AnswerLost
    <3>1. Answered(FALSE) /\ (sl' = sl \/ sl' = request.level)
      BY <2>3 DEF AnswerLost
    <3>2. lost' \in 0 .. MaxTroubles
      BY <2>3, BoundAssumption DEF AnswerLost, Troubled, TypeOK
    <3> QED BY <3>1, <3>2
  <2> QED BY <2>1, <2>2, <2>3
<1>3. request' = None /\ pc' \in {"update", "evaluate"}
  BY <1>2 DEF Answered
<1>4. {saved', book', originals'} \subseteq Books /\ book' \in Records
  <2>1. request.risk \in Nat /\ book \in Records
    BY <1>0 DEF Modifies, InBook
  <2>2. CASE request.what = "repair" /\ ok
    BY <1>2, <2>1, <2>2, FillIsRecorded DEF Answered, Books, Records
  <2>3. CASE ~(request.what = "repair" /\ ok)
    BY <1>2, <2>1, <2>3 DEF Answered, TypeOK
  <2> QED BY <2>2, <2>3
<1>5. sl' \in Int \cup {None}
  BY <1>0, <1>2 DEF TypeOK, Modifies
<1>6. TypeOK'
  BY <1>0, <1>1, <1>2, <1>3, <1>4, <1>5 DEF TypeOK, market, hand, Bars
<1> QED BY <1>4, <1>6 DEF InBook

LEMMA EndTypes ==
  ASSUME StopTyped, Evaluate \/ Restart
  PROVE  StopTyped'
<1> USE DEF StopTyped
<1>0. UNCHANGED <<market, broker, hands, patches, cfg, saved>> /\ pc' = "idle" /\ snap' = None
  BY DEF Evaluate, Restart, hand, store
<1>1. /\ bars' # None => bars' \in Bars
      /\ last' # None => last' \in Bars
  BY <1>0, TypesOfBars DEF Evaluate, Restart, market
<1>2. ({last, bars} \ {None} \subseteq Bars)'
  BY <1>1
<1>3. /\ {book', originals'} \subseteq Books /\ fill' \in {"due", "noted", "lost"} /\ told' \in Nat
      /\ {lost', restarts'} \subseteq 0 .. MaxTroubles
      /\ request' = None
  <2>1. CASE Evaluate
    <3>1. pc # "send"
      BY <2>1 DEF Evaluate
    <3> QED BY <2>1, <3>1 DEF Evaluate, TypeOK, store, troubles
  <2>2. CASE Restart
    <3>1. restarts' \in 0 .. MaxTroubles
      BY <2>2, BoundAssumption DEF Restart, Troubled, TypeOK
    <3> QED BY <2>2, <3>1 DEF Restart, TypeOK, Books
  <2> QED BY <2>1, <2>2
<1>4. TypeOK'
  BY <1>0, <1>2, <1>3 DEF TypeOK, market, broker, Bars
<1> QED BY <1>0, <1>4 DEF InBook

LEMMA TypedStep ==
  ASSUME StopTyped, [Next]_vars
  PROVE  StopTyped'
<1>1. CASE UNCHANGED vars
  BY <1>1 DEF vars, market, broker, hand, store, memory, troubles, StopTyped, TypeOK, InBook
<1>2. CASE Next
  BY <1>2, MarketTypes, HandTypes, RecordTypes, RepairTypes, UpdateTypes, SendTypes, EndTypes
  DEF Next, PollNext
<1> QED BY <1>1, <1>2

(* Every variable of the stop has its type, whoever moves the stop, at      *)
(* whatever moment of a cycle, and whatever the spread does to the fallback *)
(* risk (_update_stop, _repair_stopless_stop, ExecutionMonitor).            *)
THEOREM StopTypes == Spec => []TypeOK
<1>1. StopTyped => TypeOK
  BY DEF StopTyped
<1> QED BY <1>1, BeginsTyped, TypedStep, PTL DEF Spec

(* What is stored is what is remembered of the fill, and a peak the poll    *)
(* thread has tracked is on that record; of a fill that is not recorded it  *)
(* is on the tracked position, which begins with it.                        *)
PeakInv ==
    /\ StopTyped
    /\ saved = originals
    /\ originals # None => told <= originals.mfe
    /\ originals = None => told <= IF book = None THEN 0 ELSE book.mfe

LEMMA FillKeepsPeak ==
  ASSUME PeakInv, NEW risk \in Nat, NoteFill(risk), told' = told, StopTyped'
  PROVE  PeakInv'
<1>1. book' \in Records /\ originals' \in Records /\ saved' = originals'
  BY FillIsRecorded DEF PeakInv, StopTyped, NoteFill
<1>2. book # None => book \in Records /\ book'.mfe = book.mfe
  BY TypesOfBooks DEF PeakInv, StopTyped, NoteFill, Noted, Records
<1>3. book = None => book'.mfe = 0
  BY DEF NoteFill, Noted, NoBook
<1>4. originals # None => originals \in Records
  BY TypesOfBooks DEF PeakInv, StopTyped
<1>5. originals'.mfe = IF originals = None THEN book'.mfe ELSE Higher(originals.mfe, book'.mfe)
  BY DEF NoteFill, Recorded
<1>6. told \in Nat
  BY DEF PeakInv, StopTyped, TypeOK
<1>7. told <= originals'.mfe
  <2>1. CASE originals = None
    BY <1>1, <1>2, <1>3, <1>5, <1>6, <2>1 DEF PeakInv, Records
  <2>2. CASE originals # None
    BY <1>1, <1>4, <1>5, <1>6, <2>2 DEF PeakInv, Records, Higher
  <2> QED BY <2>1, <2>2
<1>8. originals' # None
  BY <1>1, NullAssumption
<1> QED BY <1>1, <1>7, <1>8 DEF PeakInv

LEMMA ReadKeepsPeak ==
  ASSUME PeakInv, ReadBook, StopTyped'
  PROVE  PeakInv'
<1>1. PICK b \in Records : b = Tracked
  BY TrackedIsRecord DEF PeakInv, StopTyped
<1>2. /\ book' = b /\ originals' = Peaked(b) /\ saved' = PersistsPeak(b)
      /\ told' = Higher(told, b.mfe)
  BY <1>1 DEF ReadBook
<1>3. told \in Nat /\ b.mfe \in Nat /\ b # None
  BY <1>1, NullAssumption DEF PeakInv, StopTyped, TypeOK, Records
<1>4. CASE originals = None
  <2>1. originals' = None /\ saved' = None
    BY <1>2, <1>4 DEF Peaked, PersistsPeak, PeakInv
  <2>2. told <= b.mfe
    <3>1. CASE book = None
      BY <1>3, <1>4, <3>1 DEF PeakInv
    <3>2. CASE book # None
      <4>1. book \in Records /\ live \in Int
        BY <3>2, TypesOfBooks DEF PeakInv, StopTyped, TypeOK
      <4>2. b = [book EXCEPT !.mfe = Higher(Higher(book.mfe, 0), live)]
        BY <1>1, <1>4, <3>2 DEF Tracked
      <4>3. b.mfe = Higher(Higher(book.mfe, 0), live)
        BY <4>1, <4>2 DEF Records
      <4>4. book.mfe <= b.mfe
        BY <4>1, <4>3 DEF Higher, Records
      <4>5. told <= book.mfe
        BY <1>4, <3>2 DEF PeakInv
      <4> QED BY <1>3, <4>1, <4>4, <4>5 DEF Records
    <3> QED BY <3>1, <3>2
  <2> QED BY <1>2, <1>3, <2>1, <2>2 DEF PeakInv, Higher
<1>5. CASE originals # None
  <2>1. originals \in Records /\ saved = originals /\ told <= originals.mfe
    BY <1>5, TypesOfBooks DEF PeakInv, StopTyped
  <2>2. originals' = [originals EXCEPT !.mfe = Higher(originals.mfe, b.mfe)]
    BY <1>2, <1>5 DEF Peaked
  <2>3. originals' \in Records /\ originals'.mfe = Higher(originals.mfe, b.mfe)
    BY <1>3, <2>1, <2>2 DEF Records, Higher
  <2>4. saved' = originals'
    <3>1. CASE b.mfe > originals.mfe
      BY <1>2, <1>5, <3>1 DEF PersistsPeak
    <3>2. CASE ~(b.mfe > originals.mfe)
      <4>1. Higher(originals.mfe, b.mfe) = originals.mfe
        BY <1>3, <2>1, <3>2 DEF Higher, Records
      <4>2. originals' = originals
        BY <2>1, <2>2, <4>1 DEF Records
      <4> QED BY <1>2, <1>5, <2>1, <3>2, <4>2 DEF PersistsPeak
    <3> QED BY <3>1, <3>2
  <2>5. told' <= originals'.mfe
    BY <1>2, <1>3, <2>1, <2>3 DEF Higher, Records
  <2>6. originals' # None
    BY <2>3, NullAssumption
  <2> QED BY <2>4, <2>5, <2>6 DEF PeakInv
<1> QED BY <1>4, <1>5

LEMMA PeakStep ==
  ASSUME PeakInv, [Next]_vars
  PROVE  PeakInv'
<1>0. StopTyped'
  BY TypedStep DEF PeakInv
<1>1. CASE UNCHANGED <<saved, originals, book, told>>
  BY <1>0, <1>1 DEF PeakInv
<1>2. CASE MarketNext \/ HandNext \/ Evaluate \/ UNCHANGED vars
  BY <1>1, <1>2 DEF MarketNext, PriceMoves, BarCloses, StopHit, HandNext, HandMoves, Patch, World,
                    Evaluate, vars, store, memory
<1>3. CASE Book
  BY <1>0, <1>3, FillKeepsPeak, TickAssumption DEF Book
<1>4. CASE ReadBook
  BY <1>0, <1>4, ReadKeepsPeak
<1>5. CASE ReadGone
  BY <1>0, <1>5 DEF ReadGone, PeakInv
<1>6. CASE RepairStop
  <2>1. \/ UNCHANGED <<book, originals, saved>>
        \/ \E risk \in Nat : NoteFill(risk)
    <3>1. PICK atr \in Nat : atr = IF bars = None THEN 0 ELSE bars.atr
      BY TypesOfBars, TypesOfBar DEF PeakInv, StopTyped
    <3>2. \A m \in MinStops : FillRisk(atr, m) \in Nat
      BY <3>1, RiskIsNat, TickAssumption DEF PeakInv, StopTyped
    <3> QED BY <1>6, <3>1, <3>2 DEF RepairStop
  <2>2. told' = told
    BY <1>6 DEF RepairStop
  <2> QED BY <1>0, <1>1, <2>1, <2>2, FillKeepsPeak
<1>7. CASE UpdateStop
  <2>1. UNCHANGED <<originals, saved, told>> /\ book \in Records
    BY <1>7 DEF UpdateStop, store, PeakInv, StopTyped, InBook
  <2>2. book' = book \/ \E x \in Int : book' = [book EXCEPT !.mfe = Higher(book.mfe, x)]
    <3>1. \A m \in MinStops : BarPeak(bars, m) \in Int \/ ~Consults(bars)
      BY TypesOfBars, TickAssumption DEF BarPeak, Bars, Consults, PeakInv, StopTyped
    <3> QED BY <1>7, <3>1 DEF UpdateStop
  <2>3. book' \in Records /\ book.mfe <= book'.mfe
    BY <2>1, <2>2 DEF Records, Higher
  <2>4. book' # None /\ book # None
    BY <2>1, <2>3, NullAssumption
  <2>5. told \in Nat
    BY DEF PeakInv, StopTyped, TypeOK
  <2> QED BY <1>0, <2>1, <2>3, <2>4, <2>5 DEF PeakInv, Records
<1>8. CASE BrokerTakes \/ BrokerRefuses \/ AnswerLost
  <2>1. PICK ok \in BOOLEAN : Answered(ok)
    BY <1>8 DEF BrokerTakes, BrokerRefuses, AnswerLost
  <2>2. told' = told /\ request.risk \in Nat
    BY <1>8, <2>1 DEF Answered, BrokerTakes, BrokerRefuses, AnswerLost, PeakInv, StopTyped,
                      TypeOK, Modifies
  <2>3. NoteFill(request.risk) \/ UNCHANGED <<book, originals, saved>>
    BY <2>1 DEF Answered
  <2> QED BY <1>0, <1>1, <2>2, <2>3, FillKeepsPeak
<1>9. CASE Restart
  BY <1>0, <1>9 DEF Restart, PeakInv, store
<1> QED BY <1>2, <1>3, <1>4, <1>5, <1>6, <1>7, <1>8, <1>9 DEF Next, PollNext

(* The best excursion the poll thread has seen of a position whose fill is  *)
(* on record survives the process, whatever is lost, refused, adopted or    *)
(* restarted: the lock it earned is not lost with the memory of it (track   *)
(* and _persist_originals).                                                 *)
THEOREM PeakSurvives == Spec => []PeakKept
<1>1. Init => PeakInv
  BY BeginsTyped DEF Init, PeakInv
<1>2. PeakInv => PeakKept
  BY DEF PeakInv, PeakKept
<1> QED BY <1>1, <1>2, PeakStep, PTL DEF Spec

-----------------------------------------------------------------------------
LEMMA Begins == Init => LadderInv
<1> SUFFICES ASSUME Init PROVE LadderInv
  OBVIOUS
<1>2. sl \in Int \cup {None} /\ (sl # None => Norm(sl) = sl)
  BY NormIsInt, NormTwice, TickAssumption DEF Init
<1>5. TypeOK
  BY BeginsTyped DEF StopTyped
<1>6. OnGrid /\ NoLower /\ InBook
  BY <1>2 DEF Init, OnGrid, NoLower, InBook
<1> QED BY <1>5, <1>6 DEF LadderInv

(* The market moves nothing that the ladder stands on.                      *)
LEMMA MarketKeeps ==
  ASSUME LadderInv, MarketNext
  PROVE  LadderInv'
<1> USE DEF LadderInv
<1>0. UNCHANGED <<sl, hand, store, pc, memory, troubles, told, side>>
  BY DEF MarketNext, PriceMoves, BarCloses, StopHit, World, broker, market
<1>1. OnGrid' /\ NoLower' /\ InBook'
  BY <1>0 DEF InBook, OnGrid, NoLower, NoHigher, FillRisk, memory, hand
<1>6. TypeOK'
  BY MarketTypes DEF StopTyped
<1> QED BY <1>1, <1>6

LEMMA HandKeeps ==
  ASSUME LadderInv, HandNext, ~HandInCycle
  PROVE  LadderInv'
<1> USE DEF LadderInv
<1>0. UNCHANGED <<market, open, store, pc, memory, troubles, told>>
  BY DEF HandNext, HandMoves, Patch, World, broker
<1>1. TypeOK'
  BY HandTypes DEF StopTyped
<1>2. CASE HandMoves
  <2>1. sl' \in Int \cup {None} /\ (sl' # None => Norm(sl') = sl')
    BY <1>2, PriceAssumption, NormIsInt, NormTwice DEF HandMoves
  <2>2. pc \in {"idle", "evaluate"}
    BY <1>2 DEF HandMoves
  <2>5. OnGrid' /\ NoLower' /\ InBook'
    BY <1>0, <2>1, <2>2 DEF InBook, OnGrid, NoLower, memory
  <2> QED BY <1>1, <2>5
<1>3. CASE Patch
  <2>1. sl' = sl
    BY <1>3 DEF Patch, broker
  <2>2. cfg' \in Configs /\ cfg'.sl_mult = cfg.sl_mult
    BY <1>3 DEF Patch
  <2>4. OnGrid' /\ NoLower' /\ InBook'
    BY <1>0, <2>1, <2>2 DEF InBook, OnGrid, NoLower, NoHigher, FillRisk, memory
  <2> QED BY <1>1, <2>4
<1> QED BY <1>2, <1>3 DEF HandNext

(* The ticket's record is written between the cycles; the cycle begins with *)
(* the stop as it stands.                                                   *)
LEMMA RecordKeeps ==
  ASSUME LadderInv, Book \/ ReadBook \/ ReadGone
  PROVE  LadderInv'
<1> USE DEF LadderInv
<1>0. UNCHANGED <<market, broker, hand, bars, request, troubles>> /\ pc = "idle"
  BY DEF Book, ReadBook, ReadGone
<1>1. TypeOK' /\ InBook'
  BY RecordTypes DEF StopTyped
<1>2. OnGrid'
  BY <1>0 DEF OnGrid, broker
<1>3. CASE Book \/ ReadGone
  <2>1. NoLower'
    BY <1>0, <1>3 DEF Book, ReadGone, NoLower
  <2> QED BY <1>1, <1>2, <2>1
<1>4. CASE ReadBook
  <2>1. snap' = sl /\ pc' = IF sl = None THEN "repair" ELSE "update"
    BY <1>4 DEF ReadBook
  <2>2. NoLower'
    BY <1>0, <2>1 DEF NoLower, broker
  <2> QED BY <1>1, <1>2, <2>2
<1> QED BY <1>3, <1>4

LEMMA RepairKeeps ==
  ASSUME LadderInv, RepairStop
  PROVE  LadderInv'
<1> USE DEF LadderInv
<1>0. UNCHANGED <<market, broker, hand, fill, snap, bars, troubles, told>> /\ pc = "repair"
  BY DEF RepairStop
<1>1. TypeOK' /\ InBook'
  BY RepairTypes DEF StopTyped
<1>2. sl = None /\ snap = None
  BY <1>0 DEF NoLower
<1>3. PICK m, atr, risk, level :
        /\ m \in Nat /\ atr \in Nat /\ risk \in Nat
        /\ atr = IF bars = None THEN 0 ELSE bars.atr
        /\ risk = FillRisk(atr, m)
        /\ level = RepairLevel(risk, m)
        /\ Goes(level, "repair", risk)
        /\ UNCHANGED <<book, originals, saved>>
  <2>1. PICK m \in MinStops :
          LET risk  == FillRisk(IF bars = None THEN 0 ELSE bars.atr, m)
              level == RepairLevel(risk, m)
          IN IF Adopts(level, risk)
             THEN NoteFill(risk) /\ pc' = "evaluate" /\ UNCHANGED request
             ELSE Goes(level, "repair", risk) /\ UNCHANGED <<book, originals, saved>>
    BY DEF RepairStop
  <2>2. PICK atr \in Nat : atr = IF bars = None THEN 0 ELSE bars.atr
    BY TypesOfBars, TypesOfBar
  <2>3. m \in Nat
    BY TickAssumption
  <2>4. PICK risk \in Nat : risk = FillRisk(atr, m)
    BY <2>2, <2>3, RiskIsNat
  <2>5. ~Adopts(RepairLevel(risk, m), risk)
    BY <1>2 DEF Adopts
  <2> QED BY <2>1, <2>2, <2>3, <2>4, <2>5
<1>4. level = None \/ (level \in Int /\ Norm(level) = level /\ level <= Norm(-risk))
  BY <1>3, RepairOnGrid
<1>5. level # None /\ bars # None => level <= Norm(-FillRisk(bars.atr, 0))
  <2> SUFFICES ASSUME level # None, bars # None PROVE level <= Norm(-FillRisk(bars.atr, 0))
    OBVIOUS
  <2>1. PICK least \in Nat : least = FillRisk(atr, 0) /\ risk >= least
    BY <1>3, RiskIsNat
  <2>2. Norm(-risk) <= Norm(-least)
    BY <1>3, <2>1, NormClimbs
  <2> QED BY <1>3, <1>4, <2>1, <2>2, NormIsInt
<1>7. pc' \in {"send", "update"} /\ (pc' = "send" <=> request' # None)
  BY <1>3, <1>4, NullAssumption DEF Goes, Modifies
<1>9. OnGrid'
  BY <1>0, <1>2, <1>3, <1>4 DEF OnGrid, Goes, broker
<1>10. NoLower'
  BY <1>0, <1>2, <1>3, <1>5, <1>7 DEF NoLower, NoHigher, Goes, broker, FillRisk, hand
<1> QED BY <1>1, <1>9, <1>10

\* The fallback risk of a fill nobody remembers does not depend on the spread.
Wide == \A m \in MinStops, a \in Atrs, c \in Configs : m <= a * c.sl_mult

(* What the update sends is not below what stands at the broker: not below  *)
(* the stop it read, and not below a repair whose answer was lost.          *)
LEMMA UpdateSends ==
  ASSUME LadderInv, Wide, pc = "update", bars # None, NEW m \in MinStops, NEW peak \in Int,
         NEW level, level = StopFor(bars, peak, m), level # None
  PROVE  level \in Int /\ Norm(level) = level /\ (sl # None => level >= sl)
<1> USE DEF LadderInv
<1>1. bars \in Bars /\ bars.atr \in Nat /\ bars.atr \in Atrs /\ m \in Nat
  BY TypesOfBars, TypesOfBar, TickAssumption DEF Bars
<1>2. snap = sl \/ (snap = None /\ sl <= Norm(-FillRisk(bars.atr, 0)))
  BY DEF NoLower, NoHigher
<1>3. snap # None => Norm(snap) = snap
  BY <1>2 DEF OnGrid
<1>4. /\ level \in Int /\ Norm(level) = level
      /\ snap # None => level >= snap
      /\ level >= Norm(-FillRisk(bars.atr, m))
  BY <1>1, <1>3, StopForClimbs
<1>5. m <= bars.atr * cfg.sl_mult
  BY <1>1 DEF Wide, TypeOK
<1>6. PICK least \in Nat : least = FillRisk(bars.atr, m) /\ least = FillRisk(bars.atr, 0)
  BY <1>1, <1>5, RiskIsNat
<1>7. sl # None => sl \in Int
  BY DEF TypeOK
<1>8. Norm(-least) \in Int
  BY <1>6, NormIsInt
<1> QED BY <1>2, <1>4, <1>6, <1>7, <1>8

LEMMA UpdateKeeps ==
  ASSUME LadderInv, UpdateStop, Wide
  PROVE  LadderInv'
<1> USE DEF LadderInv
<1>0. UNCHANGED <<market, broker, hand, store, snap, bars, originals, troubles, told>> /\ pc = "update"
  BY DEF UpdateStop
<1>1. TypeOK' /\ InBook'
  BY UpdateTypes DEF StopTyped
<1>2. PICK level : /\ Goes(level, "update", 0)
                   /\ level = None \/ (level \in Int /\ Norm(level) = level /\ (sl # None => level >= sl))
  <2>1. book \in Records
    BY <1>0 DEF InBook
  <2>2. CASE ~Consults(bars)
    <3>1. Goes(None, "update", 0)
      BY <2>2 DEF UpdateStop
    <3> QED BY <3>1
  <2>3. CASE Consults(bars)
    <3>1. bars \in Bars /\ bars # None
      BY <2>3, TypesOfBars DEF Consults
    <3>0. PICK m \in MinStops :
            /\ book' = [book EXCEPT !.mfe = Higher(book.mfe, BarPeak(bars, m))]
            /\ Goes(StopFor(bars, Higher(book.mfe, BarPeak(bars, m)), m), "update", 0)
      BY <2>3 DEF UpdateStop
    <3>3. BarPeak(bars, m) \in Int
      BY <3>1, TickAssumption DEF BarPeak, Bars
    <3>4. PICK peak \in Nat : peak = Higher(book.mfe, BarPeak(bars, m))
      BY <2>1, <3>3 DEF Higher, Records
    <3> QED BY <1>0, <3>0, <3>1, <3>4, UpdateSends
  <2> QED BY <2>2, <2>3
<1>4. pc' \in {"send", "evaluate"} /\ (pc' = "send" <=> request' # None)
  BY <1>2, NullAssumption DEF Goes, Modifies
<1>6. OnGrid'
  BY <1>0, <1>2 DEF OnGrid, Goes, broker
<1>7. NoLower'
  BY <1>0, <1>2, <1>4 DEF NoLower, Goes, broker
<1> QED BY <1>1, <1>6, <1>7

(* The answer, whatever it is: of an update nothing is left, of a repair    *)
(* that is not answered the stop may be what was sent.                      *)
LEMMA SendKeeps ==
  ASSUME LadderInv, BrokerTakes \/ BrokerRefuses \/ AnswerLost
  PROVE  LadderInv'
<1> USE DEF LadderInv
<1>0. pc = "send" /\ request \in Modifies /\ UNCHANGED <<market, hand, fill, snap, bars, restarts, told, open>>
  BY DEF BrokerTakes, BrokerRefuses, AnswerLost, Answered, TypeOK, broker
<1>1. TypeOK' /\ InBook'
  BY SendTypes DEF StopTyped
<1>2. PICK ok \in BOOLEAN :
        /\ Answered(ok)
        /\ sl' = sl \/ sl' = request.level
  BY DEF BrokerTakes, BrokerRefuses, AnswerLost, broker
<1>3. request' = None /\ pc' \in {"update", "evaluate"}
      /\ (pc' = "update" => request.what = "repair" /\ ~ok)
  BY <1>2 DEF Answered
<1>5. sl' \in Int \cup {None} /\ (sl' # None => Norm(sl') = sl')
  BY <1>0, <1>2 DEF OnGrid, TypeOK, Modifies
<1>7. OnGrid'
  BY <1>3, <1>5 DEF OnGrid
<1>8. NoLower'
  <2>1. CASE pc' = "evaluate"
    BY <2>1 DEF NoLower
  <2>2. CASE pc' = "update"
    <3>1. UNCHANGED <<book, originals, saved>> /\ request.what = "repair"
      BY <1>2, <1>3, <2>2 DEF Answered
    <3>2. sl = None /\ snap = None /\ NoHigher(request.level)
      BY <1>0, <3>1 DEF NoLower
    <3>3. snap' = None /\ (sl' = None \/ (sl' = request.level /\ NoHigher(sl)'))
      BY <1>0, <1>2, <3>1, <3>2 DEF NoHigher, FillRisk, hand
    <3> QED BY <2>2, <3>3 DEF NoLower
  <2> QED BY <1>3, <2>1, <2>2
<1> QED BY <1>1, <1>7, <1>8

LEMMA CycleEnds ==
  ASSUME LadderInv, Evaluate \/ Restart
  PROVE  LadderInv'
<1> USE DEF LadderInv
<1>0. UNCHANGED <<broker>> /\ pc' = "idle" /\ snap' = None /\ request' = None
  BY DEF Evaluate, Restart, TypeOK
<1>1. TypeOK' /\ InBook'
  BY EndTypes DEF StopTyped
<1>2. OnGrid' /\ NoLower'
  BY <1>0 DEF OnGrid, NoLower, broker
<1> QED BY <1>1, <1>2

LEMMA LadderStep ==
  ASSUME ~HandInCycle, Wide, LadderInv, [Next]_vars
  PROVE  LadderInv'
<1>1. CASE UNCHANGED vars
  BY <1>1 DEF vars, market, broker, hand, store, memory, troubles, LadderInv, TypeOK, OnGrid,
              NoLower, NoHigher, InBook, FillRisk
<1>2. CASE MarketNext
  BY <1>2, MarketKeeps
<1>3. CASE HandNext
  BY <1>3, HandKeeps
<1>4. CASE Book \/ ReadBook \/ ReadGone
  BY <1>4, RecordKeeps
<1>5. CASE RepairStop
  BY <1>5, RepairKeeps
<1>6. CASE UpdateStop
  BY <1>6, UpdateKeeps
<1>7. CASE BrokerTakes \/ BrokerRefuses \/ AnswerLost
  BY <1>7, SendKeeps
<1>8. CASE Evaluate \/ Restart
  BY <1>8, CycleEnds
<1> QED BY <1>1, <1>2, <1>3, <1>4, <1>5, <1>6, <1>7, <1>8 DEF Next, PollNext

(* The type invariant and what stands between the book read of a cycle and  *)
(* its modify: no level off the grid, none below the stop at the broker.    *)
THEOREM LadderInvariant == ~HandInCycle /\ Wide => (Spec => []LadderInv)
<1> SUFFICES ASSUME ~HandInCycle, Wide PROVE Spec => []LadderInv
  OBVIOUS
<1>1. LadderInv /\ [Next]_vars => LadderInv'
  BY LadderStep
<1> QED BY <1>1, Begins, PTL DEF Spec

(* Every step is a rung, the attaching of a stop, a hand or the end.        *)
LEMMA StepOfLadder ==
  ASSUME LadderInv, [Next]_vars
  PROVE  [Ladder!Next]_(Ladder!ladder)
<1> USE DEF LadderInv, Ladder!Next, Ladder!ladder
<1>1. CASE BrokerTakes \/ BrokerRefuses \/ AnswerLost
  <2>1. pc = "send" /\ request \in Modifies /\ UNCHANGED <<open, hands>>
    BY <1>1 DEF BrokerTakes, BrokerRefuses, AnswerLost, Answered, TypeOK, broker, hand
  <2>2. sl' = sl \/ (open /\ sl' = request.level)
    BY <1>1 DEF BrokerTakes, BrokerRefuses, AnswerLost, Legal, broker
  <2>3. request.level \in Int /\ request.what \in {"repair", "update"}
    BY <2>1 DEF Modifies
  <2>4. sl = None \/ (sl \in Int /\ request.level >= sl)
    BY <2>1, <2>3 DEF NoLower, TypeOK
  <2>5. CASE sl' = sl
    BY <2>1, <2>5
  <2>6. CASE sl' = request.level /\ open /\ sl' # sl
    <3>1. sl = None => Ladder!Attach
      BY <2>1, <2>3, <2>6 DEF Ladder!Attach
    <3>2. sl # None => Ladder!Climb
      BY <2>1, <2>3, <2>4, <2>6 DEF Ladder!Climb
    <3> QED BY <3>1, <3>2
  <2> QED BY <2>2, <2>5, <2>6
<1>2. CASE StopHit
  BY <1>2 DEF StopHit, hand, Ladder!End
<1>3. CASE HandMoves
  <2>1. sl' \in Int \cup {None}
    BY <1>3, PriceAssumption, NormIsInt DEF HandMoves
  <2> QED BY <1>3, <2>1 DEF HandMoves, Ladder!Hand
<1>4. CASE UNCHANGED vars \/ PriceMoves \/ BarCloses \/ Patch \/ Book \/ ReadBook \/ ReadGone
           \/ RepairStop \/ UpdateStop \/ Evaluate \/ Restart
  BY <1>4 DEF vars, PriceMoves, BarCloses, Patch, Book, ReadBook, ReadGone, RepairStop, UpdateStop,
              Evaluate, Restart, broker, hand
<1> QED BY <1>1, <1>2, <1>3, <1>4 DEF Next, MarketNext, HandNext, PollNext

(* The stop is a ladder, for every price, swing, rule, overlay and tick:    *)
(* refused, lost and repeated modifies, edits of the overlays and restarts  *)
(* included, as long as no hand moves the stop in the middle of a cycle and *)
(* the fallback for a forgotten fill does not follow the spread.            *)
THEOREM RatchetSafe == ~HandInCycle /\ Wide => (Spec => Ratchet)
<1> SUFFICES ASSUME ~HandInCycle, Wide PROVE Spec => Ratchet
  OBVIOUS
<1>1. Init => Ladder!Init
  BY NormIsInt, TickAssumption DEF Init, Ladder!Init
<1>2. LadderInv /\ [Next]_vars => [Ladder!Next]_(Ladder!ladder)
  BY StepOfLadder
<1>3. Spec => []LadderInv
  BY LadderInvariant
<1> QED BY <1>1, <1>2, <1>3, PTL DEF Spec, Ratchet, Ladder!Spec

-----------------------------------------------------------------------------
\* A forgotten fill is measured by no less than the risk it was opened with,
\* and no stop distance is rounded away.
Steady ==
    /\ \A a \in Atrs, c \in Configs : Risk <= a * c.sl_mult
    /\ \A r \in {Risk} \cup (MinStops \ {0}) : Norm(-r) < 0

(* The store knows the risk that memory knows, and every record of the      *)
(* ticket carries the same one; only a fill that is due has none yet.       *)
OneRisk ==
    /\ saved = None <=> originals = None
    /\ originals # None => originals.risk > 0 /\ saved.risk = originals.risk
    /\ originals # None /\ book # None => book.risk = originals.risk
    /\ fill = "due" /\ originals # None => book \in Records
    /\ pc = "send" /\ request.what = "repair" => request.risk > 0

(* Nothing on record is better than the best the chart has shown.           *)
BestYet ==
    /\ 0 <= best /\ live + Gap <= best /\ high <= best
    /\ \A b \in {last, bars} : b # None /\ b.n > 0 => b.close <= best /\ b.high <= best
    /\ \A b \in {book, originals, saved} : b # None => b.mfe <= best

Earned == \E t \in Thresholds(cfg, Risk) : best >= t

(* No other risk than the opening one is on record.                         *)
OwnRisk == IF originals = None THEN open ELSE originals.risk = Risk

(* As long as that is so, and neither hand nor edit interfered, a level in  *)
(* profit at the broker or on its way there is earned.                      *)
ProfitEarned ==
    hands = 0 /\ patches = 0 /\ OwnRisk =>
        /\ sl # None /\ sl >= 0 => Earned
        /\ request # None /\ request.level >= 0 => Earned

EarnedInv == LadderInv /\ OneRisk /\ BestYet /\ ProfitEarned

LEMMA EarnedBegins == Steady /\ Init => OneRisk /\ BestYet /\ ProfitEarned
<1> SUFFICES ASSUME Steady, Init PROVE OneRisk /\ BestYet /\ ProfitEarned
  OBVIOUS
<1>1. OneRisk
  BY DEF Init, OneRisk
<1>2. last.n = 0 /\ Gap \in Nat
  BY TickAssumption DEF Init, SignalBars, Gap
<1>3. BestYet
  BY <1>2 DEF Init, BestYet
<1>4. ProfitEarned
  BY NormIsInt, TickAssumption DEF Init, ProfitEarned, Steady
<1> QED BY <1>1, <1>3, <1>4

(* What is earned stays earned.                                             *)
LEMMA EarnedStays ==
  ASSUME Earned, LadderInv, best' >= best, best \in Int, best' \in Int, cfg' = cfg
  PROVE  Earned'
<1>1. PICK t \in Thresholds(cfg, Risk) : best >= t
  BY DEF Earned
<1>2. Thresholds(cfg, Risk)' = Thresholds(cfg, Risk)
  BY DEF Thresholds
<1>3. t \in Int
  <2>1. \A k \in cfg.locks : k.at_r * Risk \in Int
    BY TypesOfConfig, TickAssumption DEF LadderInv
  <2>2. \A x \in {cfg.be_at, cfg.harvest_at} : x * Risk \in Int
    BY TypesOfConfig, TickAssumption DEF LadderInv
  <2>3. ASSUME NEW a \in Atrs PROVE a * cfg.start \in Int
    <3>1. a \in Nat /\ cfg.start \in Nat
      BY TypesOfConfig, PriceAssumption DEF LadderInv
    <3> QED BY <3>1
  <2> QED BY <2>1, <2>2, <2>3 DEF Thresholds
<1> QED BY <1>1, <1>2, <1>3 DEF Earned

(* A rule that wants a level has seen the chart go as far as it asks.       *)
LEMMA WantedIsEarned ==
  ASSUME LadderInv, BestYet, bars # None, bars.n > 0,
         NEW risk \in Nat, Risk <= risk, NEW peak \in Int, peak <= best,
         Wanted(bars, risk, peak) # {}
  PROVE  Earned
<1> DEFINE close == bars.close
<1>1. /\ bars \in Bars /\ close \in Int /\ close <= best /\ best \in Int
      /\ bars.atr \in Nat /\ bars.atr \in Atrs
  BY TypesOfBars, TypesOfBar DEF LadderInv, BestYet, TypeOK, Bars
<1>2. Risk \in Nat
  BY TickAssumption
<1>3. \A x \in Nat : x * Risk <= x * risk /\ x * Risk \in Int /\ x * risk \in Int
  BY <1>2, Scales
<1>4. ASSUME NEW x \in Nat, x # 0, x = cfg.be_at \/ x = cfg.harvest_at, close >= x * risk
      PROVE  Earned
  <2>1. x * Risk \in Thresholds(cfg, Risk)
    BY <1>4 DEF Thresholds
  <2>2. best >= x * Risk
    BY <1>1, <1>3, <1>4
  <2> QED BY <2>1, <2>2 DEF Earned
<1>5. CASE cfg.be_at > 0 /\ close >= cfg.be_at * risk
  BY <1>4, <1>5, TypesOfConfig DEF LadderInv
<1>6. CASE TrailArmed(close, bars.atr, risk)
  <2>1. CASE cfg.start > 0 /\ close >= bars.atr * cfg.start
    <3>1. bars.atr * cfg.start \in Thresholds(cfg, Risk)
      BY <1>1 DEF Thresholds
    <3>2. bars.atr * cfg.start \in Int
      BY <1>1, TypesOfConfig DEF LadderInv
    <3> QED BY <1>1, <2>1, <3>1, <3>2 DEF Earned
  <2>2. CASE HarvestOn(close, risk)
    BY <1>4, <2>2, TypesOfConfig DEF HarvestOn, LadderInv
  <2> QED BY <1>6, <2>1, <2>2 DEF TrailArmed
<1>7. CASE LockLevels(close, risk, peak) # {}
  <2>1. PICK k \in cfg.locks : (IF peak > 0 THEN Higher(close, peak) ELSE close) >= k.at_r * risk
    BY <1>7 DEF LockLevels
  <2>2. k.at_r \in Nat
    BY TypesOfConfig DEF LadderInv
  <2>3. (IF peak > 0 THEN Higher(close, peak) ELSE close) <= best
    BY <1>1 DEF Higher
  <2>4. best >= k.at_r * Risk
    BY <1>1, <1>3, <2>1, <2>2, <2>3 DEF Higher
  <2>5. k.at_r * Risk \in Thresholds(cfg, Risk)
    BY DEF Thresholds
  <2> QED BY <2>4, <2>5 DEF Earned
<1> QED BY <1>5, <1>6, <1>7 DEF Wanted

(* While nothing but the opening risk is on record it is the least unit.    *)
LEMMA UnitIsRisk ==
  ASSUME LadderInv, OneRisk, OwnRisk, Steady, NEW a \in Atrs, NEW m \in Nat
  PROVE  FillRisk(a, m) \in Nat /\ Risk <= FillRisk(a, m)
<1>1. a \in Nat /\ Risk \in Nat
  BY PriceAssumption, TickAssumption
<1>2. FillRisk(a, m) \in Nat
  BY <1>1, RiskIsNat DEF LadderInv
<1>3. PICK x \in Nat : x = a * cfg.sl_mult /\ Risk <= x
  BY <1>1, TypesOfConfig DEF LadderInv, Steady, TypeOK
<1>4. CASE originals = None
  BY <1>1, <1>3, <1>4 DEF FillRisk, Higher
<1>5. CASE originals # None
  BY <1>1, <1>5 DEF FillRisk, OneRisk, OwnRisk
<1> QED BY <1>2, <1>4, <1>5

(* A step that neither sends nor records anything new changes nothing of    *)
(* what is earned.                                                          *)
LEMMA ProfitStays ==
  ASSUME LadderInv, LadderInv', ProfitEarned, best' >= best,
         hands' = 0 /\ patches' = 0 => hands = 0 /\ patches = 0 /\ cfg' = cfg,
         OwnRisk' => OwnRisk,
         hands' = 0 => sl' = sl \/ sl' = None \/ (request # None /\ sl' = request.level),
         request' = request \/ request' = None
  PROVE  ProfitEarned'
<1> SUFFICES ASSUME hands' = 0, patches' = 0, OwnRisk',
                    \/ sl' # None /\ sl' >= 0
                    \/ request' # None /\ request'.level >= 0
             PROVE  Earned'
  BY DEF ProfitEarned
<1>1. Earned
  BY DEF ProfitEarned
<1>2. best \in Int /\ best' \in Int
  BY DEF LadderInv, TypeOK
<1> QED BY <1>1, <1>2, EarnedStays

LEMMA MarketEarns ==
  ASSUME EarnedInv, LadderInv', MarketNext
  PROVE  EarnedInv'
<1> USE DEF EarnedInv
<1>0. UNCHANGED <<sl, hand, store, pc, memory, troubles, told, side>> /\ (open' => open)
  BY DEF MarketNext, PriceMoves, BarCloses, StopHit, World, broker, market
<1>1. OneRisk'
  BY <1>0 DEF OneRisk, store, memory
<1>2. {live, high, best} \subseteq Int /\ Gap \in Nat /\ Gap' = Gap /\ live' \in Int
      /\ {live', high', best'} \subseteq Int
  BY <1>0, TickAssumption DEF Gap, LadderInv, TypeOK
<1>3. best' >= best /\ live' + Gap <= best' /\ high' <= best'
  <2>1. CASE PriceMoves
    BY <2>1, <1>2 DEF PriceMoves, Higher, BestYet
  <2>2. CASE BarCloses
    BY <2>2, <1>2 DEF BarCloses, BestYet
  <2>3. CASE StopHit
    BY <2>3, <1>2 DEF StopHit, market, BestYet
  <2> QED BY <2>1, <2>2, <2>3 DEF MarketNext
<1>4. last' = last \/ (last'.close = live + Gap /\ last'.high = high)
  BY DEF MarketNext, PriceMoves, BarCloses, StopHit, market
<1>5. BestYet'
  <2>1. ASSUME NEW b \in {last', bars'}, b # None, b.n > 0
        PROVE  b.close <= best' /\ b.high <= best'
    <3>1. CASE b \in {last, bars}
      <4>1. b.close <= best /\ b.high <= best
        BY <2>1, <3>1 DEF BestYet
      <4>2. b \in Bars
        BY <2>1, <3>1, TypesOfBars DEF LadderInv
      <4> QED BY <4>1, <4>2, <1>2, <1>3 DEF Bars
    <3>2. CASE b \notin {last, bars}
      <4>1. b.close = live + Gap /\ b.high = high
        BY <1>0, <1>4, <2>1, <3>2 DEF memory
      <4> QED BY <4>1, <1>2, <1>3 DEF BestYet
    <3> QED BY <3>1, <3>2
  <2>2. ASSUME NEW b \in {book', originals', saved'}, b # None
        PROVE  b.mfe <= best'
    <3>1. b \in {book, originals, saved}
      BY <1>0, <2>2 DEF memory, store
    <3>2. b.mfe <= best /\ b \in Records
      BY <2>2, <3>1, TypesOfBooks DEF BestYet, LadderInv
    <3> QED BY <3>2, <1>2, <1>3 DEF Records
  <2>3. 0 <= best'
    BY <1>2, <1>3 DEF BestYet
  <2> QED BY <1>2, <1>3, <2>1, <2>2, <2>3 DEF BestYet
<1>6. ProfitEarned'
  BY <1>0, <1>3, ProfitStays DEF hand, memory, OwnRisk
<1> QED BY <1>1, <1>5, <1>6

LEMMA HandEarns ==
  ASSUME EarnedInv, LadderInv', HandNext
  PROVE  EarnedInv'
<1> USE DEF EarnedInv
<1>0. UNCHANGED <<market, open, store, pc, memory, troubles, told>>
  BY DEF HandNext, HandMoves, Patch, World, broker
<1>1. OneRisk'
  BY <1>0 DEF OneRisk, store, memory
<1>2. BestYet'
  BY <1>0 DEF BestYet, Gap, market, memory, store
<1>3. ~(hands' = 0 /\ patches' = 0)
  BY DEF HandNext, HandMoves, Patch, LadderInv, TypeOK
<1>4. ProfitEarned'
  BY <1>3 DEF ProfitEarned
<1> QED BY <1>1, <1>2, <1>4

(* The record keeps the risk it has.                                        *)
LEMMA NoteKeepsRisk ==
  ASSUME LadderInv, OneRisk, BestYet, NEW risk \in Nat \ {0}, NoteFill(risk),
         originals # None => book \in Records
  PROVE  /\ {book', originals', saved'} \subseteq Records /\ saved' = originals'
         /\ originals'.risk = book'.risk /\ originals'.risk > 0
         /\ originals # None => originals'.risk = originals.risk
         /\ book'.mfe <= best /\ originals'.mfe <= best
<1>1. {book', originals', saved'} \subseteq Records /\ saved' = originals'
  BY FillIsRecorded DEF LadderInv, NoteFill
<1>2. book # None => book \in Records
  BY TypesOfBooks DEF LadderInv
<1>3. book' = Noted(book, risk) /\ originals' = Recorded(book')
  BY DEF NoteFill
<1>4. originals # None => originals \in Records
  BY TypesOfBooks DEF LadderInv
<1>5. book'.risk > 0 /\ (originals # None => book'.risk = originals.risk)
  BY <1>2, <1>3, <1>4, NullAssumption DEF Noted, NoBook, OneRisk, Records
<1>6. best \in Int
  BY DEF LadderInv, TypeOK
<1>7. book'.mfe <= best
  BY <1>2, <1>3, <1>6 DEF Noted, NoBook, BestYet, Records
<1>8. originals'.risk = book'.risk /\ originals'.mfe <= best
  BY <1>1, <1>3, <1>4, <1>6, <1>7 DEF Recorded, Higher, BestYet, Records
<1> QED BY <1>1, <1>5, <1>7, <1>8

LEMMA RecordEarns ==
  ASSUME EarnedInv, LadderInv', Book \/ ReadBook \/ ReadGone
  PROVE  EarnedInv'
<1> USE DEF EarnedInv
<1>0. UNCHANGED <<market, broker, hand, bars, request, troubles>> /\ pc = "idle" /\ pc' # "send"
  BY DEF Book, ReadBook, ReadGone
<1>1. UNCHANGED <<best, live, high, last, bars, side, Gap>>
  BY <1>0 DEF market, Gap
<1>2. best \in Int /\ live \in Int /\ Gap \in Nat /\ 0 <= best /\ live <= best
  BY TickAssumption DEF LadderInv, TypeOK, BestYet, Gap
<1>3. /\ book # None => book \in Records /\ book.mfe <= best
      /\ originals # None => originals \in Records /\ originals.mfe <= best
      /\ saved # None => saved \in Records /\ saved.mfe <= best
  BY TypesOfBooks DEF LadderInv, BestYet
<1>4. SUFFICES /\ OneRisk'
               /\ \A b \in {book', originals', saved'} : b # None => b.mfe <= best
               /\ OwnRisk' => OwnRisk
  <2>1. BestYet'
    BY <1>1, <1>4 DEF BestYet
  <2>2. ProfitEarned'
    BY <1>0, <1>1, <1>2, <1>4, ProfitStays DEF hand, broker
  <2> QED BY <1>4, <2>1, <2>2
<1>5. CASE Book
  <2>1. NoteFill(Risk) /\ open /\ fill = "due" /\ fill' = "noted"
    BY <1>5 DEF Book
  <2>2. originals # None => book \in Records
    BY <2>1 DEF OneRisk
  <2>3. /\ {book', originals', saved'} \subseteq Records /\ saved' = originals'
        /\ originals'.risk = book'.risk /\ originals'.risk > 0
        /\ originals # None => originals'.risk = originals.risk
        /\ book'.mfe <= best /\ originals'.mfe <= best
    BY <2>1, <2>2, NoteKeepsRisk, TickAssumption
  <2>4. OneRisk'
    BY <1>0, <2>1, <2>3 DEF OneRisk
  <2>5. OwnRisk' => OwnRisk
    BY <2>1, <2>3, NullAssumption DEF OwnRisk
  <2> QED BY <2>3, <2>4, <2>5
<1>6. CASE ReadBook
  <2>1. book' = Tracked /\ book' \in Records
    BY <1>6, TrackedIsRecord DEF ReadBook, LadderInv
  <2>2. open /\ open' = open /\ fill' = fill /\ pc' # "send"
    BY <1>6 DEF ReadBook, broker
  <2>3. originals' = Peaked(book') /\ saved' = PersistsPeak(book')
    BY <1>6 DEF ReadBook
  <2>4. originals # None => /\ originals' \in Records /\ originals'.risk = originals.risk
                            /\ originals'.mfe = Higher(originals.mfe, book'.mfe)
    BY <1>3, <2>1, <2>3 DEF Peaked, Higher, Records
  <2>5. originals = None => originals' = None /\ saved' = None
    BY <2>3 DEF Peaked, PersistsPeak, OneRisk
  <2>6. originals # None => saved' = originals' \/ saved' = saved
    BY <2>3 DEF PersistsPeak
  <2>7. book'.mfe <= best
    <3>1. FirstSight \in Records /\ FirstSight.mfe = 0
      BY TypesOfBooks DEF LadderInv, TypeOK, FirstSight, NoBook, Higher, Records
    <3>2. PICK b \in Records : b = (IF book = None THEN FirstSight ELSE book) /\ b.mfe <= best
      BY <1>2, <1>3, <3>1
    <3>3. PICK kept \in Nat : kept = (IF originals = None THEN 0 ELSE originals.mfe) /\ kept <= best
      BY <1>2, <1>3 DEF Records
    <3>4. Tracked = [b EXCEPT !.mfe = Higher(Higher(b.mfe, kept), live)]
      BY <3>2, <3>3 DEF Tracked
    <3>5. Tracked.mfe = Higher(Higher(b.mfe, kept), live)
      BY <3>4 DEF Records
    <3> QED BY <1>2, <2>1, <3>2, <3>3, <3>5 DEF Higher, Records
  <2>8. originals # None => book'.risk = originals.risk
    <3>1. SUFFICES ASSUME originals # None PROVE book'.risk = originals.risk
      OBVIOUS
    <3>2. originals.risk > 0
      BY <3>1 DEF OneRisk
    <3>3. CASE book = None
      BY <1>3, <2>1, <3>1, <3>2, <3>3 DEF Tracked, FirstSight, NoBook
    <3>4. CASE book # None
      BY <1>3, <2>1, <3>1, <3>4 DEF Tracked, OneRisk, Records
    <3> QED BY <3>3, <3>4
  <2>9. OneRisk'
    BY <1>3, <2>1, <2>2, <2>4, <2>5, <2>6, <2>8, NullAssumption DEF OneRisk, Records
  <2>10. \A b \in {book', originals', saved'} : b # None => b.mfe <= best
    BY <1>2, <1>3, <2>1, <2>4, <2>5, <2>6, <2>7, NullAssumption DEF Higher, Records, OneRisk
  <2>11. OwnRisk' => OwnRisk
    BY <2>2, <2>4, <2>5, NullAssumption DEF OwnRisk, Records
  <2> QED BY <2>9, <2>10, <2>11
<1>7. CASE ReadGone
  <2>1. ~open /\ open' = open /\ book' = None /\ originals' = None /\ saved' = None /\ fill' = "lost"
    BY <1>7 DEF ReadGone, broker
  <2>2. OneRisk' /\ ~OwnRisk'
    BY <1>0, <2>1 DEF OneRisk, OwnRisk
  <2> QED BY <2>1, <2>2
<1> QED BY <1>5, <1>6, <1>7

(* A repair asks for the stop the trade was opened with, below the entry.   *)
LEMMA RepairEarns ==
  ASSUME EarnedInv, LadderInv', RepairStop, Steady
  PROVE  EarnedInv'
<1> USE DEF EarnedInv
<1>0. UNCHANGED <<market, broker, hand, fill, snap, bars, troubles, told>> /\ pc = "repair"
  BY DEF RepairStop
<1>1. sl = None
  BY <1>0 DEF LadderInv, NoLower
<1>2. PICK m \in MinStops :
        LET risk  == FillRisk(IF bars = None THEN 0 ELSE bars.atr, m)
            level == RepairLevel(risk, m)
        IN IF Adopts(level, risk)
           THEN NoteFill(risk) /\ pc' = "evaluate" /\ UNCHANGED request
           ELSE Goes(level, "repair", risk) /\ UNCHANGED <<book, originals, saved>>
  BY DEF RepairStop
<1>3. m \in Nat
  BY TickAssumption
<1>4. PICK atr \in Nat : atr = (IF bars = None THEN 0 ELSE bars.atr) /\ (bars # None => atr \in Atrs)
  BY TypesOfBars, TypesOfBar DEF LadderInv, Bars
<1>5. PICK risk \in Nat : risk = FillRisk(atr, m)
  BY <1>3, <1>4, RiskIsNat DEF LadderInv
<1>6. PICK level : /\ level = RepairLevel(risk, m)
                   /\ Goes(level, "repair", risk)
                   /\ UNCHANGED <<book, originals, saved>>
  BY <1>1, <1>2, <1>4, <1>5 DEF Adopts
<1>7. pc' = "send" => request' # None
  BY DEF LadderInv, TypeOK
<1>8. OneRisk'
  <2>1. level # None => risk > 0
    BY <1>6 DEF RepairLevel
  <2>2. pc' = "send" => level # None /\ request'.risk = risk
    BY <1>6, <1>7 DEF Goes
  <2> QED BY <1>0, <1>6, <2>1, <2>2 DEF OneRisk
<1>9. BestYet'
  BY <1>0, <1>6 DEF BestYet, Gap, market
<1>10. ASSUME OwnRisk, level # None PROVE level < 0
  <2>1. level \in Int /\ level <= Norm(-risk) /\ risk > 0
    BY <1>3, <1>5, <1>6, <1>10, RepairOnGrid DEF LadderInv, RepairLevel
  <2>2. CASE originals # None \/ bars # None
    <3>1. Risk <= risk
      <4>1. CASE originals # None
        BY <1>5, <2>1, <4>1, <1>10, TickAssumption DEF OwnRisk, FillRisk, OneRisk
      <4>2. CASE bars # None
        BY <1>3, <1>4, <1>5, <1>10, <4>2, UnitIsRisk
      <4> QED BY <2>2, <4>1, <4>2
    <3>2. Norm(-risk) <= Norm(-Risk)
      BY <3>1, NormClimbs, TickAssumption
    <3>3. Norm(-Risk) < 0
      BY DEF Steady
    <3> QED BY <2>1, <3>2, <3>3, NormIsInt, TickAssumption
  <2>3. CASE originals = None /\ bars = None
    <3>1. PICK x \in Nat : x = atr * cfg.sl_mult /\ x = 0
      BY <1>4, <2>3, TypesOfConfig DEF LadderInv
    <3>2. risk = m
      BY <1>3, <1>5, <2>3, <3>1 DEF FillRisk, Higher
    <3>3. Norm(-risk) < 0
      BY <2>1, <3>2 DEF Steady
    <3> QED BY <2>1, <3>3, NormIsInt
  <2> QED BY <2>2, <2>3
<1>11. ProfitEarned'
  <2> SUFFICES ASSUME OwnRisk', request' # None PROVE ~(request'.level >= 0)
    BY <1>0, <1>1 DEF ProfitEarned, broker
  <2>1. OwnRisk
    BY <1>0, <1>6 DEF OwnRisk, broker
  <2>2. level # None /\ request'.level = level
    BY <1>6 DEF Goes
  <2>3. level \in Int
    BY <1>3, <1>5, <1>6, <2>2, RepairOnGrid DEF LadderInv
  <2> QED BY <1>10, <2>1, <2>2, <2>3
<1> QED BY <1>8, <1>9, <1>11

LEMMA UpdateEarns ==
  ASSUME EarnedInv, LadderInv', UpdateStop, Steady
  PROVE  EarnedInv'
<1> USE DEF EarnedInv
<1>0. UNCHANGED <<market, broker, hand, store, snap, bars, originals, troubles, told>> /\ pc = "update"
  BY DEF UpdateStop
<1>1. book \in Records /\ book.mfe <= best /\ best \in Int /\ 0 <= best
  BY <1>0, NullAssumption DEF LadderInv, InBook, BestYet, TypeOK
<1>2. request = None
  BY <1>0 DEF LadderInv, TypeOK
<1>3. PICK level : /\ Goes(level, "update", 0)
                   /\ book' \in Records /\ book'.risk = book.risk /\ book'.mfe <= best
                   /\ OwnRisk /\ level # None => Earned
  <2>1. CASE ~Consults(bars)
    <3>1. Goes(None, "update", 0) /\ book' = book
      BY <2>1 DEF UpdateStop
    <3> QED BY <1>1, <3>1
  <2>2. CASE Consults(bars)
    <3>1. bars \in Bars /\ bars # None /\ bars.n > 0
      BY <2>2, TypesOfBars DEF Consults, LadderInv
    <3>0. PICK m \in MinStops :
            /\ book' = [book EXCEPT !.mfe = Higher(book.mfe, BarPeak(bars, m))]
            /\ Goes(StopFor(bars, Higher(book.mfe, BarPeak(bars, m)), m), "update", 0)
      BY <2>2 DEF UpdateStop
    <3>2. PICK peak :
            /\ peak = Higher(book.mfe, BarPeak(bars, m))
            /\ book' = [book EXCEPT !.mfe = peak]
            /\ Goes(StopFor(bars, peak, m), "update", 0)
      BY <3>0
    <3>3. m \in Nat /\ bars.high \in Int /\ bars.high <= best
      BY <3>1, TickAssumption DEF Bars, BestYet
    <3>4. BarPeak(bars, m) \in Int /\ BarPeak(bars, m) <= best
      BY <1>1, <3>3 DEF BarPeak
    <3>5. peak \in Nat /\ peak <= best
      BY <1>1, <3>2, <3>4 DEF Higher, Records
    <3>6. book' \in Records /\ book'.risk = book.risk /\ book'.mfe <= best
      BY <1>1, <3>2, <3>5 DEF Records
    <3>7. ASSUME OwnRisk, StopFor(bars, peak, m) # None PROVE Earned
      <4>1. bars.atr \in Atrs
        BY <3>1 DEF Bars
      <4>2. PICK unit \in Nat : unit = FillRisk(bars.atr, m) /\ Risk <= unit
        BY <3>3, <3>7, <4>1, UnitIsRisk
      <4>3. Wanted(bars, unit, peak) # {}
        BY <3>7, <4>2 DEF StopFor
      <4> QED BY <3>1, <3>5, <4>2, <4>3, WantedIsEarned
    <3> QED BY <3>2, <3>6, <3>7
  <2> QED BY <2>1, <2>2
<1>4. OneRisk'
  <2>1. pc' = "send" => request'.what = "update"
    <3>1. pc' = "send" => request' # None
      BY DEF LadderInv, TypeOK
    <3> QED BY <1>3, <3>1 DEF Goes
  <2> QED BY <1>0, <1>1, <1>3, <2>1, NullAssumption DEF OneRisk, store
<1>5. BestYet'
  BY <1>0, <1>3 DEF BestYet, Gap, market, store
<1>6. ProfitEarned'
  <2>1. request' = None \/ level # None
    BY <1>3 DEF Goes
  <2>2. Earned' <=> Earned
    BY <1>0 DEF Earned, Thresholds, market, hand
  <2>3. OwnRisk' <=> OwnRisk
    BY <1>0 DEF OwnRisk, broker
  <2> QED BY <1>0, <1>3, <2>1, <2>2, <2>3 DEF ProfitEarned, broker, hand
<1> QED BY <1>4, <1>5, <1>6

LEMMA SendEarns ==
  ASSUME EarnedInv, LadderInv', BrokerTakes \/ BrokerRefuses \/ AnswerLost
  PROVE  EarnedInv'
<1> USE DEF EarnedInv
<1>0. /\ pc = "send" /\ request \in Modifies /\ request # None /\ request' = None
      /\ UNCHANGED <<market, hand, fill, snap, bars, restarts, told, open>>
  BY DEF BrokerTakes, BrokerRefuses, AnswerLost, Answered, LadderInv, TypeOK, broker
<1>1. pc' # "send" /\ book \in Records
  BY <1>0 DEF LadderInv, TypeOK, InBook
<1>2. sl' = sl \/ sl' = request.level
  BY DEF BrokerTakes, BrokerRefuses, AnswerLost, broker
<1>3. SUFFICES /\ OneRisk'
               /\ \A b \in {book', originals', saved'} : b # None => b.mfe <= best
               /\ OwnRisk' => OwnRisk
  <2>1. BestYet'
    BY <1>0, <1>3 DEF BestYet, Gap, market
  <2>2. best' = best /\ best \in Int
    BY <1>0 DEF market, LadderInv, TypeOK
  <2>3. ProfitEarned'
    BY <1>0, <1>2, <1>3, <2>2, ProfitStays DEF hand
  <2> QED BY <1>3, <2>1, <2>3
<1>4. CASE UNCHANGED <<book, originals, saved>>
  <2>1. OneRisk' /\ (OwnRisk' <=> OwnRisk)
    BY <1>0, <1>1, <1>4 DEF OneRisk, OwnRisk
  <2> QED BY <1>4, <2>1 DEF BestYet
<1>5. CASE request.what = "repair" /\ NoteFill(request.risk) /\ open
  <2>1. request.risk \in Nat \ {0}
    BY <1>0, <1>5 DEF OneRisk, Modifies
  <2>2. /\ {book', originals', saved'} \subseteq Records /\ saved' = originals'
        /\ originals'.risk = book'.risk /\ originals'.risk > 0
        /\ originals # None => originals'.risk = originals.risk
        /\ book'.mfe <= best /\ originals'.mfe <= best
    BY <1>1, <1>5, <2>1, NoteKeepsRisk
  <2>3. OneRisk'
    BY <1>1, <2>2 DEF OneRisk
  <2>4. OwnRisk' => OwnRisk
    BY <1>5, <2>2, NullAssumption DEF OwnRisk
  <2> QED BY <2>2, <2>3, <2>4
<1> QED BY <1>4, <1>5 DEF BrokerTakes, BrokerRefuses, AnswerLost, Answered, Legal

LEMMA EndEarns ==
  ASSUME EarnedInv, LadderInv', Evaluate \/ Restart
  PROVE  EarnedInv'
<1> USE DEF EarnedInv
<1>0. UNCHANGED <<market, broker, hands, patches, cfg, saved>> /\ pc' = "idle"
      /\ (request' = request \/ request' = None)
  BY DEF Evaluate, Restart, hand, store
<1>1. /\ bars' = last \/ bars' = None
      /\ book' = book \/ book' = None
      /\ originals' = originals \/ originals' = saved
  BY DEF Evaluate, Restart
<1>2. OneRisk'
  <2>1. CASE Evaluate
    BY <1>0, <2>1 DEF Evaluate, OneRisk, store
  <2>2. CASE Restart
    BY <1>0, <2>2 DEF Restart, OneRisk
  <2> QED BY <2>1, <2>2
<1>3. BestYet'
  BY <1>0, <1>1 DEF BestYet, Gap, market
<1>4. OwnRisk' <=> OwnRisk
  BY <1>0, <1>1 DEF OwnRisk, OneRisk, broker
<1>5. best' = best /\ best \in Int
  BY <1>0 DEF market, LadderInv, TypeOK
<1>6. ProfitEarned'
  BY <1>0, <1>4, <1>5, ProfitStays DEF broker
<1> QED BY <1>2, <1>3, <1>6

(* A stop in profit is earned: the chart went, after the opening, as far as *)
(* one of the rules asks in units of the opening risk, whatever was refused,*)
(* lost, retried or restarted in between.                                   *)
THEOREM EarnedOnlySafe == ~HandInCycle /\ Wide /\ Steady => (Spec => []EarnedOnly)
<1> SUFFICES ASSUME ~HandInCycle, Wide, Steady PROVE Spec => []EarnedOnly
  OBVIOUS
<1>1. Init => EarnedInv
  BY Begins, EarnedBegins DEF EarnedInv
<1>2. EarnedInv /\ [Next]_vars => EarnedInv'
  <2> SUFFICES ASSUME EarnedInv, [Next]_vars PROVE EarnedInv'
    OBVIOUS
  <2>0. LadderInv'
    BY LadderStep DEF EarnedInv
  <2>1. CASE UNCHANGED vars
    BY <2>0, <2>1 DEF vars, market, broker, hand, store, memory, troubles, EarnedInv, OneRisk, BestYet,
                Gap, ProfitEarned, OwnRisk, Earned, Thresholds
  <2>2. CASE MarketNext
    BY <2>0, <2>2, MarketEarns
  <2>3. CASE HandNext
    BY <2>0, <2>3, HandEarns
  <2>4. CASE Book \/ ReadBook \/ ReadGone
    BY <2>0, <2>4, RecordEarns
  <2>5. CASE RepairStop
    BY <2>0, <2>5, RepairEarns
  <2>6. CASE UpdateStop
    BY <2>0, <2>6, UpdateEarns
  <2>7. CASE BrokerTakes \/ BrokerRefuses \/ AnswerLost
    BY <2>0, <2>7, SendEarns
  <2>8. CASE Evaluate \/ Restart
    BY <2>0, <2>8, EndEarns
  <2> QED BY <2>1, <2>2, <2>3, <2>4, <2>5, <2>6, <2>7, <2>8 DEF Next, PollNext
<1>3. EarnedInv => EarnedOnly
  BY DEF EarnedInv, ProfitEarned, OwnRisk, Earned, EarnedOnly
<1> QED BY <1>1, <1>2, <1>3, PTL DEF Spec

-----------------------------------------------------------------------------
\* One of two numbers is the larger, one the smaller.
LEMMA LargerSmaller ==
    ASSUME NEW x \in Int, NEW y \in Int
    PROVE  /\ Max({x, y}) \in {x, y} /\ Max({x, y}) >= x /\ Max({x, y}) >= y
           /\ Min({x, y}) \in {x, y}
<1>1. \E k \in {x, y} : \A l \in {x, y} : k >= l
  OBVIOUS
<1>2. \E k \in {x, y} : \A l \in {x, y} : k <= l
  OBVIOUS
<1>3. Max({x, y}) \in {x, y} /\ \A l \in {x, y} : Max({x, y}) >= l
  BY <1>1 DEF Max
<1>4. Min({x, y}) \in {x, y}
  BY <1>2 DEF Min
<1> QED BY <1>3, <1>4

\* One of three is the smallest.
LEMMA SmallestOfThree ==
    ASSUME NEW x \in Int, NEW y \in Int, NEW z \in Int
    PROVE  Min({x, y, z}) \in {x, y, z}
<1>1. \E k \in {x, y, z} : \A l \in {x, y, z} : k <= l
  OBVIOUS
<1> QED BY <1>1 DEF Min

-----------------------------------------------------------------------------
(* SpreadCost: what is counted, what is stamped, what a row holds.         *)
Counts == [Readings -> Nat]
Stamps == {0, One} \cup {SpreadScale(hist) : hist \in Counts}
Rows == [life : Nat, stamp : Stamps, enabled : BOOLEAN]

SpreadShape ==
    /\ rows \in [Names -> Rows]
    /\ lives \in [Names -> Nat]
    /\ counts \in [Names -> Counts]
    /\ disk \in [Names -> Counts]
    /\ working \subseteq Names
    /\ leaving \in Names \cup {Nobody}

(* The running cycle works on symbols of the book; the row of a symbol is  *)
(* of the last life of its name; a name that is being deleted is out.      *)
LivesAgree ==
    /\ working \subseteq Live
    /\ \A n \in Live : rows[n].life = lives[n] /\ lives[n] # 0
    /\ leaving \notin Live

(* What is counted is of the present life; a name that is out of the book  *)
(* and forgotten has no counts; the disk never has what memory has not.    *)
CountsAgree ==
    /\ \A n \in Live, c \in Readings : c[2] # lives[n] => counts[n][c] = 0
    /\ \A n \in Names \ Live : n # leaving => counts[n] = NoCounts
    /\ \A n \in Names, c \in Readings : counts[n][c] = 0 => disk[n][c] = 0

SpreadInv == SpreadShape /\ LivesAgree /\ CountsAgree

-----------------------------------------------------------------------------
LEMMA NothingCounted == NoCounts \in Counts
  BY DEF NoCounts, Counts

(* What is kept of the counts of a book.                                   *)
LEMMA PrunedCounts ==
  ASSUME NEW hists \in [Names -> Counts]
  PROVE  /\ Pruned(hists) \in [Names -> Counts]
         /\ \A n \in Live : Pruned(hists)[n] = hists[n]
         /\ \A n \in Names \ Live : Pruned(hists)[n] = NoCounts
  BY NothingCounted DEF Pruned, Live

LEMMA Started == SpreadInit => SpreadInv
<1> SUFFICES ASSUME SpreadInit PROVE SpreadInv
  OBVIOUS
<1>1. Nowhere \in Rows
  BY DEF Nowhere, Rows, Stamps
<1>2. Live = {}
  BY DEF SpreadInit, Live
<1>3. SpreadShape
  BY <1>1, NothingCounted DEF SpreadInit, SpreadShape
<1>4. LivesAgree
  BY <1>2 DEF SpreadInit, LivesAgree
<1>5. CountsAgree
  BY <1>2 DEF SpreadInit, CountsAgree, NoCounts
<1> QED
  BY <1>3, <1>4, <1>5 DEF SpreadInv

LEMMA Kept ==
  ASSUME SpreadInv, [SpreadNext]_spreadVars, ~Overlaps, ~DiskFails, ~Crashes
  PROVE  SpreadInv'
<1> USE DEF SpreadInv
<1>1. CASE UNCHANGED spreadVars
  BY <1>1 DEF spreadVars, SpreadShape, LivesAgree, CountsAgree, Live
<1>2. CASE CycleStarts
  BY <1>2 DEF CycleStarts, SpreadShape, LivesAgree, CountsAgree, Live
<1>3. CASE Flush
  <2>1. counts' = Pruned(counts) /\ disk' = Pruned(counts) /\ Live' = Live
    BY <1>3 DEF Flush, Written, Live
  <2>2. SpreadShape'
    BY <1>3, <2>1, PrunedCounts DEF Flush, SpreadShape
  <2>3. LivesAgree'
    BY <1>3, <2>1 DEF Flush, LivesAgree, Live
  <2>4. CountsAgree'
    BY <1>3, <2>1, PrunedCounts DEF Flush, SpreadShape, CountsAgree
  <2> QED
    BY <2>2, <2>3, <2>4
<1>4. CASE ForgetSpreadRatio
  <2> DEFINE left == [counts EXCEPT ![leaving] = NoCounts]
  <2>1. /\ leaving \in Names /\ leaving' = Nobody /\ Live' = Live
        /\ UNCHANGED <<rows, lives, working>>
    BY <1>4, SpreadAssumption DEF ForgetSpreadRatio, SpreadShape, Live
  <2>2. left \in [Names -> Counts]
    BY <2>1, NothingCounted DEF SpreadShape
  <2>3. LivesAgree'
    BY <2>1, SpreadAssumption DEF LivesAgree, Live
  <2>4. CASE counts[leaving] = NoCounts
    <3>1. UNCHANGED <<counts, disk>>
      BY <1>4, <2>4 DEF ForgetSpreadRatio
    <3> QED
      BY <2>1, <2>3, <2>4, <3>1 DEF SpreadShape, CountsAgree
  <2>5. CASE counts[leaving] # NoCounts
    <3>1. counts' = Pruned(left) /\ disk' = Pruned(left)
      BY <1>4, <2>5 DEF ForgetSpreadRatio, Written
    <3>2. SpreadShape'
      BY <2>1, <2>2, <3>1, PrunedCounts DEF SpreadShape
    <3>3. \A n \in Live : left[n] = counts[n]
      BY <2>1 DEF LivesAgree, SpreadShape, Live
    <3>4. CountsAgree'
      <4>1. /\ \A n \in Live : counts'[n] = counts[n]
            /\ \A n \in Names \ Live : counts'[n] = NoCounts
            /\ disk' = counts'
        BY <2>2, <3>1, <3>3, PrunedCounts
      <4> QED
        BY <2>1, <4>1 DEF CountsAgree, Live
    <3> QED
      BY <2>3, <3>2, <3>4
  <2> QED
    BY <2>4, <2>5
<1>5. CASE ProcessStarts
  BY <1>5, SpreadAssumption
  DEF ProcessStarts, SpreadShape, LivesAgree, CountsAgree, Live, NoCounts, Counts
<1>6. ASSUME NEW n \in Names, NoSample(n)
      PROVE  SpreadInv'
  BY <1>6 DEF NoSample, SpreadShape, LivesAgree, CountsAgree, Live
<1>7. ASSUME NEW n \in Names, AddSymbol(n)
      PROVE  SpreadInv'
  <2>1. /\ Live' = Live \cup {n} /\ n \notin Live /\ lives'[n] = lives[n] + 1
        /\ \A m \in Names \ {n} : lives'[m] = lives[m] /\ rows'[m] = rows[m]
    BY <1>7 DEF AddSymbol, SpreadShape, Live, Nowhere
  <2>2. counts[n] = NoCounts /\ UNCHANGED <<counts, disk, working, leaving>>
    BY <1>7, <2>1, SpreadAssumption DEF AddSymbol, CountsAgree
  <2>3. SpreadShape'
    BY <1>7, <2>2 DEF AddSymbol, SpreadShape, Rows, Stamps
  <2>4. LivesAgree'
    BY <1>7, <2>1, <2>2, SpreadAssumption DEF AddSymbol, LivesAgree, SpreadShape, Live
  <2>5. CountsAgree'
    <3>1. \A c \in Readings : counts[n][c] = 0
      BY <2>2 DEF NoCounts
    <3> QED
      BY <2>1, <2>2, <3>1 DEF CountsAgree, Live
  <2> QED
    BY <2>3, <2>4, <2>5
<1>8. ASSUME NEW n \in Names, DeleteSymbol(n)
      PROVE  SpreadInv'
  <2>1. /\ Live' = Live \ {n} /\ working = {} /\ leaving' = n
        /\ UNCHANGED <<lives, counts, disk, working>>
        /\ \A m \in Live' : rows'[m] = rows[m]
    BY <1>8 DEF DeleteSymbol, SpreadShape, Live
  <2>2. SpreadShape'
    BY <1>8, <2>1 DEF DeleteSymbol, SpreadShape, Rows, Stamps, Nowhere
  <2>3. LivesAgree'
    BY <2>1 DEF LivesAgree
  <2>4. CountsAgree'
    BY <1>8, <2>1, SpreadAssumption DEF DeleteSymbol, CountsAgree
  <2> QED
    BY <2>2, <2>3, <2>4
<1>9. ASSUME NEW n \in Names, SearchPrices(n) \/ Enable(n) \/ Disable(n)
      PROVE  SpreadInv'
  <2>1. /\ UNCHANGED <<lives, counts, disk, working, leaving>>
        /\ rows' \in [Names -> Rows]
        /\ \A m \in Names : rows'[m].life = rows[m].life
    <3>1. SearchScale(n) \in Stamps
      BY DEF SearchScale, SpreadShape, Stamps
    <3> QED
      <4>1. CASE SearchPrices(n)
        BY <3>1, <4>1 DEF SearchPrices, SpreadShape, Rows
      <4>2. CASE Enable(n)
        BY <4>2 DEF Enable, SpreadShape, Rows
      <4>3. CASE Disable(n)
        BY <4>3 DEF Disable, SpreadShape, Rows
      <4> QED
        BY <1>9, <4>1, <4>2, <4>3
  <2>2. Live' = Live
    <3>1. \A m \in Names : m \in Live <=> rows[m].life # 0
      BY DEF LivesAgree, Live, Nowhere
    <3>2. \A m \in Names \ {n} : rows'[m] = rows[m]
      BY <1>9 DEF SearchPrices, Enable, Disable, SpreadShape
    <3>3. n \in Live
      BY <1>9 DEF SearchPrices, Enable, Disable, Live, Nowhere
    <3> QED
      BY <2>1, <3>1, <3>2, <3>3 DEF Live, Nowhere
  <2> QED
    BY <2>1, <2>2 DEF SpreadShape, LivesAgree, CountsAgree, Live
<1>10. ASSUME NEW n \in Names, NEW idx \in 0 .. Buckets - 1, Sample(n, idx)
       PROVE  SpreadInv'
  <2>1. /\ n \in Live /\ Live' = Live
        /\ UNCHANGED <<rows, lives, disk, leaving>> /\ working' = working \ {n}
    BY <1>10 DEF Sample, LivesAgree, Live
  <2>2. /\ counts' \in [Names -> Counts]
        /\ \A m \in Names \ {n} : counts'[m] = counts[m]
        /\ \A c \in Readings :
              /\ counts'[n][c] = 0 => counts[n][c] = 0
              /\ c[2] # lives[n] => counts'[n][c] = counts[n][c]
    <3> DEFINE cell == <<idx, lives[n]>>
    <3>1. counts' = [counts EXCEPT ![n] = [counts[n] EXCEPT ![cell] = counts[n][cell] + 1]]
      BY <1>10 DEF Sample
    <3>2. counts[n] \in Counts
      BY DEF SpreadShape
    <3>3. [counts[n] EXCEPT ![cell] = counts[n][cell] + 1] \in Counts
      <4>1. cell \in Readings => counts[n][cell] + 1 \in Nat
        BY <3>2 DEF Counts
      <4> QED
        BY <3>2, <4>1 DEF Counts
    <3>4. \A c \in Readings : c # cell => counts'[n][c] = counts[n][c]
      BY <3>1, <3>2 DEF SpreadShape, Counts
    <3>5. counts'[n][cell] # 0 \/ cell \notin Readings
      BY <3>1, <3>2 DEF SpreadShape, Counts
    <3> QED
      BY <3>1, <3>2, <3>3, <3>4, <3>5 DEF SpreadShape
  <2>3. SpreadShape'
    BY <2>1, <2>2 DEF SpreadShape
  <2>4. LivesAgree'
    BY <2>1 DEF LivesAgree
  <2>5. CountsAgree'
    <3>1. ASSUME NEW m \in Live, NEW c \in Readings, c[2] # lives[m]
          PROVE  counts'[m][c] = 0
      <4>1. m \in Names /\ counts[m][c] = 0
        BY <3>1 DEF CountsAgree, Live
      <4> QED
        BY <2>2, <3>1, <4>1
    <3>2. ASSUME NEW m \in Names, NEW c \in Readings, counts'[m][c] = 0
          PROVE  disk[m][c] = 0
      <4>1. counts[m][c] = 0
        BY <2>2, <3>2
      <4> QED
        BY <4>1 DEF CountsAgree
    <3>3. \A m \in Names \ Live : m # leaving => counts'[m] = NoCounts
      BY <2>1, <2>2 DEF CountsAgree
    <3> QED
      BY <2>1, <3>1, <3>2, <3>3 DEF CountsAgree
  <2> QED
    BY <2>3, <2>4, <2>5
<1> QED
  BY <1>1, <1>2, <1>3, <1>4, <1>5, <1>6, <1>7, <1>8, <1>9, <1>10 DEF SpreadNext

(* OwnSpread: a symbol that left the book and came back is priced by what  *)
(* was counted since (forget_spread_ratio), under the three conditions the *)
(* run assumes too.                                                        *)
THEOREM SpreadIsOwn ==
  ASSUME ~Overlaps, ~DiskFails, ~Crashes
  PROVE  SpreadSpec => []OwnSpread
<1>1. SpreadInv => OwnSpread
  BY DEF SpreadInv, LivesAgree, CountsAgree, OwnSpread, Live
<1> QED
  BY Started, Kept, <1>1, PTL DEF SpreadSpec

\* The counts of the buckets up to one add up.
LEMMA CountsAdd ==
  ASSUME NEW hist \in Counts, NEW top \in -1 .. Buckets - 1
  PROVE  UpTo(hist, top) \in Nat
<1>1. \A i \in 0 .. top : In(hist, i) \in Nat
  <2> SUFFICES ASSUME NEW i \in 0 .. top PROVE In(hist, i) \in Nat
    OBVIOUS
  <2> DEFINE lifetimes == [k \in 1 .. MaxLives |-> hist[<<i, k>>]]
  <2>1. \A k \in 1 .. MaxLives : lifetimes[k] \in Nat
    BY SpreadAssumption DEF Counts, Readings
  <2>2. IsFiniteSet(1 .. MaxLives)
    BY SpreadAssumption, FS_Interval
  <2>3. DOMAIN lifetimes = 1 .. MaxLives
    OBVIOUS
  <2> HIDE DEF lifetimes
  <2>4. SumFunctionOnSet(lifetimes, 1 .. MaxLives) \in Nat
    BY <2>1, <2>2, SumNat
  <2>5. SumFunction(lifetimes) \in Nat
    BY <2>3, <2>4 DEF SumFunction
  <2> QED BY <2>5 DEF In, lifetimes
<1> DEFINE each == [i \in 0 .. top |-> In(hist, i)]
<1>2. \A i \in 0 .. top : each[i] \in Nat
  BY <1>1
<1>3. IsFiniteSet(0 .. top)
  BY FS_Interval
<1>4. DOMAIN each = 0 .. top
  OBVIOUS
<1> HIDE DEF each
<1>5. SumFunctionOnSet(each, 0 .. top) \in Nat
  BY <1>2, <1>3, SumNat
<1>6. SumFunction(each) \in Nat
  BY <1>4, <1>5 DEF SumFunction
<1> QED BY <1>6 DEF UpTo, each

(* What half of the counts lie below is a bucket, the middle of it or the  *)
(* edge of the last one.                                                   *)
LEMMA MedianBound ==
  ASSUME NEW hist \in Counts PROVE Median(hist) \in 0 .. Ceiling
<1> DEFINE halves == {i \in 0 .. Buckets - 1 : 2 * UpTo(hist, i) >= Counted(hist)}
<1>1. Buckets \in Nat /\ Buckets >= 1
  BY SpreadAssumption
<1>2. halves \in SUBSET Nat
  OBVIOUS
<1>3. Buckets - 1 \in halves
  <2>1. Buckets - 1 \in -1 .. Buckets - 1 /\ Buckets - 1 \in 0 .. Buckets - 1
    BY <1>1
  <2>2. UpTo(hist, Buckets - 1) \in Nat
    BY <2>1, CountsAdd
  <2> QED BY <2>1, <2>2 DEF Counted
<1>4. Min(halves) \in halves
  <2> HIDE DEF halves
  <2> QED BY <1>2, <1>3, LeastNat
<1>5. PICK idx \in 0 .. Buckets - 1 : idx = Min(halves)
  BY <1>4
<1>6. Median(hist) = IF Counted(hist) = 0 THEN 0
                     ELSE IF idx = Buckets - 1 THEN 2 * idx ELSE 2 * idx + 1
  BY <1>5 DEF Median
<1> QED BY <1>1, <1>6 DEF Ceiling

(* A scale is at least one, where the buckets reach that far, and never    *)
(* more than the last bucket can say.                                      *)
LEMMA ScaleBound ==
  ASSUME NEW hist \in Counts
  PROVE  /\ SpreadScale(hist) \in Nat
         /\ SpreadScale(hist) = One \/ SpreadScale(hist) <= Ceiling
         /\ One <= Ceiling => SpreadScale(hist) \in One .. Ceiling
<1>1. Median(hist) \in Int /\ One \in Nat /\ Ceiling \in Nat
  BY MedianBound, SpreadAssumption DEF Ceiling
<1> DEFINE wide == Max({One, Median(hist)})
<1>2. wide \in {One, Median(hist)} /\ wide >= One
  BY <1>1, LargerSmaller
<1>3. wide \in Nat
  BY <1>1, <1>2, MedianBound
<1> DEFINE cut == Min({Ceiling, wide})
<1> HIDE DEF wide
<1>4. cut \in {Ceiling, wide} /\ cut <= Ceiling /\ cut <= wide
  <2>1. \E k \in {Ceiling, wide} : \A l \in {Ceiling, wide} : k <= l
    BY <1>1, <1>3
  <2> QED BY <2>1 DEF Min
<1> HIDE DEF cut
<1>5. SpreadScale(hist) = One \/ SpreadScale(hist) = cut
  BY DEF SpreadScale, cut, wide
<1> QED BY <1>1, <1>2, <1>3, <1>4, <1>5

RowTypes == [life : 0 .. MaxLives, stamp : 0 .. Ceiling + One, enabled : BOOLEAN]

SpreadTyped ==
    /\ rows \in [Names -> RowTypes] /\ lives \in [Names -> 0 .. MaxLives]
    /\ counts \in [Names -> Counts] /\ disk \in [Names -> Counts]
    /\ dirty \in BOOLEAN /\ rest \in 0 .. Interval
    /\ working \subseteq Names /\ leaving \in Names \cup {Nobody}
    /\ taken \in 0 .. MaxSamples

(* What is counted, stamped and kept of a symbol, for deletes in the       *)
(* middle of a cycle, writes that fail and a process that dies too.        *)
THEOREM SpreadTypes == SpreadSpec => []SpreadTypeOK
<1>0. /\ Interval \in Nat /\ MaxLives \in Nat /\ MaxSamples \in Nat
      /\ One \in Nat /\ Ceiling \in Nat /\ One \in 0 .. Ceiling + One
  BY SpreadAssumption DEF Ceiling
<1>1. SpreadInit => SpreadTyped
  <2> SUFFICES ASSUME SpreadInit PROVE SpreadTyped
    OBVIOUS
  <2>1. Nowhere \in RowTypes
    <3>1. 0 \in 0 .. MaxLives /\ 0 \in 0 .. Ceiling + One
      BY <1>0
    <3>2. FALSE \in BOOLEAN
      BY Zenon
    <3> QED BY <3>1, <3>2, Zenon DEF Nowhere, RowTypes
  <2>2. 0 \in 0 .. MaxLives /\ 0 \in 0 .. Interval /\ 0 \in 0 .. MaxSamples
    BY <1>0
  <2>3. dirty \in BOOLEAN
    BY DEF SpreadInit
  <2> QED BY <2>1, <2>2, <2>3, NothingCounted DEF SpreadInit, SpreadTyped
<1>2. SpreadTyped /\ [SpreadNext]_spreadVars => SpreadTyped'
  <2> SUFFICES ASSUME SpreadTyped, [SpreadNext]_spreadVars PROVE SpreadTyped'
    OBVIOUS
  <2> USE DEF SpreadTyped
  <2>0. Interval \in 0 .. Interval /\ 0 \in 0 .. Interval /\ Live \subseteq Names
    BY <1>0 DEF Live
  <2>1. \A hists \in [Names -> Counts] :
           Written(hists) => /\ disk' \in [Names -> Counts]
                             /\ dirty' \in BOOLEAN /\ rest' \in 0 .. Interval
    BY <2>0, PrunedCounts DEF Written
  <2>2. CASE CycleStarts
    <3>1. working' \subseteq Names
      BY <2>0, <2>2 DEF CycleStarts
    <3>2. rest' \in 0 .. Interval
      BY <1>0, <2>2 DEF CycleStarts
    <3> QED BY <2>2, <3>1, <3>2 DEF CycleStarts
  <2>3. CASE Flush
    BY <2>1, <2>3, PrunedCounts DEF Flush
  <2>4. CASE ForgetSpreadRatio
    <3> DEFINE left == [counts EXCEPT ![leaving] = NoCounts]
    <3>1. left \in [Names -> Counts]
      BY NothingCounted
    <3>2. /\ counts' \in [Names -> Counts] /\ disk' \in [Names -> Counts]
          /\ dirty' \in BOOLEAN /\ rest' \in 0 .. Interval
      <4>1. CASE counts[leaving] = NoCounts
        BY <2>4, <4>1 DEF ForgetSpreadRatio
      <4>2. CASE counts[leaving] # NoCounts
        <5>1. counts' = Pruned(left) /\ Written(left)
          BY <2>4, <4>2 DEF ForgetSpreadRatio
        <5> QED BY <2>1, <3>1, <5>1, PrunedCounts
      <4> QED BY <4>1, <4>2
    <3> QED BY <2>4, <3>2 DEF ForgetSpreadRatio
  <2>5. CASE ProcessStarts
    BY <2>0, <2>5 DEF ProcessStarts
  <2>6. ASSUME NEW n \in Names, NoSample(n) PROVE SpreadTyped'
    BY <2>6 DEF NoSample
  <2>7. ASSUME NEW n \in Names, AddSymbol(n) PROVE SpreadTyped'
    <3>1. lives[n] + 1 \in 0 .. MaxLives /\ lives' = [lives EXCEPT ![n] = lives[n] + 1]
      BY <1>0, <2>7 DEF AddSymbol
    <3>2. lives' \in [Names -> 0 .. MaxLives] /\ lives'[n] \in 0 .. MaxLives
      BY <3>1
    <3>3. [life |-> lives'[n], stamp |-> One, enabled |-> FALSE] \in RowTypes
      BY <1>0, <3>2 DEF RowTypes
    <3> QED BY <2>7, <3>2, <3>3 DEF AddSymbol
  <2>8. ASSUME NEW n \in Names, DeleteSymbol(n) PROVE SpreadTyped'
    <3>1. Nowhere \in RowTypes
      BY <1>0 DEF Nowhere, RowTypes
    <3> QED BY <2>8, <3>1 DEF DeleteSymbol
  <2>9. ASSUME NEW n \in Names, SearchPrices(n) \/ Enable(n) \/ Disable(n)
        PROVE  SpreadTyped'
    <3>1. SearchScale(n) \in 0 .. Ceiling + One
      <4>1. disk[n] \in Counts
        OBVIOUS
      <4>2. /\ SpreadScale(disk[n]) \in Nat
            /\ SpreadScale(disk[n]) = One \/ SpreadScale(disk[n]) <= Ceiling
        BY <4>1, ScaleBound
      <4> QED BY <1>0, <4>2 DEF SearchScale
    <3>2. rows' \in [Names -> RowTypes]
      <4>1. CASE SearchPrices(n)
        BY <3>1, <4>1 DEF SearchPrices, RowTypes
      <4>2. CASE Enable(n)
        BY <4>2 DEF Enable, RowTypes
      <4>3. CASE Disable(n)
        BY <4>3 DEF Disable, RowTypes
      <4> QED BY <2>9, <4>1, <4>2, <4>3
    <3> QED BY <2>9, <3>2 DEF SearchPrices, Enable, Disable
  <2>10. ASSUME NEW n \in Names, NEW idx \in 0 .. Buckets - 1, Sample(n, idx)
         PROVE  SpreadTyped'
    <3> DEFINE cell == <<idx, lives[n]>>
    <3>1. counts' = [counts EXCEPT ![n] = [counts[n] EXCEPT ![cell] = counts[n][cell] + 1]]
      BY <2>10 DEF Sample
    <3>2. [counts[n] EXCEPT ![cell] = counts[n][cell] + 1] \in Counts
      <4>1. cell \in Readings => counts[n][cell] + 1 \in Nat
        BY DEF Counts
      <4> QED BY <4>1 DEF Counts
    <3>3. counts' \in [Names -> Counts]
      BY <3>1, <3>2
    <3>4. taken' \in 0 .. MaxSamples
      BY <1>0, <2>10 DEF Sample
    <3> QED BY <2>10, <3>3, <3>4 DEF Sample
  <2>11. CASE UNCHANGED spreadVars
    BY <2>11 DEF spreadVars
  <2> QED
    BY <2>2, <2>3, <2>4, <2>5, <2>6, <2>7, <2>8, <2>9, <2>10, <2>11 DEF SpreadNext
<1>3. SpreadTyped => SpreadTypeOK
  BY DEF SpreadTyped, SpreadTypeOK, RowTypes, Counts
<1> QED BY <1>1, <1>2, <1>3, PTL DEF SpreadSpec

-----------------------------------------------------------------------------
(* Lots and the book (Sizing).                                             *)

\* The concurrent dial is on: the account sets it, or the operator did.
CapOn == (dials.auto /\ ~dials.pinCap) \/ dials.cap > 0

\* The account and the panel are some of those there may be.
DeskTypes ==
    account \in Accounts /\ dials \in Panels /\ enabled1R \in Rosters

\* What the account and the panel may hold.
LEMMA DeskParts ==
    ASSUME DeskTypes
    PROVE  /\ account.equity \in Nat \ {0} /\ account.balance \in Nat \ {0}
           /\ dials.auto \in BOOLEAN /\ dials.pinCap \in BOOLEAN /\ dials.pinLot \in BOOLEAN
           /\ dials.usage \in 0..100 /\ dials.mult \in Nat /\ dials.cap \in Nat
           /\ enabled1R \subseteq Traded /\ Cardinality(enabled1R) \in Nat
<1>1. IsFiniteSet(enabled1R)
  BY SizingSymbols, SizingDials, FS_Subset DEF DeskTypes
<1>2. Cardinality(enabled1R) \in Nat
  BY <1>1, FS_CardinalityType
<1>3. enabled1R \subseteq Traded
  BY SizingDials DEF DeskTypes
<1>4. account \in [equity : Nat \ {0}, balance : Nat \ {0}] /\ dials \in Panel1R
  BY SizingDials DEF DeskTypes
<1> QED BY <1>2, <1>3, <1>4 DEF Panel1R

\* The tier of an account is a whole number of hundredths.
LEMMA LotBaseType ==
    ASSUME DeskTypes PROVE EquityLotBase(account.equity) \in Int
<1>1. account.equity \in Nat
  BY DeskParts
<1>2. PICK x \in Int : x = 175 + (account.equity - 6000) \div 100
  BY <1>1
<1>3. Min({250, x}) \in {250, x}
  BY LargerSmaller
<1>4. Min({250, 175 + (account.equity - 6000) \div 100}) \in Int
  BY <1>2, <1>3
<1> QED BY <1>1, <1>4 DEF EquityLotBase

\* The dials are whole numbers ...
LEMMA LotTargetType ==
    ASSUME DeskTypes
    PROVE  LotTarget \in Int /\ Min({Usage, 100}) \in Nat
<1>1. Usage \in 0..100
  BY DeskParts DEF Usage
<1>2. Min({Usage, 100}) \in Nat
  <2>1. PICK u \in Int : u = Usage
    BY <1>1
  <2>2. Min({u, 100}) \in {u, 100}
    BY LargerSmaller
  <2> QED BY <1>1, <2>1, <2>2
<1>3. EquityLotBase(account.equity) \in Int
  BY LotBaseType
<1>4. \A a \in Int : Rounded(a, 160) \in Int
  BY DEF Rounded
<1>5. \A x \in Int : Clamp(x, 30, 250) \in Int
  <2> TAKE x \in Int
  <2>1. Min({x, 250}) \in {x, 250}
    BY LargerSmaller
  <2>2. PICK m \in Int : m = Min({x, 250})
    BY <2>1
  <2>3. Max({30, m}) \in {30, m}
    BY LargerSmaller
  <2>4. Clamp(x, 30, 250) = Max({30, m})
    BY <2>2 DEF Clamp
  <2> QED BY <2>3, <2>4
<1>6. EquityLotBase(account.equity) * Min({Usage, 100}) \in Int
  BY <1>2, <1>3
<1>7. 2 * Rounded(EquityLotBase(account.equity) * Min({Usage, 100}), 160) \in Int
  BY <1>4, <1>6
<1> QED BY <1>2, <1>5, <1>7 DEF LotTarget

\* The account never turns its own dial off, however small or large it gets.
LEMMA LiveCapOn ==
    ASSUME DeskTypes
    PROVE  LiveCap \in Int /\ (LiveCap > 0 <=> CapOn)
<1>1. LotTarget \in Int /\ Min({Usage, 100}) \in Nat
  BY LotTargetType
<1>2. Max({1, Cardinality(enabled1R)}) \in Int
  <2>1. PICK k \in Int : k = Cardinality(enabled1R)
    BY DeskParts
  <2>2. Max({1, k}) \in {1, k}
    BY LargerSmaller
  <2> QED BY <2>1, <2>2
<1>3. \A a \in Int : Rounded(a, 100) \in Int
  BY DEF Rounded
<1>4. Rounded(22 * Max({1, Cardinality(enabled1R)}) * LotTarget, 100) \in Int
  BY <1>1, <1>2, <1>3
<1>5. PICK r \in Int : r = Rounded(22 * Max({1, Cardinality(enabled1R)}) * LotTarget, 100)
  BY <1>4
<1>6. Max({50, r}) \in Int /\ Max({50, r}) >= 50
  BY LargerSmaller
<1>7. Min({500, 150 + 5 * Min({Usage, 100}), Max({50, r})})
        \in {500, 150 + 5 * Min({Usage, 100}), Max({50, r})}
  <2>1. PICK x \in Int, y \in Int : x = 150 + 5 * Min({Usage, 100}) /\ y = Max({50, r})
    BY <1>1, <1>6
  <2>2. Min({500, x, y}) \in {500, x, y}
    BY SmallestOfThree
  <2> QED BY <2>1, <2>2
<1>8. CapTarget \in Int /\ CapTarget > 0
  BY <1>1, <1>5, <1>6, <1>7 DEF CapTarget
<1> QED BY <1>8, DeskParts DEF LiveCap, CapOn

\* ... and so is the ceiling of an entry.
LEMMA CeilingType ==
    ASSUME DeskTypes, NEW n \in Traded, NEW scale \in Nat
    PROVE  Ceiling1R(n, scale) \in Int
<1>1. Spec1R[n].percent \in Nat
  BY SizingSymbols DEF SizedSymbol
<1>2. LiveMult \in Int
  <2>1. PICK m \in Int : m = dials.mult
    BY DeskParts
  <2>2. Max({10, m}) \in {10, m}
    BY LargerSmaller
  <2> QED BY <2>1, <2>2, LotTargetType DEF LiveMult
<1>3. Max({Spec1R[n].percent, 20}) \in Int /\ Max({10, LiveMult}) \in Int /\ Min({10, scale}) \in Int
  <2>1. PICK p \in Int, m \in Int : p = Spec1R[n].percent /\ m = LiveMult
    BY <1>1, <1>2
  <2>2. Max({p, 20}) \in {p, 20}
    <3>1. PICK k \in Int : k = 20
      OBVIOUS
    <3>2. Max({p, k}) \in {p, k}
      BY ONLY LargerSmaller, p \in Int, k \in Int
    <3> QED BY <3>1, <3>2
  <2>3. Max({10, m}) \in {10, m}
    BY LargerSmaller
  <2>4. Min({10, scale}) \in {10, scale}
    <3>1. PICK f \in Int : f = scale
      OBVIOUS
    <3>2. Min({10, f}) \in {10, f}
      BY LargerSmaller
    <3> QED BY <3>1, <3>2
  <2> QED BY <2>1, <2>2, <2>3, <2>4
<1>4. account.balance \in Int
  BY DeskParts
<1> QED BY <1>3, <1>4 DEF Ceiling1R

\* A lot over one and a half times the ceiling is the minimum lot, under a dial
\* that is on.
LEMMA OversizeIsFloor ==
    ASSUME DeskTypes, NEW n \in Traded, NEW scale \in Nat, LotFor(n, scale) > 0,
           2 * (LotFor(n, scale) * Spec1R[n].risk) * Micro > 3 * Ceiling1R(n, scale)
    PROVE  LotFor(n, scale) = Spec1R[n].floor /\ CapOn
<1> DEFINE s == Spec1R[n]
           fits == {k \in s.floor..s.ceiling :
                       k <= MarginLots(n, scale) /\ k * s.risk * Micro <= Ceiling1R(n, scale)}
<1>1. s \in SizedSymbol
  BY SizingSymbols
<1>2. /\ s.floor \in Nat \ {0} /\ s.ceiling \in Nat \ {0} /\ s.risk \in Nat \ {0}
  BY <1>1 DEF SizedSymbol
<1>3. Ceiling1R(n, scale) \in Int
  BY CeilingType
<1>4. LotFor(n, scale) = IF s.percent = 0 \/ scale = 0 \/ MarginLots(n, scale) < s.floor THEN 0
                         ELSE IF fits # {} THEN Max(fits)
                         ELSE IF FloorFits(n, scale) THEN s.floor ELSE 0
  BY DEF LotFor
<1>5. PICK lot : lot = LotFor(n, scale)
  OBVIOUS
<1>6. CASE fits # {} /\ lot = Max(fits)
  <2>1. fits \in SUBSET (0..s.ceiling)
    BY <1>2
  <2>2. lot \in fits
    <3>1. 0 \in Int /\ s.ceiling \in Int
      BY <1>2
    <3>2. IsFiniteSet(0..s.ceiling)
      BY <3>1, FS_Interval
    <3>3. IsFiniteSet(fits)
      BY <2>1, <3>2, FS_Subset
    <3>4. fits \in SUBSET Int
      BY <2>1
    <3> HIDE DEF fits
    <3> QED BY <1>6, <3>3, <3>4, MaxOfFinite
  <2>3. lot \in Nat /\ lot * s.risk * Micro <= Ceiling1R(n, scale)
    BY <1>2, <2>2
  <2>4. PICK x \in Nat : x = lot * s.risk
    BY <1>2, <2>3
  <2>5. x * Micro <= Ceiling1R(n, scale) /\ 2 * x * Micro > 3 * Ceiling1R(n, scale)
    BY <1>5, <2>3, <2>4
  <2> QED BY <1>3, <2>5 DEF Micro
<1>7. CASE FloorFits(n, scale) /\ lot = s.floor
  <2>1. PICK least \in Nat : least = s.floor * s.risk
    BY <1>2
  <2>2. \/ 2 * least * Micro <= 3 * Ceiling1R(n, scale)
        \/ LiveCap > 0
    BY <1>7, <2>1 DEF FloorFits
  <2>3. 2 * least * Micro > 3 * Ceiling1R(n, scale)
    BY <1>5, <1>7, <2>1
  <2>4. LiveCap > 0
    BY <1>3, <2>2, <2>3 DEF Micro
  <2> QED BY <1>5, <1>7, <2>4, LiveCapOn
<1>8. lot # 0
  BY <1>5
<1> HIDE DEF fits
<1> QED BY <1>4, <1>5, <1>6, <1>7, <1>8

\* An edge lies between 0.6 and 2.2, and does not lift a stop at the broker's
\* least.
LEMMA EdgeScaleBound ==
    ASSUME NEW n
    PROVE  EdgeScale(n) \in 6..22 /\ (~ByEdge \/ Spec1R[n].tight => EdgeScale(n) <= 10)
<1> DEFINE top == IF Spec1R[n].tight THEN 10 ELSE 22
           rated == {k \in enabled1R : Edge(k) > 0}
           edge == [k \in Traded |-> Edge(k)]
           twice == TwiceMedian(edge, rated)
           reach == {6} \cup {e \in 6..top : e * e * twice <= 200 * edge[n]}
<1>1. EdgeScale(n) = 10 \/ (ByEdge /\ EdgeScale(n) = Max(reach))
  BY DEF EdgeScale
<1>2. top \in 6..22 /\ (Spec1R[n].tight => top = 10)
  OBVIOUS
<1>3. reach \in SUBSET (6..top) /\ reach # {}
  BY <1>2
<1> HIDE DEF reach, top
<1>4. IsFiniteSet(reach)
  <2>1. 6 \in Int /\ top \in Int
    BY <1>2
  <2>2. IsFiniteSet(6..top)
    BY <2>1, FS_Interval
  <2> QED BY <1>3, <2>2, FS_Subset
<1>5. reach \in SUBSET Int
  BY <1>2, <1>3
<1>6. Max(reach) \in 6..top
  BY <1>3, <1>4, <1>5, MaxOfFinite
<1> QED BY <1>1, <1>2, <1>6

\* What sizes an entry when the margin of a lot cannot be read stays within the
\* 1R ceiling: no throttle above one, and where the edge of a symbol may lift
\* its size (up to 2.2 times), a stored risk below one per cent.
ModestRisks ==
    /\ Throttles \subseteq 0..10
    /\ ByEdge => \A n \in Traded : Spec1R[n].tight \/ Spec1R[n].percent <= 9

\* A factor keeps the order of two numbers.
LEMMA FactorKeeps ==
    ASSUME NEW z \in Nat, NEW x \in Int, NEW y \in Int, x <= y
    PROVE  z * x \in Int /\ z * y \in Int /\ z * x <= z * y
<1>1. z * (y - x) >= 0
  <2>1. PICK d \in Nat : d = y - x
    OBVIOUS
  <2>2. z * d \in Nat
    OBVIOUS
  <2> QED BY <2>1, <2>2
<1> QED BY <1>1

\* The stored risk times the edge is within the larger of it and 2 per cent.
LEMMA RawMoneyBound ==
    ASSUME ModestRisks, DeskTypes, NEW n \in Traded, NEW scale \in Throttles
    PROVE  RawMoney(n, scale) \in Int /\ RawMoney(n, scale) <= Ceiling1R(n, scale)
<1>1. PICK p \in Nat, b \in Nat, s \in Nat :
          p = Spec1R[n].percent /\ b = account.balance /\ s = scale
  <2>1. Spec1R[n].percent \in Nat
    BY SizingSymbols DEF SizedSymbol
  <2>2. scale \in Nat
    BY SizingDials
  <2> QED BY <2>1, <2>2, DeskParts
<1>2. PICK e \in Nat : e = EdgeScale(n)
  BY EdgeScaleBound
<1>3. PICK m \in Nat : m = LiveMult /\ Max({10, m}) = m
  <2>1. PICK k \in Int, t \in Int : k = dials.mult /\ t = LotTarget
    BY DeskParts, LotTargetType
  <2>2. Max({10, k}) \in Int /\ Max({10, k}) >= 10
    <3>1. Max({10, k}) \in {10, k} /\ Max({10, k}) >= 10
      BY ONLY LargerSmaller, k \in Int
    <3> QED BY <3>1
  <2>3. t >= 30
    <3>1. \A x \in Int : Clamp(x, 30, 250) >= 30
      <4> TAKE x \in Int
      <4>1. Min({x, 250}) \in {x, 250}
        BY LargerSmaller
      <4>2. PICK w \in Int : w = Min({x, 250})
        BY <4>1
      <4>3. Max({30, w}) >= 30
        <5>1. PICK d \in Int : d = 30
          OBVIOUS
        <5>2. Max({d, w}) >= d
          BY ONLY LargerSmaller, w \in Int, d \in Int
        <5> QED BY <5>1, <5>2
      <4> QED BY <4>2, <4>3 DEF Clamp
    <3>2. EquityLotBase(account.equity) * Min({Usage, 100}) \in Int
      BY LotBaseType, LotTargetType
    <3>3. \A a \in Int : Rounded(a, 160) \in Int
      BY DEF Rounded
    <3>4. 2 * Rounded(EquityLotBase(account.equity) * Min({Usage, 100}), 160) \in Int
      BY <3>2, <3>3
    <3> QED BY <2>1, <3>1, <3>4 DEF LotTarget
  <2>4. PICK u \in Int : u = LiveMult /\ u >= 10
    BY <2>1, <2>2, <2>3 DEF LiveMult
  <2>5. Max({10, u}) \in {10, u} /\ Max({10, u}) >= u
    BY LargerSmaller
  <2>6. Max({10, u}) = u
    BY <2>4, <2>5
  <2> QED BY <2>4, <2>6
<1>4. PICK q \in Nat : q = Max({p, 20}) /\ q >= p /\ q >= 20
  <2>1. PICK i \in Int : i = p
    OBVIOUS
  <2>2. /\ Max({i, 20}) \in {i, 20}
        /\ Max({i, 20}) >= i /\ Max({i, 20}) >= 20
    BY ONLY LargerSmaller, i \in Int
  <2> QED BY <2>1, <2>2
<1>5. Min({10, s}) = s
  <2>1. s <= 10
    BY <1>1 DEF ModestRisks
  <2>2. \A l \in {10, s} : s <= l
    BY <2>1
  <2>3. Min({10, s}) \in {10, s} /\ \A l \in {10, s} : Min({10, s}) <= l
    BY <2>2 DEF Min
  <2> QED BY <2>1, <2>3
<1>6. Ceiling1R(n, scale) = b * q * m * s
  BY <1>1, <1>3, <1>4, <1>5 DEF Ceiling1R
<1>7. RawMoney(n, scale) = ((b * p * m * e) \div 10) * s
  BY <1>1, <1>2, <1>3 DEF RawMoney
<1>8. p * e <= q * 10
  <2>1. CASE e <= 10
    <3>1. p * e <= p * 10
      BY <2>1, FactorKeeps
    <3> QED BY <1>4, <3>1
  <2>2. CASE e > 10
    <3>1. p <= 9 /\ e <= 22
      BY <1>1, <1>2, <2>2, EdgeScaleBound DEF ModestRisks
    <3>2. p * e <= p * 22
      BY <3>1, FactorKeeps
    <3> QED BY <1>4, <3>1, <3>2
  <2> QED BY <2>1, <2>2
<1>9. PICK w \in Nat, x \in Nat, y \in Nat : w = b * m /\ x = p * e /\ y = q * 10
  OBVIOUS
<1>10. w * x <= w * y
  BY <1>8, <1>9, FactorKeeps
<1>11. b * p * m * e = w * x
  BY <1>9
<1>12. PICK v \in Nat : v = w * q
  OBVIOUS
<1>13. w * y = 10 * v
  BY <1>9, <1>12
<1>14. PICK z \in Nat : z = w * x
  OBVIOUS
<1>15. z \div 10 \in Nat /\ z \div 10 <= v
  BY <1>10, <1>13, <1>14
<1>16. PICK k \in Nat : k = z \div 10
  BY <1>15
<1>17. s * k \in Int /\ s * k <= s * v
  BY <1>15, <1>16, FactorKeeps
<1>18. RawMoney(n, scale) = s * k
  BY <1>7, <1>11, <1>14, <1>16
<1>19. Ceiling1R(n, scale) = s * v
  BY <1>6, <1>9, <1>12
<1> QED BY <1>17, <1>18, <1>19

LEMMA RawNeverOversize ==
    ASSUME ModestRisks, DeskTypes, NEW n \in Traded, NEW scale \in Throttles,
           RawLot(n, scale) > 0
    PROVE  ~(2 * (RawLot(n, scale) * Spec1R[n].risk) * Micro > 3 * Ceiling1R(n, scale))
<1>1. PICK f \in Nat, c \in Nat, r \in Nat \ {0} :
          f = Spec1R[n].floor /\ c = Spec1R[n].ceiling /\ r = Spec1R[n].risk
  BY SizingSymbols DEF SizedSymbol
<1>2. PICK money \in Int, limit \in Int : /\ money = RawMoney(n, scale)
                                          /\ limit = Ceiling1R(n, scale) /\ money <= limit
  <2>1. scale \in Nat
    BY SizingDials
  <2> QED BY <2>1, RawMoneyBound, CeilingType
<1>3. PICK d \in Nat \ {0} : d = r * Micro
  BY DEF Micro
<1>4. PICK steps \in Int : steps = money \div d
  OBVIOUS
<1>5. d * steps <= money
  BY <1>4
<1>6. PICK larger \in Int : larger = Max({f, steps}) /\ larger \in {f, steps}
  BY LargerSmaller
<1>7. PICK lot \in Int : lot = Min({c, larger}) /\ lot <= larger
  <2>1. \E k \in {c, larger} : \A l \in {c, larger} : k <= l
    OBVIOUS
  <2>2. Min({c, larger}) \in {c, larger} /\ \A l \in {c, larger} : Min({c, larger}) <= l
    BY <2>1 DEF Min
  <2> QED BY <2>2
<1>8. RawLot(n, scale) = lot /\ ~(2 * f * r * Micro > 3 * money)
  BY <1>1, <1>2, <1>3, <1>4, <1>6, <1>7 DEF RawLot
<1>9. d * lot <= d * larger
  BY <1>7, FactorKeeps
<1>10. 2 * (d * larger) <= 3 * money \/ d * larger <= money
  <2>1. CASE larger = steps
    BY <1>5, <2>1
  <2>2. CASE larger = f
    <3>1. 2 * f * r * Micro = 2 * (d * f)
      BY <1>3 DEF Micro
    <3>2. 2 * f * r * Micro <= 3 * money
      <4>1. PICK g \in Nat : g = 2 * f * r * Micro
        BY DEF Micro
      <4> QED BY <1>8, <4>1
    <3> QED BY <2>2, <3>1, <3>2
  <2> QED BY <1>6, <2>1, <2>2
<1>11. lot > 0
  BY <1>8
<1>12. PICK x \in Nat, y \in Int : x = d * lot /\ y = d * larger
  BY <1>11
<1>13. x >= 0 /\ 2 * x <= 3 * money
  BY <1>9, <1>10, <1>12
<1>14. 2 * (lot * r) * Micro = 2 * x
  BY <1>3, <1>12 DEF Micro
<1> QED BY <1>1, <1>2, <1>8, <1>13, <1>14

\* So it stays until the entry is sent, while nobody edits the panel.
SizedInv ==
    sized # Void =>
        /\ sized.name \in Traded
        /\ 2 * (sized.lot * Spec1R[sized.name].risk) * Micro > 3 * sized.ceiling =>
               sized.lot = Spec1R[sized.name].floor /\ CapOn

\* Every step keeps it.
LEMMA SizingStep ==
    ASSUME ~MidEdits, MarginFails => ModestRisks, DeskTypes, SizedInv,
           [SizingNext]_sizingVars
    PROVE  DeskTypes' /\ SizedInv'
<1>1. ASSUME NEW n \in Traded, NEW scale \in Throttles, SizeEntry(n, scale)
      PROVE  DeskTypes' /\ SizedInv'
  <2>1. PICK lot : /\ lot = LotFor(n, scale) \/ (MarginFails /\ lot = RawLot(n, scale))
                   /\ lot > 0
                   /\ sized' = [name |-> n, lot |-> lot, ceiling |-> Ceiling1R(n, scale)]
    BY <1>1 DEF SizeEntry
  <2>2. scale \in Nat
    BY SizingDials
  <2>3. 2 * (lot * Spec1R[n].risk) * Micro > 3 * Ceiling1R(n, scale) =>
            lot = Spec1R[n].floor /\ CapOn
    BY <2>1, <2>2, OversizeIsFloor, RawNeverOversize
  <2>4. sized'.name = n /\ sized'.lot = lot /\ sized'.ceiling = Ceiling1R(n, scale)
    BY <2>1
  <2>5. CapOn' = CapOn /\ DeskTypes'
    BY <1>1 DEF SizeEntry, CapOn, DeskTypes
  <2> QED BY <2>3, <2>4, <2>5 DEF SizedInv
<1>2. CASE SendEntry \/ DropEntry
  <2>1. sized' = Void /\ UNCHANGED <<account, dials, enabled1R>>
    BY <1>2 DEF SendEntry, DropEntry
  <2> QED BY <2>1 DEF SizedInv, DeskTypes
<1>3. ASSUME NEW d \in Panels, NEW roster \in Rosters, EditPanel(d, roster)
      PROVE  DeskTypes' /\ SizedInv'
  BY <1>3 DEF EditPanel, SizedInv, DeskTypes
<1>4. ASSUME NEW a \in Accounts, MoveAccount(a) PROVE DeskTypes' /\ SizedInv'
  BY <1>4 DEF MoveAccount, SizedInv, DeskTypes, CapOn
<1>5. CASE UNCHANGED <<account, dials, enabled1R, sized>>
  BY <1>5 DEF SizedInv, DeskTypes, CapOn
<1> QED BY <1>1, <1>2, <1>3, <1>4, <1>5
    DEF SizingNext, AnswerEntry, TrailStop, StopOnOff, CloseFill, BarSymbol, sizingVars

\* An entry over one and a half times its ceiling is the minimum lot and goes
\* out only under a concurrent dial that is on and has room for it, also where
\* the margin of a lot cannot be read (lot_for falls back on _risk_raw_lot), as
\* long as no edge lifts a stored risk above that ceiling.
THEOREM OversizeHasRoomSafe ==
    ASSUME ~MidEdits, MarginFails => ModestRisks PROVE SizingSpec => OversizeHasRoom
<1> DEFINE Roomy == SendEntry =>
               LET n == sized.name  risk == sized.lot * Spec1R[n].risk
               IN  2 * risk * Micro > 3 * sized.ceiling =>
                      /\ sized.lot = Spec1R[n].floor
                      /\ LiveCap > 0 /\ UnderCap(risk)
<1>1. SizingInit => DeskTypes /\ SizedInv
  BY DEF SizingInit, DeskTypes, SizedInv
<1>2. DeskTypes /\ SizedInv /\ [SizingNext]_sizingVars => (DeskTypes /\ SizedInv)'
  BY SizingStep
<1>3. DeskTypes /\ SizedInv => Roomy
  <2> SUFFICES ASSUME DeskTypes, SizedInv, SendEntry,
                      2 * (sized.lot * Spec1R[sized.name].risk) * Micro > 3 * sized.ceiling
               PROVE  /\ sized.lot = Spec1R[sized.name].floor
                      /\ LiveCap > 0 /\ UnderCap(sized.lot * Spec1R[sized.name].risk)
    OBVIOUS
  <2>1. sized # Void /\ CanOpen1R(sized.name, sized.lot)
    BY DEF SendEntry
  <2>2. sized.lot = Spec1R[sized.name].floor /\ LiveCap > 0
    BY <2>1, LiveCapOn DEF SizedInv
  <2> QED BY <2>1, <2>2 DEF CanOpen1R
<1>4. SizingSpec => [][Roomy]_sizingVars
  BY <1>1, <1>2, <1>3, PTL DEF SizingSpec
<1> QED BY <1>4 DEF OversizeHasRoom

\* A lot is nothing, or no more steps than the broker's maximum ...
LEMMA LotForBounded ==
    ASSUME NEW n \in Traded, NEW scale
    PROVE  LotFor(n, scale) \in 0..Spec1R[n].ceiling
<1> DEFINE s == Spec1R[n]
           fits == {k \in s.floor..s.ceiling :
                       k <= MarginLots(n, scale) /\ k * s.risk * Micro <= Ceiling1R(n, scale)}
<1>1. /\ s.floor \in Nat /\ s.ceiling \in Nat /\ s.floor <= s.ceiling
  BY SizingSymbols DEF SizedSymbol
<1>2. LotFor(n, scale) \in {0, s.floor} \/ (fits # {} /\ LotFor(n, scale) = Max(fits))
  BY DEF LotFor
<1>3. fits \in SUBSET (0..s.ceiling)
  BY <1>1
<1> HIDE DEF fits
<1>4. CASE fits # {} /\ LotFor(n, scale) = Max(fits)
  <2>1. 0 \in Int /\ s.ceiling \in Int
    BY <1>1
  <2>2. IsFiniteSet(0..s.ceiling)
    BY <2>1, FS_Interval
  <2>3. IsFiniteSet(fits)
    BY <1>3, <2>2, FS_Subset
  <2>4. fits \in SUBSET Int
    BY <1>3
  <2>5. Max(fits) \in fits
    BY <1>4, <2>3, <2>4, MaxOfFinite
  <2> QED BY <1>3, <1>4, <2>5
<1> QED BY <1>1, <1>2, <1>4

\* ... whether or not the margin of a lot can be read.
LEMMA RawLotBounded ==
    ASSUME DeskTypes, NEW n \in Traded, NEW scale \in Nat
    PROVE  RawLot(n, scale) \in 0..Spec1R[n].ceiling
<1> DEFINE s == Spec1R[n]
<1>1. /\ s.floor \in Nat /\ s.ceiling \in Nat /\ s.floor <= s.ceiling
      /\ s.risk \in Nat \ {0} /\ s.percent \in Nat
  BY SizingSymbols DEF SizedSymbol
<1>2. PICK money : money = RawMoney(n, scale)
  OBVIOUS
<1>3. money \in Int
  <2>1. PICK edge \in Int : edge = EdgeScale(n)
    BY EdgeScaleBound
  <2>2. PICK mult \in Int : mult = LiveMult
    <3>1. PICK m \in Int : m = dials.mult
      BY DeskParts
    <3>2. Max({10, m}) \in {10, m}
      BY LargerSmaller
    <3>3. LiveMult \in Int
      BY <3>1, <3>2, LotTargetType DEF LiveMult
    <3> QED BY <3>3
  <2>3. PICK b \in Int, p \in Int : b = account.balance /\ p = s.percent
    BY <1>1, DeskParts
  <2>4. PICK x \in Int : x = b * p * mult * edge
    OBVIOUS
  <2>5. PICK y \in Int : y = x \div 10
    OBVIOUS
  <2>6. money = y * scale
    BY <1>2, <2>1, <2>2, <2>3, <2>4, <2>5 DEF RawMoney
  <2> QED BY <2>6
<1>4. PICK steps \in Int : steps = money \div (s.risk * Micro)
  <2>1. PICK d \in Nat \ {0} : d = s.risk * Micro
    BY <1>1 DEF Micro
  <2>2. money \div d \in Int
    BY <1>3, <2>1
  <2> QED BY <2>1, <2>2
<1>5. PICK f \in Int, c \in Int : f = s.floor /\ c = s.ceiling
  BY <1>1
<1>6. PICK larger : larger = Max({f, steps})
  OBVIOUS
<1>7. larger \in Int /\ larger >= f
  BY <1>6, LargerSmaller
<1>8. Min({c, larger}) \in 0..c
  <2>1. \E k \in {c, larger} : \A l \in {c, larger} : k <= l
    BY <1>7
  <2>2. Min({c, larger}) \in {c, larger} /\ \A l \in {c, larger} : Min({c, larger}) <= l
    BY <2>1 DEF Min
  <2> QED BY <1>1, <1>5, <1>7, <2>2
<1>9. RawLot(n, scale) = IF money = 0 \/ 2 * s.floor * s.risk * Micro > 3 * money THEN 0
                         ELSE Min({s.ceiling, Max({s.floor, money \div (s.risk * Micro)})})
  BY <1>2 DEF RawLot
<1>10. RawLot(n, scale) \in {0, Min({c, larger})}
  BY <1>4, <1>5, <1>6, <1>9
<1> QED BY <1>1, <1>5, <1>8, <1>10

\* A symbol's position changes alone, to none or to one within its maximum.
LEMMA BookWrite ==
    ASSUME SizingTypeOK, NEW n \in Traded, NEW new \in Fill1R \cup {Void},
           new # Void => new.lot <= Spec1R[n].ceiling,
           fills' = [fills EXCEPT ![n] = new]
    PROVE  /\ fills' \in [Traded -> Fill1R \cup {Void}]
           /\ \A k \in Traded : fills'[k] # Void => fills'[k].lot <= Spec1R[k].ceiling
<1>1. fills \in [Traded -> Fill1R \cup {Void}]
  BY DEF SizingTypeOK
<1>2. fills' \in [Traded -> Fill1R \cup {Void}]
  BY <1>1
<1>3. ASSUME NEW k \in Traded, fills'[k] # Void PROVE fills'[k].lot <= Spec1R[k].ceiling
  <2>1. CASE k = n
    BY <1>1, <2>1, <1>3
  <2>2. CASE k # n
    <3>1. fills'[k] = fills[k]
      BY <1>1, <2>2
    <3> QED BY <1>3, <3>1 DEF SizingTypeOK
  <2> QED BY <2>1, <2>2
<1> QED BY <1>2, <1>3

\* The desk keeps its types; no lot that is sent, verified or held exceeds the
\* broker's maximum, read or unread margin, edits or none.
THEOREM SizingTyped == SizingSpec => []SizingTypeOK
<1>1. SizingInit => SizingTypeOK
  <2> SUFFICES ASSUME SizingInit PROVE SizingTypeOK
    OBVIOUS
  <2>1. \A n \in Traded : Spec1R[n].ceiling \in Nat
    BY SizingSymbols DEF SizedSymbol
  <2>2. \A n \in Traded : fills[n] = Void /\ answers[n] = 0
    BY DEF SizingInit
  <2> QED BY <2>1, <2>2 DEF SizingInit, SizingTypeOK
<1>2. SizingTypeOK /\ [SizingNext]_sizingVars => SizingTypeOK'
  <2> SUFFICES ASSUME SizingTypeOK, [SizingNext]_sizingVars
               PROVE  SizingTypeOK'
    OBVIOUS
  <2> USE DEF SizingTypeOK
  <2>1. DeskTypes
    BY DEF DeskTypes
  <2>2. \A n \in Traded : Spec1R[n].ceiling \in Nat /\ Spec1R[n].risk \in Nat
    BY SizingSymbols DEF SizedSymbol
  <2>3. ASSUME NEW n \in Traded, NEW scale \in Throttles, SizeEntry(n, scale)
        PROVE  SizingTypeOK'
    <3>1. PICK lot : /\ lot \in {LotFor(n, scale), RawLot(n, scale)}
                     /\ sized' = [name |-> n, lot |-> lot, ceiling |-> Ceiling1R(n, scale)]
      BY <2>3 DEF SizeEntry
    <3>2. scale \in Nat
      BY SizingDials
    <3>3. lot \in 0..Spec1R[n].ceiling
      BY <2>1, <3>1, <3>2, LotForBounded, RawLotBounded
    <3>4. sized'.name = n /\ sized'.lot = lot
      BY <3>1
    <3>5. UNCHANGED <<account, dials, enabled1R, barred, fills, answers>>
      BY <2>3 DEF SizeEntry
    <3> QED BY <3>3, <3>4, <3>5
  <2>4. CASE SendEntry
    <3>1. PICK n \in Traded, lot \in Nat : n = sized.name /\ lot = sized.lot
                                           /\ lot \in 0..Spec1R[n].ceiling
      BY <2>2, <2>4 DEF SendEntry
    <3>2. sized' = Void /\ UNCHANGED <<account, dials, enabled1R, barred>>
      BY <2>4 DEF SendEntry
    <3>3. CASE fills' = [fills EXCEPT ![n] = [lot |-> lot, risk |-> lot * Spec1R[n].risk,
                                              naked |-> FALSE]]
               /\ UNCHANGED answers
      <4>1. PICK new : new = [lot |-> lot, risk |-> lot * Spec1R[n].risk, naked |-> FALSE]
        OBVIOUS
      <4>2. lot * Spec1R[n].risk \in Nat
        BY <2>2
      <4>3. new \in Fill1R
        BY <4>1, <4>2 DEF Fill1R
      <4>4. new.lot <= Spec1R[n].ceiling
        BY <2>2, <3>1, <4>1
      <4> QED BY <3>2, <3>3, <4>1, <4>3, <4>4, BookWrite
    <3>4. CASE answers' = [answers EXCEPT ![n] = lot] /\ UNCHANGED fills
      <4>1. answers' \in [Traded -> Nat]
        BY <3>4
      <4>2. \A k \in Traded : answers'[k] <= Spec1R[k].ceiling
        BY <2>2, <3>1, <3>4
      <4> QED BY <3>2, <3>4, <4>1, <4>2
    <3> QED BY <2>4, <3>1, <3>3, <3>4 DEF SendEntry
  <2>5. CASE DropEntry
    BY <2>5 DEF DropEntry
  <2>6. ASSUME NEW n \in Traded, NEW filled \in BOOLEAN, AnswerEntry(n, filled)
        PROVE  SizingTypeOK'
    <3>1. PICK new : new = [lot |-> answers[n], naked |-> FALSE,
                            risk |-> answers[n] * Spec1R[n].risk]
      OBVIOUS
    <3>2. answers[n] \in Nat /\ answers[n] * Spec1R[n].risk \in Nat
      <4>1. answers[n] \in Nat /\ Spec1R[n].risk \in Nat
        BY <2>2
      <4> QED BY <4>1
    <3>3. new \in Fill1R
      BY <3>1, <3>2 DEF Fill1R
    <3>4. new.lot <= Spec1R[n].ceiling
      BY <3>1
    <3>5. /\ fills' \in [Traded -> Fill1R \cup {Void}]
          /\ \A k \in Traded : fills'[k] # Void => fills'[k].lot <= Spec1R[k].ceiling
      <4>1. CASE fills' = fills
        BY <4>1
      <4>2. CASE fills' = [fills EXCEPT ![n] = new]
        BY <3>3, <3>4, <4>2, BookWrite
      <4> QED BY <2>6, <3>1, <4>1, <4>2 DEF AnswerEntry
    <3>6. answers' = [answers EXCEPT ![n] = 0]
          /\ UNCHANGED <<account, dials, enabled1R, barred, sized>>
      BY <2>6 DEF AnswerEntry
    <3>7. answers' \in [Traded -> Nat] /\ \A k \in Traded : answers'[k] <= Spec1R[k].ceiling
      BY <2>2, <3>6
    <3> QED BY <3>5, <3>6, <3>7
  <2>7. ASSUME NEW n \in Traded, TrailStop(n) \/ StopOnOff(n) \/ CloseFill(n)
        PROVE  SizingTypeOK'
    <3>1. UNCHANGED <<account, dials, enabled1R, barred, answers, sized>>
      BY <2>7 DEF TrailStop, StopOnOff, CloseFill
    <3>2. fills[n] \in Fill1R /\ fills[n].lot <= Spec1R[n].ceiling
      BY <2>7 DEF TrailStop, StopOnOff, CloseFill, Held1R
    <3>3. PICK new \in Fill1R \cup {Void} :
              /\ fills' = [fills EXCEPT ![n] = new]
              /\ new # Void => new.lot <= Spec1R[n].ceiling
      <4>1. CASE TrailStop(n)
        <5>1. fills' = [fills EXCEPT ![n] = [fills[n] EXCEPT !.risk = 0]]
          BY <4>1 DEF TrailStop
        <5>2. /\ [fills[n] EXCEPT !.risk = 0] \in Fill1R
              /\ [fills[n] EXCEPT !.risk = 0].lot = fills[n].lot
          BY <3>2 DEF Fill1R
        <5> QED BY <3>2, <5>1, <5>2
      <4>2. CASE StopOnOff(n)
        <5>1. fills' = [fills EXCEPT ![n] = [fills[n] EXCEPT !.naked = ~fills[n].naked]]
          BY <4>2 DEF StopOnOff
        <5>2. /\ [fills[n] EXCEPT !.naked = ~fills[n].naked] \in Fill1R
              /\ [fills[n] EXCEPT !.naked = ~fills[n].naked].lot = fills[n].lot
          BY <3>2 DEF Fill1R
        <5> QED BY <3>2, <5>1, <5>2
      <4>3. CASE CloseFill(n)
        BY <4>3 DEF CloseFill
      <4> QED BY <2>7, <4>1, <4>2, <4>3
    <3> QED BY <3>1, <3>3, BookWrite
  <2>8. ASSUME NEW n \in Traded, BarSymbol(n) PROVE SizingTypeOK'
    BY <2>8 DEF BarSymbol
  <2>9. ASSUME NEW a \in Accounts, MoveAccount(a) PROVE SizingTypeOK'
    BY <2>9 DEF MoveAccount
  <2>10. ASSUME NEW d \in Panels, NEW roster \in Rosters, EditPanel(d, roster)
         PROVE  SizingTypeOK'
    BY <2>10 DEF EditPanel
  <2>11. CASE UNCHANGED sizingVars
    BY <2>11 DEF sizingVars, Fill1R
  <2> QED
    BY <2>3, <2>4, <2>5, <2>6, <2>7, <2>8, <2>9, <2>10, <2>11 DEF SizingNext
<1> QED BY <1>1, <1>2, PTL DEF SizingSpec

\* The k-th smallest of finitely many numbers is one of them.
LEMMA KthExists ==
    ASSUME NEW S, IsFiniteSet(S), NEW f, \A n \in S : f[n] \in Int,
           NEW k \in 1..Cardinality(S)
    PROVE  Kth(f, S, k) \in {f[n] : n \in S}
<1> DEFINE all == {f[n] : n \in S}
           upTo(v) == {n \in S : f[n] <= v}
           reached == {v \in all : k <= Cardinality(upTo(v))}
<1>1. /\ all \in SUBSET Int
      /\ \A v : upTo(v) \in SUBSET S /\ IsFiniteSet(upTo(v)) /\ Cardinality(upTo(v)) \in Nat
  BY FS_Subset, FS_CardinalityType
<1>2. \A T \in SUBSET all : IsFiniteSet(T)
  <2> DEFINE g == [n \in S |-> f[n]]
  <2>1. g \in Surjection(S, all)
    BY DEF Surjection
  <2>2. IsFiniteSet(all)
    <3> HIDE DEF all, g
    <3> QED BY <2>1, FS_Surjection
  <2> QED BY <2>2, FS_Subset
<1>3. Cardinality(S) \in Nat /\ 1 <= k /\ k <= Cardinality(S) /\ S # {}
  BY FS_CardinalityType, FS_EmptySet
<1>4. all # {}
  BY <1>3
<1>5. reached # {}
  <2>1. Max(all) \in all /\ \A v \in all : v <= Max(all)
    <3> HIDE DEF all
    <3> QED BY <1>1, <1>2, <1>4, MaxOfFinite
  <2>2. upTo(Max(all)) = S
    BY <2>1
  <2> QED BY <1>3, <2>1, <2>2
<1>6. PICK least \in reached : \A v \in reached : least <= v
  <2> DEFINE mirror == {-v : v \in reached}
  <2>0. reached \in SUBSET Int
    BY <1>1
  <2>1. mirror \in SUBSET Int /\ mirror # {}
    <3> HIDE DEF reached
    <3>1. \A v \in Int : -v \in Int
      OBVIOUS
    <3>2. \A v \in reached : -v \in Int
      BY <2>0, <3>1
    <3>3. mirror \subseteq Int
      BY <3>2, Zenon
    <3>4. mirror # {}
      BY <1>5, Zenon
    <3> QED BY <3>3, <3>4
  <2>2. IsFiniteSet(mirror)
    <3> DEFINE g == [v \in reached |-> -v]
    <3>1. g \in Surjection(reached, mirror)
      BY DEF Surjection
    <3>2. IsFiniteSet(reached)
      BY <1>2
    <3> HIDE DEF reached, mirror, g
    <3> QED BY <3>1, <3>2, FS_Surjection
  <2>3. Max(mirror) \in mirror /\ \A w \in mirror : w <= Max(mirror)
    <3> HIDE DEF mirror
    <3> QED BY <2>1, <2>2, MaxOfFinite
  <2>4. PICK v \in reached : Max(mirror) = -v
    BY <2>3
  <2>5. \A u \in reached : -u <= -v
    <3> HIDE DEF reached
    <3> QED BY <2>3, <2>4
  <2> HIDE DEF reached
  <2>6. \A u \in reached : v <= u
    BY <2>0, <2>5
  <2> QED BY <2>6
<1>7. Cardinality({n \in S : f[n] < least}) < k
  <2> DEFINE below == {n \in S : f[n] < least}
  <2>1. SUFFICES ASSUME k <= Cardinality(below) PROVE FALSE
    <3>1. IsFiniteSet(below) /\ Cardinality(below) \in Nat
      BY FS_Subset, FS_CardinalityType
    <3> QED BY <1>3, <3>1
  <2> DEFINE lower == {v \in all : v < least}
  <2>2. below # {}
    <3>1. Cardinality({}) = 0
      BY FS_EmptySet
    <3> HIDE DEF below
    <3> QED BY <1>3, <2>1, <3>1
  <2>3. lower \in SUBSET all /\ lower # {}
    BY <2>2
  <2>4. Max(lower) \in lower /\ \A v \in lower : v <= Max(lower)
    <3>1. IsFiniteSet(lower) /\ lower \in SUBSET Int
      BY <1>1, <1>2, <2>3
    <3> HIDE DEF lower
    <3> QED BY <2>3, <3>1, MaxOfFinite
  <2>5. PICK top \in all : top = Max(lower) /\ top < least
    BY <2>4
  <2>6. upTo(top) = below
    BY <1>1, <2>4, <2>5
  <2>7. top \in reached
    BY <2>1, <2>6
  <2> QED BY <1>1, <1>6, <2>5, <2>7
<1>8. \E v \in all : /\ Cardinality({n \in S : f[n] < v}) < k
                     /\ k <= Cardinality({n \in S : f[n] <= v})
  BY <1>6, <1>7
<1> QED BY <1>8 DEF Kth

\* A roster is finite, and so is the part of it that is vacant.
LEMMA VacantFinite ==
    ASSUME DeskTypes
    PROVE  IsFiniteSet(Vacant) /\ Vacant \in SUBSET Traded
<1>1. enabled1R \in SUBSET Traded
  BY DeskParts
<1>2. Vacant \in SUBSET Traded
  BY <1>1 DEF Vacant
<1> QED BY <1>2, SizingSymbols, FS_Subset

\* Every vacant symbol weighs something, so that all of them do.
LEMMA MinWeightType ==
    ASSUME DeskTypes PROVE MinWeight \in Nat /\ MinWeight >= 20
<1> DEFINE paid == {n \in Vacant : Spec1R[n].exp > 0}
           exp == [n \in Traded |-> Spec1R[n].exp]
           c == Cardinality(paid)
<1>1. paid \in SUBSET Traded /\ IsFiniteSet(paid)
  BY VacantFinite, FS_Subset
<1>2. \A n \in Traded : exp[n] \in Int
  BY SizingSymbols DEF SizedSymbol
<1>3. CASE paid = {}
  BY <1>3 DEF MinWeight
<1>4. CASE paid # {}
  <2>1. c \in Nat \ {0}
    BY <1>1, <1>4, FS_CardinalityType, FS_EmptySet
  <2>2. (c + 1) \div 2 \in 1..c /\ c \div 2 + 1 \in 1..c
    <3> HIDE DEF c
    <3> QED BY <2>1
  <2>3. \A n \in paid : exp[n] \in Int
    BY <1>1, <1>2
  <2> HIDE DEF paid, exp
  <2>4. {exp[n] : n \in paid} \subseteq Int
    BY <2>3
  <2>5. Kth(exp, paid, (c + 1) \div 2) \in Int /\ Kth(exp, paid, c \div 2 + 1) \in Int
    <3>1. Kth(exp, paid, (c + 1) \div 2) \in {exp[n] : n \in paid}
      BY <1>1, <2>2, <2>3, KthExists
    <3>2. Kth(exp, paid, c \div 2 + 1) \in {exp[n] : n \in paid}
      BY <1>1, <2>2, <2>3, KthExists
    <3> QED BY <2>4, <3>1, <3>2
  <2>6. PICK t \in Int : t = TwiceMedian(exp, paid)
    BY <2>5 DEF TwiceMedian
  <2>7. (3 * t) \div 4 \in Int
    OBVIOUS
  <2>8. PICK x \in Int : x = (3 * TwiceMedian(exp, paid)) \div 4
    BY <2>6, <2>7
  <2>9. Max({20, x}) \in {20, x} /\ Max({20, x}) >= 20
    <3>1. PICK k \in Int : k = 20
      OBVIOUS
    <3>2. Max({k, x}) \in {k, x} /\ Max({k, x}) >= k
      BY ONLY LargerSmaller, x \in Int, k \in Int
    <3> QED BY <3>1, <3>2
  <2>10. MinWeight = Max({20, x})
    BY <1>4, <2>8 DEF MinWeight, paid, exp
  <2> QED BY <2>9, <2>10
<1> QED BY <1>3, <1>4

LEMMA WeightType ==
    ASSUME DeskTypes, NEW n \in Traded PROVE Weight1R(n) \in Nat /\ Weight1R(n) >= 20
<1>1. PICK e \in Nat, h \in Nat : e = Spec1R[n].exp /\ h = Health[n]
  BY SizingSymbols DEF SizedSymbol
<1>2. PICK m \in Nat : m = MinWeight /\ m >= 20
  BY MinWeightType
<1>3. PICK core \in Nat :
          core = IF h = 0 THEN 10 * e ELSE IF e > 0 THEN (7 + 3 * h) * e ELSE 20 * h
  <2>1. (7 + 3 * h) * e \in Nat
    <3>1. PICK a \in Nat : a = 7 + 3 * h
      OBVIOUS
    <3>2. a * e \in Nat
      OBVIOUS
    <3> QED BY <3>1, <3>2
  <2> QED BY <2>1
<1>4. Weight1R(n) = core + m
  BY <1>1, <1>2, <1>3 DEF Weight1R
<1> QED BY <1>2, <1>4

\* The shares are shares of something.
LEMMA AllWeightsType ==
    ASSUME DeskTypes, NEW n \in Vacant PROVE AllWeights \in Nat \ {0}
<1> DEFINE w == [m \in Vacant |-> Weight1R(m)]
           zero == [m \in Vacant |-> 0]
           others == Vacant \ {n}
<1>1. IsFiniteSet(Vacant) /\ IsFiniteSet(others) /\ Vacant \in SUBSET Traded
  BY VacantFinite, FS_Subset
<1>2. \A m \in Vacant : w[m] \in Nat /\ w[m] >= 20
  BY <1>1, WeightType
<1>3. \A m \in others : zero[m] = 0 /\ zero[m] <= w[m]
  BY <1>2
<1>4. AllWeights = SumFunctionOnSet(w, Vacant)
  BY DEF AllWeights, SumFunction
<1>5. Summed(w, Vacant) /\ Summed(w, others)
  BY <1>1, <1>2 DEF Summed
<1>6. w[n] >= 20 /\ w[n] \in Nat
  BY <1>2
<1> HIDE DEF w, zero, others
<1>7. Summed(zero, others) /\ SumFunctionOnSet(zero, others) = 0 * Cardinality(others)
  BY <1>1, <1>3, SumConstant
<1>8. Cardinality(others) \in Nat
  BY <1>1, FS_CardinalityType
<1>9. SumFunctionOnSet(zero, others) <= SumFunctionOnSet(w, others)
  BY <1>3, <1>5, <1>7, SumMonotone
<1>10. SumFunctionOnSet(w, Vacant) = w[n] + SumFunctionOnSet(w, others)
  BY <1>5, SumPoint DEF others
<1>11. SumFunctionOnSet(w, others) \in Int
  BY <1>5, SumStep
<1>12. SumFunctionOnSet(zero, others) = 0
  BY <1>7, <1>8
<1> QED BY <1>4, <1>6, <1>9, <1>10, <1>11, <1>12

\* What the dial, the soft limit and the free margin leave is never negative.
LEMMA MarginBudgetType ==
    ASSUME SizingTypeOK PROVE MarginBudget \in Nat
<1> DEFINE needs == [n \in Held1R |-> fills[n].lot * Spec1R[n].need]
<1>1. DeskTypes
  BY DEF SizingTypeOK, DeskTypes
<1>2. Used \in Int
  <2>1. \A n \in Held1R : needs[n] \in Int
    <3>1. TAKE n \in Held1R
    <3>2. fills[n] \in Fill1R /\ n \in Traded
      BY DEF SizingTypeOK, Held1R
    <3>3. PICK l \in Nat, d \in Nat : l = fills[n].lot /\ d = Spec1R[n].need
      BY <3>2, SizingSymbols DEF Fill1R, SizedSymbol
    <3>4. l * d \in Int
      OBVIOUS
    <3> QED BY <3>3, <3>4
  <2>2. IsFiniteSet(Held1R)
    BY SizingSymbols, FS_Subset DEF Held1R
  <2>3. Summed(needs, Held1R)
    BY <2>1, <2>2 DEF Summed
  <2>4. Used = SumFunctionOnSet(needs, Held1R)
    BY DEF Used, SumFunction
  <2> HIDE DEF needs
  <2> QED BY <2>3, <2>4, SumStep
<1>3. PICK u \in Int, e \in Nat, p \in Nat, least \in Nat :
          u = Used /\ e = account.equity /\ p = dials.usage /\ least = MinFree
  BY <1>1, <1>2, DeskParts, SizingDials
<1>4. PICK free \in Int : free = FreeMargin /\ free = e - u
  BY <1>3 DEF FreeMargin
<1>5. PICK part \in Int : part = (e * p) \div 100 - u
  <2>1. PICK x \in Int : x = e * p
    OBVIOUS
  <2> QED BY <2>1
<1>6. PICK soft \in Int : soft = (e * 95) \div 100 - u
  OBVIOUS
<1>7. PICK dial \in Int : dial = IF p > 0 THEN Max({0, part}) ELSE free
  <2>1. Max({0, part}) \in {0, part}
    BY ONLY LargerSmaller, part \in Int
  <2> QED BY <2>1
<1>8. PICK under \in Int : under = Min({dial, soft})
  <2>1. Min({dial, soft}) \in {dial, soft}
    BY ONLY LargerSmaller, dial \in Int, soft \in Int
  <2> QED BY <2>1
<1>9. PICK capped \in Int : capped = IF dials.auto THEN Max({0, under}) ELSE dial
  <2>1. Max({0, under}) \in {0, under}
    BY ONLY LargerSmaller, under \in Int
  <2> QED BY <2>1
<1>10. PICK kept \in Int : kept = free - least
  OBVIOUS
<1>11. PICK left \in Int : left = Min({capped, kept})
  <2>1. Min({capped, kept}) \in {capped, kept}
    BY ONLY LargerSmaller, capped \in Int, kept \in Int
  <2> QED BY <2>1
<1>12. Max({0, left}) \in {0, left} /\ Max({0, left}) >= 0
  BY ONLY LargerSmaller, left \in Int
<1>13. MarginBudget = Max({0, left})
  BY <1>3, <1>4, <1>5, <1>6, <1>7, <1>8, <1>9, <1>10, <1>11 DEF MarginBudget
<1> QED BY <1>11, <1>12, <1>13

\* Where the whole budget carries the minimum lot, the share of a vacant
\* symbol does too: its own share, or all of it when its own is too small.
LEMMA ShareCarriesFloor ==
    ASSUME SizingTypeOK, NEW n \in Vacant, NEW scale \in Nat,
           MarginBudget * scale >= 10 * Spec1R[n].need * Spec1R[n].floor
    PROVE  MarginLots(n, scale) >= Spec1R[n].floor /\ MarginLots(n, scale) \in Int
<1>1. DeskTypes /\ n \in Traded
  BY VacantFinite DEF SizingTypeOK, DeskTypes
<1>2. PICK f \in Nat \ {0}, c \in Nat, d \in Nat \ {0} :
          f = Spec1R[n].floor /\ c = Spec1R[n].ceiling /\ d = Spec1R[n].need /\ f <= c
  BY <1>1, SizingSymbols DEF SizedSymbol
<1>3. PICK whole \in Nat : whole = MarginBudget * scale
  <2>1. PICK b \in Nat : b = MarginBudget
    BY MarginBudgetType
  <2>2. b * scale \in Nat
    OBVIOUS
  <2> QED BY <2>1, <2>2
<1>4. PICK weight \in Nat : weight = Weight1R(n)
  BY <1>1, WeightType
<1>5. PICK total \in Nat \ {0} : total = AllWeights
  BY <1>1, AllWeightsType
<1>6. PICK least \in Nat : least = 10 * d * f
  OBVIOUS
<1>7. whole >= least
  BY <1>2, <1>3, <1>6
<1>8. PICK d10 \in Nat \ {0} : d10 = 10 * d
  OBVIOUS
<1>9. least = d10 * f
  BY <1>6, <1>8
<1>10. PICK alone \in Int : alone = whole \div d10
  OBVIOUS
<1>11. f <= alone
  <2>1. whole < d10 * alone + d10
    BY <1>10, DivParts
  <2>2. d10 * f \in Int /\ d10 * alone \in Int
    OBVIOUS
  <2>3. d10 * f < d10 * alone + d10
    BY <1>7, <1>9, <2>1, <2>2
  <2> QED BY <2>3, Cancels
<1>12. PICK wide \in Nat \ {0} : wide = total * 10 * d
  <2>1. PICK x \in Nat \ {0} : x = total * 10
    OBVIOUS
  <2>2. x * d \in Nat \ {0}
    OBVIOUS
  <2> QED BY <2>1, <2>2
<1>13. PICK mine \in Nat : mine = whole * weight
  OBVIOUS
<1>14. PICK own \in Int : own = mine \div wide
  OBVIOUS
<1>15. least * total <= mine => f <= own
  <2>1. SUFFICES ASSUME least * total <= mine PROVE f <= own
    OBVIOUS
  <2>2. least * total = wide * f
    <3>1. wide = total * d10
      BY <1>8, <1>12
    <3>2. (d10 * f) * total = (total * d10) * f
      OBVIOUS
    <3> QED BY <1>9, <3>1, <3>2
  <2>3. mine < wide * own + wide
    BY <1>14, DivParts
  <2>4. wide * f \in Int /\ wide * own \in Int
    OBVIOUS
  <2>5. wide * f < wide * own + wide
    BY <2>1, <2>2, <2>3, <2>4
  <2> QED BY <2>5, Cancels
<1>16. MarginLots(n, scale) =
          IF mine < least * total THEN Min({c, alone}) ELSE Min({c, own})
  <2>1. Vacant # {}
    OBVIOUS
  <2> QED
    BY <1>2, <1>3, <1>4, <1>5, <1>6, <1>7, <1>8, <1>10, <1>12, <1>13, <1>14, <2>1
    DEF MarginLots
<1>17. /\ Min({c, alone}) \in {c, alone}
       /\ Min({c, own}) \in {c, own}
  BY ONLY LargerSmaller, c \in Int, alone \in Int, own \in Int
<1>18. least * total \in Nat
  OBVIOUS
<1>19. mine < least * total \/ least * total <= mine
  BY <1>18
<1> QED BY <1>2, <1>11, <1>15, <1>16, <1>17, <1>18, <1>19

\* Where the budget, whole, carries a minimum lot that the 1R ceiling allows,
\* no split of it over the vacant symbols sizes the entry away ("splitting
\* across vacant names must not zero every entry on a small account").
THEOREM SmallBookSafe == SizingSpec => []SmallBookTrades
<1>1. SizingTypeOK => SmallBookTrades
  <2> SUFFICES ASSUME SizingTypeOK, NEW n \in Vacant, NEW scale \in Throttles \ {0},
                      Spec1R[n].percent > 0,
                      MarginBudget * scale >= 10 * Spec1R[n].need * Spec1R[n].floor,
                      Spec1R[n].floor * Spec1R[n].risk * Micro <= Ceiling1R(n, scale)
               PROVE  LotFor(n, scale) >= Spec1R[n].floor
    BY DEF SmallBookTrades
  <2>1. scale \in Nat /\ scale # 0
    BY SizingDials
  <2>2. DeskTypes /\ n \in Traded
    BY VacantFinite DEF SizingTypeOK, DeskTypes
  <2>3. PICK f \in Nat, c \in Nat : f = Spec1R[n].floor /\ c = Spec1R[n].ceiling /\ f <= c
    BY <2>2, SizingSymbols DEF SizedSymbol
  <2>4. MarginLots(n, scale) \in Int /\ MarginLots(n, scale) >= f
    BY <2>1, <2>3, ShareCarriesFloor
  <2> DEFINE fits == {k \in f..c : k <= MarginLots(n, scale)
                                   /\ k * Spec1R[n].risk * Micro <= Ceiling1R(n, scale)}
  <2>5. f \in fits
    BY <2>3, <2>4
  <2>6. fits \in SUBSET (f..c)
    OBVIOUS
  <2>7. ~(Spec1R[n].percent = 0 \/ scale = 0 \/ MarginLots(n, scale) < Spec1R[n].floor)
    <3>1. Spec1R[n].percent # 0
      OBVIOUS
    <3> QED BY <2>1, <2>3, <2>4, <3>1
  <2>8. LotFor(n, scale) = Max(fits)
    BY <2>3, <2>5, <2>7 DEF LotFor
  <2> HIDE DEF fits
  <2>9. IsFiniteSet(f..c)
    <3>1. f \in Int /\ c \in Int
      OBVIOUS
    <3> QED BY <3>1, FS_Interval
  <2>10. IsFiniteSet(fits) /\ fits \in SUBSET Int
    <3>1. f..c \subseteq Int
      OBVIOUS
    <3> QED BY <2>6, <2>9, <3>1, FS_Subset
  <2>11. Max(fits) >= f
    BY <2>5, <2>10, MaxOfFinite
  <2> QED BY <2>3, <2>8, <2>11
<1> QED BY <1>1, SizingTyped, PTL
=============================================================================
