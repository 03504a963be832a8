--------------------------- MODULE Search_proofs ----------------------------
(***************************************************************************)
(* The search.  Its jobs (OptimizerJobs), for every book, grid of sweeps,  *)
(* pool and number of calls: the types, that a symbol is reported once,    *)
(* and that a cancel lets at most one symbol be written after it.  The     *)
(* replay that scores it (Replay), for every set of prices, costs and      *)
(* stop distances and every length of the window: what a trade can lose,   *)
(* and that none outlives its stop.  The sweep of a grid (GridSweep), for  *)
(* every grid, budget and number of rounds: the types, the budget, and     *)
(* that the winner is no spike among losers.  What a run may spend and     *)
(* announces (SearchBudget), for every set of families, and whom it puts   *)
(* forward (SearchPick), for every list of candidates.                     *)
(***************************************************************************)
EXTENDS OptimizerJobs, SearchBudget, SearchPick, Replay, GridSweep, FiniteFacts

Closes(s) == closing # None /\ closing.symbol = s

\* Where a planned symbol stands: its sweeps are counted down to its
\* close-out, and from then on it is either in the close-out or reported.
Accounted(s) ==
    /\ plans[s] = None => reports[s] = 0 /\ ~Closes(s)
    /\ plans[s] # None /\ plans[s].outstanding > 0 =>
          /\ plans[s].outstanding = Cardinality(plans[s].jobs \ plans[s].measured)
          /\ reports[s] = 0 /\ ~Closes(s)
    /\ plans[s] # None /\ plans[s].outstanding <= 0 =>
          \/ Closes(s) /\ reports[s] = 0
          \/ ~Closes(s) /\ reports[s] = 1

\* What the harvest holds is still owed.
BatchOwed ==
    \A x \in batch :
        /\ plans[x[1]] # None /\ plans[x[1]].outstanding > 0
        /\ x[2] \in plans[x[1]].jobs \ plans[x[1]].measured

AllReported == \A s \in Symbols : plans[s] # None => reports[s] = 1

\* The ledger of a run, while its thread is alive.
RunInv ==
    /\ \A s \in Symbols : reports[s] <= 1
    /\ thread = None => closing = None
    /\ thread # None =>
          /\ \A s \in Symbols : Accounted(s)
          /\ \A s \in todo : plans[s] = None
          /\ BatchOwed
          /\ thread.at \in {"finish", "ended"} => closing = None
          /\ thread.at = "finish" => cancel \/ AllReported
          /\ thread.at = "ended" => thread.cancelled \/ AllReported

\* Only a symbol past its last check is written late, and then none other is
\* past it.
LateInv ==
    /\ late <= 1
    /\ ~cancel => late = 0
    /\ late = 1 /\ closing # None => closing.at # "apply"

IInv == TypeOK /\ RunInv /\ LateInv

-----------------------------------------------------------------------------
(* Sweeps are counted.                                                     *)

LEMMA SweepsFinite ==
    ASSUME NEW jobs \in SUBSET Sweeps
    PROVE  IsFiniteSet(jobs) /\ Cardinality(jobs) \in Nat
<1> DEFINE Pairs == (Windows \X Frames) \X Families
           pair == [j \in Sweeps |-> <<<<j[1], j[2]>>, j[3]>>]
<1>1. IsFiniteSet(Pairs)
  BY FiniteAssumption, FS_Product
<1>2. pair \in Injection(Sweeps, Pairs)
  BY DEF Injection, IsInjective, Sweeps
<1>3. IsFiniteSet(Sweeps)
  BY <1>1, <1>2, FS_Injection
<1> QED
  BY <1>3, FS_Subset, FS_CardinalityType

\* One sweep less to count.
LEMMA CountDown ==
    ASSUME NEW left \in SUBSET Sweeps, NEW j \in left
    PROVE  Cardinality(left \ {j}) = Cardinality(left) - 1
BY SweepsFinite, FS_RemoveElement

LEMMA CountEmpty ==
    ASSUME NEW left \in SUBSET Sweeps
    PROVE  Cardinality(left) = 0 <=> left = {}
BY SweepsFinite, FS_EmptySet

-----------------------------------------------------------------------------
(* The types.                                                              *)

LEMMA CloseOutType ==
    ASSUME TypeOK, thread # None, NEW s \in Symbols, NEW again \in BOOLEAN
    PROVE  /\ CloseOut(s, again) \in Closing
           /\ CloseOut(s, again).symbol = s
           /\ CloseOut(s, again).at = "decide"
BY AbsentAssumption DEF TypeOK, CloseOut, Wanted, Closing, Thread

LEMMA PlanOfType ==
    ASSUME TypeOK, NEW s \in Symbols,
           NEW shortlist \in SUBSET Windows, NEW enough \in SUBSET Frames
    PROVE  LET jobs == Planned(shortlist, enough)
               p == PlanOf(s, jobs)
           IN  /\ jobs \in SUBSET Sweeps
               /\ p \in Plan /\ p # None
               /\ p.jobs = jobs /\ p.measured = {}
               /\ p.outstanding = Cardinality(jobs) /\ p.outstanding \in Nat
<1> DEFINE jobs == Planned(shortlist, enough)
           p == PlanOf(s, jobs)
<1>1. jobs \in SUBSET Sweeps
  BY DEF Planned, Sweeps
<1>2. Cardinality(jobs) \in Nat
  BY <1>1, SweepsFinite
<1>3. p \in Plan
  BY <1>1, <1>2 DEF PlanOf, Plan
<1>4. p # None
  BY <1>3, AbsentAssumption
<1> QED
  BY <1>1, <1>2, <1>3, <1>4 DEF PlanOf

\* What a planned symbol's record is.
LEMMA PlanParts ==
    ASSUME TypeOK, NEW s \in Symbols, plans[s] # None
    PROVE  /\ plans[s] \in Plan
           /\ plans[s].outstanding \in Int
           /\ plans[s].jobs \in SUBSET Sweeps /\ plans[s].measured \in SUBSET Sweeps
           /\ Cardinality(plans[s].jobs) \in Nat
           /\ plans[s].outstanding <= Cardinality(plans[s].jobs)
<1>1. plans[s] \in Plan
  BY DEF TypeOK
<1>2. /\ plans[s].outstanding \in Int
      /\ plans[s].jobs \in SUBSET Sweeps /\ plans[s].measured \in SUBSET Sweeps
  BY <1>1 DEF Plan
<1>3. Cardinality(plans[s].jobs) \in Nat
  BY <1>2, SweepsFinite
<1> QED
  BY <1>1, <1>2, <1>3 DEF TypeOK

\* One sweep counted down.
LEMMA CountedType ==
    ASSUME NEW p \in Plan, NEW left \in Int
    PROVE  LET q == [p EXCEPT !.outstanding = left]
           IN  /\ q \in Plan /\ q # None
               /\ q.jobs = p.jobs /\ q.measured = p.measured /\ q.outstanding = left
<1>1. LET q == [p EXCEPT !.outstanding = left]
      IN  q \in Plan /\ q.jobs = p.jobs /\ q.measured = p.measured /\ q.outstanding = left
  BY DEF Plan
<1> QED
  BY <1>1, AbsentAssumption

\* A step that leaves the run alone keeps its part of the types.
RunType ==
    /\ targets \subseteq Symbols /\ todo \subseteq targets
    /\ plans \in [Symbols -> Plan \cup {None}]
    /\ \A s \in Symbols : plans[s] # None =>
          /\ plans[s].measured \subseteq plans[s].jobs
          /\ plans[s].outstanding <= Cardinality(plans[s].jobs)
    /\ batch \subseteq Symbols \X Sweeps
    /\ closing \in Closing \cup {None}
    /\ reports \in [Symbols -> Nat] /\ late \in Nat

HeadType ==
    /\ book \subseteq Symbols /\ on \subseteq book /\ stamped \subseteq book
    /\ thread \in Thread \cup {None}
    /\ job \in States /\ last \in States /\ cancel \in BOOLEAN
    /\ canceller \in {None, "set", "store", "mark"}
    /\ starts \in 0..MaxStarts /\ cancels \in 0..MaxCancels
    /\ edits \in 0..MaxEdits /\ troubles \in 0..MaxTroubles

LEMMA TypeParts == TypeOK <=> RunType /\ HeadType
BY DEF TypeOK, RunType, HeadType

LEMMA TypePartsNext == TypeOK' <=> RunType' /\ HeadType'
BY DEF TypeOK, RunType, HeadType

\* The counters have room for one more.
LEMMA Counters ==
    ASSUME HeadType
    PROVE  /\ starts < MaxStarts => starts + 1 \in 0..MaxStarts
           /\ cancels < MaxCancels => cancels + 1 \in 0..MaxCancels
           /\ edits < MaxEdits => edits + 1 \in 0..MaxEdits
           /\ troubles < MaxTroubles => troubles + 1 \in 0..MaxTroubles
BY BoundAssumption DEF HeadType

LEMMA PlanNextType ==
    ASSUME TypeOK, NEW s \in Symbols, NEW shortlist \in SUBSET Windows,
           NEW enough \in SUBSET Frames, PlanNext(s, shortlist, enough)
    PROVE  TypeOK'
<1> DEFINE jobs == Planned(shortlist, enough)
           p == PlanOf(s, jobs)
<1>0. RunType /\ HeadType /\ thread # None
  BY TypeParts DEF PlanNext, Step
<1>1. /\ jobs \in SUBSET Sweeps /\ p \in Plan /\ p # None
      /\ p.jobs = jobs /\ p.measured = {}
      /\ p.outstanding = Cardinality(jobs) /\ p.outstanding \in Nat
  BY PlanOfType
<1>2. CloseOut(s, FALSE) \in Closing
  BY <1>0, CloseOutType
<1>3. /\ todo' = todo \ {s}
      /\ \/ plans' = [plans EXCEPT ![s] = p] \/ plans' = plans
      /\ closing' \in {CloseOut(s, FALSE), None, closing}
      /\ UNCHANGED <<store, thread, control, targets, batch, reports, late, bounds>>
  BY DEF PlanNext
<1>4. plans' \in [Symbols -> Plan \cup {None}]
  BY <1>0, <1>1, <1>3 DEF RunType
<1>5. ASSUME NEW u \in Symbols, plans'[u] # None
      PROVE  /\ plans'[u].measured \subseteq plans'[u].jobs
             /\ plans'[u].outstanding <= Cardinality(plans'[u].jobs)
  <2>1. CASE plans'[u] = plans[u]
    BY <1>0, <1>5, <2>1 DEF RunType
  <2>2. CASE plans'[u] = p
    BY <1>1, <2>2
  <2> QED
    BY <1>0, <1>3, <2>1, <2>2 DEF RunType
<1>6. RunType'
  BY <1>0, <1>2, <1>3, <1>4, <1>5 DEF RunType
<1>7. HeadType'
  BY <1>0, <1>3 DEF HeadType, store, control, bounds
<1> QED
  BY <1>6, <1>7, TypePartsNext

LEMMA NoteType ==
    ASSUME TypeOK, BatchOwed, NEW s, NEW j, <<s, j>> \in batch, Note(s, j)
    PROVE  TypeOK'
<1>0. RunType /\ HeadType /\ thread # None
  BY TypeParts DEF Note, Step
<1>1. s \in Symbols /\ j \in Sweeps
  BY <1>0 DEF RunType
<1>2. plans[s] # None /\ j \in plans[s].jobs /\ plans[s] \in Plan
  BY <1>0, <1>1 DEF BatchOwed, RunType
<1>3. CloseOut(s, FALSE) \in Closing
  BY <1>0, <1>1, CloseOutType
<1> DEFINE seen == plans[s].measured \cup {j}
           left == plans[s].outstanding - 1
           p == [plans[s] EXCEPT !.measured = seen, !.outstanding = left]
<1>4. /\ p \in Plan /\ p.jobs = plans[s].jobs
      /\ p.measured = plans[s].measured \cup {j}
      /\ p.outstanding = plans[s].outstanding - 1
  <2>1. seen \in SUBSET Sweeps /\ left \in Int
    BY <1>1, <1>2, PlanParts
  <2> HIDE DEF seen, left
  <2>2. /\ p \in Plan /\ p.jobs = plans[s].jobs
        /\ p.measured = seen /\ p.outstanding = left
    BY <1>2, <2>1 DEF Plan
  <2> QED
    BY <2>2 DEF seen, left
<1>5. /\ plans' = [plans EXCEPT ![s] = p]
      /\ batch' \subseteq batch
      /\ closing' \in {CloseOut(s, FALSE), None}
      /\ UNCHANGED <<store, thread, control, targets, todo, reports, late, bounds>>
  BY DEF Note
<1>6. p.measured \subseteq p.jobs /\ p.outstanding <= Cardinality(p.jobs)
  BY <1>1, <1>2, <1>4, PlanParts DEF TypeOK
<1>7. RunType'
  BY <1>0, <1>1, <1>3, <1>4, <1>5, <1>6 DEF RunType
<1>8. HeadType'
  BY <1>0, <1>5 DEF HeadType, store, control, bounds
<1> QED
  BY <1>7, <1>8, TypePartsNext

LEMMA RaiseType ==
    ASSUME TypeOK, RunInv, Raise
    PROVE  TypeOK'
<1>0. RunType /\ HeadType /\ thread # None /\ closing \in Closing
  BY TypeParts DEF Raise, RunType
<1> DEFINE s == closing.symbol
           left == plans[s].outstanding - 1
           p == [plans[s] EXCEPT !.outstanding = left]
<1>1. s \in Symbols
  BY <1>0 DEF Closing
<1>2. /\ troubles' \in 0..MaxTroubles
      /\ UNCHANGED <<store, last, cancel, canceller, targets, todo, reports, late,
                     starts, cancels, edits>>
  BY <1>0, Counters DEF Raise
<1>3. CASE /\ plans' = [plans EXCEPT ![s] = p]
           /\ closing' = CloseOut(s, TRUE)
           /\ UNCHANGED <<thread, job, batch>>
  <2>1. closing' \in Closing
    BY <1>0, <1>1, <1>3, CloseOutType
  <2>2. plans[s] # None
    BY <1>0, <1>1, AbsentAssumption DEF RunInv, Accounted, Closes
  <2>3. /\ p \in Plan /\ p.jobs = plans[s].jobs
        /\ p.measured = plans[s].measured
        /\ p.outstanding <= Cardinality(p.jobs)
    <3>1. plans[s] \in Plan /\ left \in Int /\ left <= Cardinality(plans[s].jobs)
      BY <1>1, <2>2, PlanParts
    <3> HIDE DEF left
    <3> QED
      BY <3>1, CountedType
  <2>4. p.measured \subseteq p.jobs
    BY <1>1, <2>2, <2>3 DEF TypeOK
  <2>5. RunType'
    BY <1>0, <1>1, <1>2, <1>3, <2>1, <2>3, <2>4 DEF RunType
  <2> QED
    BY <1>0, <1>2, <1>3, <2>5, TypePartsNext DEF HeadType, store
<1>4. CASE Failed /\ closing' = None /\ batch' = {} /\ UNCHANGED plans
  <2>1. RunType'
    BY <1>0, <1>2, <1>4 DEF RunType
  <2> QED
    BY <1>0, <1>2, <1>4, <2>1, TypePartsNext DEF HeadType, store, Failed, States
<1> QED
  BY <1>3, <1>4 DEF Raise


-----------------------------------------------------------------------------
(* The ledger of a run.                                                    *)

\* A step of the thread, or of nobody, that leaves the run alone.
LEMMA RunStill ==
    ASSUME RunInv, thread # None, closing = None, UNCHANGED run,
           thread'.at \notin {"finish", "ended"}
    PROVE  RunInv'
<1>1. UNCHANGED <<todo, plans, batch, closing, reports>>
  BY DEF run
<1>2. \A s \in Symbols : Accounted(s)'
  BY <1>1 DEF RunInv, Accounted, Closes
<1>3. BatchOwed'
  BY <1>1 DEF RunInv, BatchOwed
<1> QED
  BY <1>1, <1>2, <1>3 DEF RunInv

LEMMA RunEnds ==
    ASSUME RunInv, closing = None, thread' = None, UNCHANGED <<reports, closing>>
    PROVE  RunInv'
BY DEF RunInv

LEMMA RunBystander ==
    ASSUME RunInv, UNCHANGED run, UNCHANGED thread, cancel => cancel'
    PROVE  RunInv'
BY DEF RunInv, run, Accounted, Closes, BatchOwed, AllReported

LEMMA PlanNextRun ==
    ASSUME TypeOK, RunInv, NEW s \in Symbols, NEW shortlist \in SUBSET Windows,
           NEW enough \in SUBSET Frames, PlanNext(s, shortlist, enough)
    PROVE  RunInv'
<1> DEFINE jobs == Planned(shortlist, enough)
           p == PlanOf(s, jobs)
<1>1. /\ thread # None /\ thread.at = "plan" /\ closing = None
      /\ s \in todo /\ todo' = todo \ {s}
      /\ UNCHANGED <<thread, cancel, targets, batch, reports>>
  BY DEF PlanNext, Step, control
<1>2. /\ \A u \in Symbols : reports[u] <= 1 /\ Accounted(u)
      /\ \A u \in todo : plans[u] = None
      /\ BatchOwed
  BY <1>1 DEF RunInv
<1>3. CASE s \notin book
  <2>1. UNCHANGED <<plans, closing>>
    BY <1>3 DEF PlanNext
  <2> QED
    BY <1>1, <1>2, <2>1 DEF RunInv, Accounted, Closes, BatchOwed
<1>4. CASE s \in book
  <2>1. /\ plans' = [plans EXCEPT ![s] = p]
        /\ closing' = IF jobs = {} THEN CloseOut(s, FALSE) ELSE None
    BY <1>4 DEF PlanNext
  <2>2. /\ jobs \in SUBSET Sweeps
        /\ p \in Plan /\ p # None
        /\ p.jobs = jobs /\ p.measured = {}
        /\ p.outstanding = Cardinality(jobs) /\ p.outstanding \in Nat
    BY PlanOfType
  <2>3. CloseOut(s, FALSE) # None /\ CloseOut(s, FALSE).symbol = s
    BY <1>1, CloseOutType, AbsentAssumption
  <2>4. jobs = {} <=> p.outstanding = 0
    BY <2>2, CountEmpty
  <2>5. plans[s] = None /\ reports[s] = 0
    BY <1>1, <1>2 DEF Accounted
  <2>6. plans' \in [Symbols -> Plan \cup {None}] /\ plans'[s] = p
        /\ \A u \in Symbols \ {s} : plans'[u] = plans[u]
    BY <2>1, <2>2 DEF TypeOK
  <2> HIDE DEF p, jobs
  <2>7. Accounted(s)'
    <3>1. p.jobs \ p.measured = p.jobs
      BY <2>2
    <3>2. Closes(s)' <=> p.outstanding = 0
      BY <2>1, <2>3, <2>4 DEF Closes
    <3> QED
      BY <1>1, <2>2, <2>5, <2>6, <3>1, <3>2 DEF Accounted
  <2>8. ASSUME NEW u \in Symbols \ {s}
        PROVE  Accounted(u)'
    <3>1. Accounted(u) /\ ~Closes(u) /\ ~Closes(u)'
      BY <1>1, <1>2, <2>1, <2>3 DEF Closes
    <3> QED
      BY <1>1, <2>6, <3>1 DEF Accounted
  <2>9. BatchOwed'
    BY <1>1, <1>2, <2>5, <2>6 DEF BatchOwed, TypeOK
  <2>10. \A u \in todo' : plans'[u] = None
    BY <1>1, <1>2, <2>6 DEF TypeOK
  <2> QED
    BY <1>1, <1>2, <2>7, <2>8, <2>9, <2>10 DEF RunInv
<1> QED
  BY <1>3, <1>4

LEMMA NoteRun ==
    ASSUME TypeOK, RunInv, NEW s, NEW j, <<s, j>> \in batch, Note(s, j)
    PROVE  RunInv'
<1>1. /\ thread # None /\ thread.at = "sweep" /\ closing = None
      /\ UNCHANGED <<thread, cancel, targets, todo, reports>>
      /\ batch' = batch \ {<<s, j>>}
  BY DEF Note, Step, control
<1>2. /\ \A u \in Symbols : reports[u] <= 1 /\ Accounted(u)
      /\ \A u \in todo : plans[u] = None
      /\ BatchOwed
  BY <1>1 DEF RunInv
<1>3. s \in Symbols /\ j \in Sweeps
  BY DEF TypeOK
<1> DEFINE seen == plans[s].measured \cup {j}
           left == plans[s].outstanding - 1
           p == [plans[s] EXCEPT !.measured = seen, !.outstanding = left]
<1>4. /\ plans[s] # None /\ plans[s].outstanding > 0
      /\ j \in plans[s].jobs \ plans[s].measured
      /\ plans[s] \in Plan /\ plans[s].outstanding \in Int
      /\ plans[s].jobs \in SUBSET Sweeps /\ plans[s].measured \in SUBSET Sweeps
  BY <1>2, <1>3, PlanParts DEF BatchOwed
<1>5. /\ plans[s].outstanding = Cardinality(plans[s].jobs \ plans[s].measured)
      /\ reports[s] = 0
  BY <1>2, <1>3, <1>4 DEF Accounted
<1>6. left = Cardinality(plans[s].jobs \ seen) /\ left \in Int /\ seen \in SUBSET Sweeps
  <2>1. plans[s].jobs \ seen = (plans[s].jobs \ plans[s].measured) \ {j}
    OBVIOUS
  <2> QED
    BY <1>3, <1>4, <1>5, <2>1, CountDown
<1>7. /\ plans' = [plans EXCEPT ![s] = p]
      /\ closing' = IF left <= 0 THEN CloseOut(s, FALSE) ELSE None
  BY DEF Note
<1>8. CloseOut(s, FALSE) # None /\ CloseOut(s, FALSE).symbol = s
  BY <1>1, <1>3, CloseOutType, AbsentAssumption
<1>9. /\ p \in Plan /\ p # None
      /\ p.jobs = plans[s].jobs /\ p.measured = seen /\ p.outstanding = left
  <2> HIDE DEF seen, left
  <2>1. /\ p \in Plan
        /\ p.jobs = plans[s].jobs /\ p.measured = seen /\ p.outstanding = left
    BY <1>4, <1>6 DEF Plan
  <2> QED
    BY <2>1, AbsentAssumption
<1>10. plans'[s] = p /\ \A u \in Symbols \ {s} : plans'[u] = plans[u]
  BY <1>3, <1>7 DEF TypeOK
<1> HIDE DEF p, seen, left
<1>11. Accounted(s)'
  <2>1. Closes(s)' <=> left <= 0
    BY <1>7, <1>8 DEF Closes
  <2>2. /\ plans'[s] # None /\ plans'[s].outstanding = left
        /\ plans'[s].jobs \ plans'[s].measured = plans[s].jobs \ seen
    BY <1>9, <1>10
  <2>3. left = Cardinality(plans'[s].jobs \ plans'[s].measured)
    BY <1>6, <2>2
  <2> QED
    BY <1>1, <1>5, <1>6, <2>1, <2>2, <2>3 DEF Accounted
<1>12. ASSUME NEW u \in Symbols \ {s}
       PROVE  Accounted(u)'
  <2>1. Accounted(u) /\ ~Closes(u) /\ ~Closes(u)'
    BY <1>1, <1>2, <1>7, <1>8 DEF Closes
  <2> QED
    BY <1>1, <1>10, <2>1 DEF Accounted
<1>13. BatchOwed'
  <2> SUFFICES ASSUME NEW x \in batch'
               PROVE  /\ plans'[x[1]] # None /\ plans'[x[1]].outstanding > 0
                      /\ x[2] \in plans'[x[1]].jobs \ plans'[x[1]].measured
    BY DEF BatchOwed
  <2>1. /\ x \in batch /\ x[1] \in Symbols /\ x[2] \in Sweeps
        /\ x = <<x[1], x[2]>> /\ x # <<s, j>>
    BY <1>1 DEF TypeOK
  <2>2. /\ plans[x[1]] # None /\ plans[x[1]].outstanding > 0
        /\ x[2] \in plans[x[1]].jobs \ plans[x[1]].measured
    BY <1>2, <2>1 DEF BatchOwed
  <2>3. CASE x[1] # s
    BY <1>10, <2>1, <2>2, <2>3
  <2>4. CASE x[1] = s
    <3>1. x[2] \in plans[s].jobs \ seen
      BY <2>1, <2>2, <2>4 DEF seen
    <3>2. Cardinality(plans[s].jobs \ seen) \in Nat
          /\ Cardinality(plans[s].jobs \ seen) # 0
      <4>1. plans[s].jobs \ seen \in SUBSET Sweeps
        BY <1>4
      <4> QED
        BY <3>1, <4>1, SweepsFinite, CountEmpty
    <3> QED
      BY <1>6, <1>9, <1>10, <2>4, <3>1, <3>2
  <2> QED
    BY <2>3, <2>4
<1>14. \A u \in todo' : plans'[u] = None
  BY <1>1, <1>2, <1>4, <1>10 DEF TypeOK
<1> QED
  BY <1>1, <1>2, <1>11, <1>12, <1>13, <1>14 DEF RunInv

LEMMA RaiseRun ==
    ASSUME TypeOK, RunInv, Raise
    PROVE  RunInv'
<1>1. /\ thread # None /\ closing # None /\ closing \in Closing
      /\ UNCHANGED <<cancel, targets, todo, reports>>
  BY DEF Raise, TypeOK
<1>2. /\ \A u \in Symbols : reports[u] <= 1 /\ Accounted(u)
      /\ \A u \in todo : plans[u] = None
      /\ BatchOwed
      /\ thread.at \notin {"finish", "ended"}
  BY <1>1 DEF RunInv
<1>3. PICK s \in Symbols : closing.symbol = s
  BY <1>1 DEF Closing
<1> DEFINE left == plans[s].outstanding - 1
           p == [plans[s] EXCEPT !.outstanding = left]
<1>4. /\ plans[s] # None /\ plans[s].outstanding <= 0 /\ reports[s] = 0
      /\ plans[s] \in Plan /\ left \in Int /\ left <= 0
  <2>1. plans[s] # None
    BY <1>1, <1>2, <1>3 DEF Accounted, Closes
  <2>2. plans[s] \in Plan /\ plans[s].outstanding \in Int
    BY <1>3, <2>1, PlanParts
  <2>3. plans[s].outstanding <= 0 /\ reports[s] = 0
    <3>1. Accounted(s) /\ Closes(s)
      BY <1>1, <1>2, <1>3 DEF Closes
    <3> QED
      BY <2>1, <2>2, <3>1 DEF Accounted
  <2> QED
    BY <2>1, <2>2, <2>3
<1>5. CASE /\ plans' = [plans EXCEPT ![s] = p]
           /\ closing' = CloseOut(s, TRUE)
           /\ UNCHANGED <<thread, job, batch>>
  <2>1. closing' # None /\ closing'.symbol = s
    BY <1>1, <1>5, CloseOutType, AbsentAssumption
  <2>2. p # None /\ p.outstanding = left
    <3> HIDE DEF left
    <3> QED
      BY <1>4, CountedType
  <2>3. plans'[s] = p /\ \A u \in Symbols \ {s} : plans'[u] = plans[u]
    BY <1>3, <1>5 DEF TypeOK
  <2> HIDE DEF p, left
  <2>4. Accounted(s)'
    BY <1>1, <1>4, <2>1, <2>2, <2>3 DEF Accounted, Closes
  <2>5. ASSUME NEW u \in Symbols \ {s}
        PROVE  Accounted(u)'
    <3>1. Accounted(u) /\ ~Closes(u) /\ ~Closes(u)'
      BY <1>2, <1>3, <2>1 DEF Closes
    <3> QED
      BY <1>1, <2>3, <3>1 DEF Accounted
  <2>6. \A x \in batch : x[1] \in Symbols \ {s}
    <3>1. ~(plans[s].outstanding > 0)
      BY <1>4, PlanParts, <1>3
    <3> QED
      BY <1>2, <3>1 DEF BatchOwed, TypeOK
  <2>7. BatchOwed'
    BY <1>2, <1>5, <2>3, <2>6 DEF BatchOwed
  <2>8. \A u \in todo' : plans'[u] = None
    BY <1>1, <1>2, <1>4, <2>3 DEF TypeOK
  <2>9. \A u \in Symbols : reports'[u] <= 1 /\ Accounted(u)'
    BY <1>1, <1>2, <2>4, <2>5
  <2>10. thread' # None /\ thread'.at \notin {"finish", "ended"}
    BY <1>1, <1>2, <1>5
  <2> QED
    BY <2>7, <2>8, <2>9, <2>10 DEF RunInv
<1>6. CASE Failed /\ closing' = None
  BY <1>1, <1>2, <1>6 DEF RunInv, Failed
<1> QED
  BY <1>3, <1>5, <1>6 DEF Raise

\* The steps of a close-out up to its report.
LEMMA CloseOutRun ==
    ASSUME TypeOK, RunInv, thread # None, closing # None,
           \E at \in {"apply", "record"} : closing' = [closing EXCEPT !.at = at],
           UNCHANGED <<thread, cancel, todo, plans, batch, reports>>
    PROVE  RunInv'
<1>1. closing' # None /\ closing'.symbol = closing.symbol
  <2>1. closing \in Closing
    BY DEF TypeOK
  <2>2. closing' \in Closing /\ closing'.symbol = closing.symbol
    BY <2>1 DEF Closing
  <2> QED
    BY <2>2, AbsentAssumption
<1>2. \A u \in Symbols : Accounted(u)'
  BY <1>1 DEF RunInv, Accounted, Closes
<1>3. BatchOwed'
  BY DEF RunInv, BatchOwed
<1> QED
  BY <1>2, <1>3 DEF RunInv

LEMMA RecordRun ==
    ASSUME TypeOK, RunInv, Record
    PROVE  RunInv'
<1>1. /\ thread # None /\ closing \in Closing /\ closing # None /\ closing' = None
      /\ reports' = [reports EXCEPT ![closing.symbol] = @ + 1]
      /\ UNCHANGED <<thread, cancel, todo, plans, batch>>
  BY DEF Record, ClosingAt, TypeOK, control
<1>2. closing.symbol \in Symbols /\ Closes(closing.symbol)
  BY <1>1 DEF Closing, Closes
<1>3. /\ \A u \in Symbols : Accounted(u) /\ reports[u] <= 1
      /\ thread.at \notin {"finish", "ended"}
  BY <1>1 DEF RunInv
<1>4. /\ plans[closing.symbol] # None /\ reports[closing.symbol] = 0
      /\ plans[closing.symbol].outstanding \in Int
      /\ plans[closing.symbol].outstanding <= 0
  <2>1. plans[closing.symbol] # None
    BY <1>2, <1>3 DEF Accounted
  <2>2. plans[closing.symbol].outstanding \in Int
    BY <1>2, <2>1, PlanParts
  <2>3. Accounted(closing.symbol)
    BY <1>2, <1>3
  <2> QED
    BY <1>2, <2>1, <2>2, <2>3 DEF Accounted
<1>5. /\ reports'[closing.symbol] = 1
      /\ \A u \in Symbols \ {closing.symbol} : reports'[u] = reports[u]
  BY <1>1, <1>2, <1>4 DEF TypeOK
<1>6. ASSUME NEW u \in Symbols
      PROVE  Accounted(u)' /\ reports'[u] <= 1
  <2>1. ~Closes(u)'
    BY <1>1 DEF Closes
  <2>2. CASE u = closing.symbol
    BY <1>1, <1>4, <1>5, <2>1, <2>2 DEF Accounted
  <2>3. CASE u # closing.symbol
    BY <1>1, <1>3, <1>5, <2>1, <2>3 DEF Accounted, Closes
  <2> QED
    BY <2>2, <2>3
<1>7. BatchOwed'
  BY <1>1 DEF RunInv, BatchOwed
<1> QED
  BY <1>1, <1>3, <1>6, <1>7 DEF RunInv

\* With no sweep pending and no close-out under way, every plan is reported.
LEMMA NothingPending ==
    ASSUME TypeOK, RunInv, thread # None, closing = None, Pending = {}
    PROVE  AllReported
<1> SUFFICES ASSUME NEW s \in Symbols, plans[s] # None
             PROVE  reports[s] = 1
  BY DEF AllReported
<1>1. Accounted(s) /\ ~Closes(s)
  BY DEF RunInv, Closes
<1>2. Unmeasured(s) = {}
  <2>1. \A j \in Unmeasured(s) : <<s, j>> \in Pending
    BY DEF Pending
  <2> QED
    BY <2>1
<1>3. plans[s].outstanding \in Int /\ plans[s].jobs \in SUBSET Sweeps
  BY PlanParts
<1>4. plans[s].outstanding <= 0
  <2>1. SUFFICES ASSUME plans[s].outstanding > 0
                 PROVE  FALSE
    BY <1>3
  <2>2. plans[s].jobs \ plans[s].measured = {}
    BY <1>2, <1>3, <2>1 DEF Unmeasured
  <2>3. Cardinality(plans[s].jobs \ plans[s].measured) = 0
    BY <2>2, CountEmpty
  <2> QED
    BY <1>1, <2>1, <2>3 DEF Accounted
<1> QED
  BY <1>1, <1>3, <1>4 DEF Accounted

-----------------------------------------------------------------------------
(* The steps.                                                              *)

\* What the thread does between two writes to the run, and the panel's calls.
LEMMA QuietNext ==
    ASSUME IInv,
           \/ Ensure \/ PlansMade \/ SweepsEnd \/ FinishJob \/ FinishStore
           \/ CancelSet \/ CancelLook \/ CancelStore \/ CancelMark
           \/ \E s \in Symbols : Toggle(s) \/ Delete(s)
    PROVE  IInv'
<1> USE DEF IInv
<1>0. /\ RunType /\ HeadType /\ TypeOK /\ RunInv /\ LateInv
      /\ UNCHANGED run /\ RunType'
  <2>1. UNCHANGED run
    BY DEF Ensure, PlansMade, SweepsEnd, FinishJob, FinishStore, CancelSet,
           CancelLook, CancelStore, CancelMark, Toggle, Delete, Operator
  <2>2. RunType'
    BY <2>1, TypeParts DEF RunType, run
  <2> QED
    BY <2>1, <2>2, TypeParts
<1>1. CASE Ensure
  <2>1. thread # None /\ closing = None /\ HeadType'
    BY <1>0, <1>1 DEF Ensure, Step, Failed, HeadType, Thread, States, store, bounds
  <2>2. LateInv'
    BY <1>0, <1>1 DEF Ensure, LateInv, run
  <2>3. CASE thread' = None
    BY <1>0, <2>1, <2>2, <2>3, RunEnds, TypePartsNext DEF run
  <2>4. CASE thread' = [thread EXCEPT !.at = "plan"]
    <3>1. thread'.at = "plan"
      BY <1>0, <2>1, <2>4 DEF HeadType, Thread
    <3> QED
      BY <1>0, <2>1, <2>2, <3>1, RunStill, TypePartsNext
  <2> QED
    BY <1>1, <2>3, <2>4 DEF Ensure, Failed
<1>2. CASE PlansMade
  <2>1. /\ thread # None /\ closing = None /\ HeadType' /\ thread'.at = "sweep"
    BY <1>0, <1>2 DEF PlansMade, Step, HeadType, Thread, store, control, bounds
  <2>2. LateInv'
    BY <1>0, <1>2 DEF PlansMade, LateInv, run, control
  <2> QED
    BY <1>0, <2>1, <2>2, RunStill, TypePartsNext
<1>3. CASE SweepsEnd
  <2>1. /\ thread # None /\ closing = None /\ HeadType' /\ thread'.at = "finish"
        /\ cancel' = cancel
    BY <1>0, <1>3 DEF SweepsEnd, Step, HeadType, Thread, store, control, bounds
  <2>2. LateInv'
    BY <1>0, <1>3 DEF SweepsEnd, LateInv, run, control
  <2>3. cancel \/ AllReported
    BY <1>0, <1>3, <2>1, NothingPending DEF SweepsEnd
  <2>4. RunInv'
    <3>1. UNCHANGED <<todo, plans, batch, closing, reports>>
      BY <1>0 DEF run
    <3>2. \A s \in Symbols : Accounted(s)'
      BY <1>0, <2>1, <3>1 DEF RunInv, Accounted, Closes
    <3>3. BatchOwed' /\ (cancel' \/ AllReported')
      BY <1>0, <2>1, <2>3, <3>1 DEF RunInv, BatchOwed, AllReported
    <3> QED
      BY <1>0, <2>1, <3>1, <3>2, <3>3 DEF RunInv
  <2> QED
    BY <1>0, <2>1, <2>2, <2>4, TypePartsNext
<1>4. CASE FinishJob
  <2>1. /\ thread # None /\ closing = None /\ HeadType'
        /\ thread'.at = "ended" /\ thread'.cancelled = cancel
        /\ thread.at = "finish"
    BY <1>0, <1>4 DEF FinishJob, Step, HeadType, Thread, States, store, bounds
  <2>2. LateInv'
    BY <1>0, <1>4 DEF FinishJob, LateInv, run
  <2>3. RunInv'
    <3>1. UNCHANGED <<todo, plans, batch, closing, reports>>
      BY <1>0 DEF run
    <3>2. \A s \in Symbols : Accounted(s)'
      BY <1>0, <2>1, <3>1 DEF RunInv, Accounted, Closes
    <3>3. BatchOwed' /\ (cancel \/ AllReported')
      BY <1>0, <2>1, <3>1 DEF RunInv, BatchOwed, AllReported
    <3> QED
      BY <1>0, <2>1, <3>1, <3>2, <3>3 DEF RunInv
  <2> QED
    BY <1>0, <2>1, <2>2, <2>3, TypePartsNext
<1>5. CASE FinishStore
  <2>1. closing = None /\ thread' = None /\ HeadType'
    BY <1>0, <1>5 DEF FinishStore, Step, HeadType, States, store, bounds
  <2>2. LateInv'
    BY <1>0, <1>5 DEF FinishStore, LateInv, run
  <2> QED
    BY <1>0, <2>1, <2>2, RunEnds, TypePartsNext DEF run
<1>6. CASE CancelSet
  <2>1. HeadType' /\ UNCHANGED thread /\ cancel'
    BY <1>0, <1>6, Counters DEF CancelSet, HeadType, store
  <2>2. LateInv'
    BY <1>0, <2>1 DEF LateInv, run
  <2> QED
    BY <1>0, <2>1, <2>2, RunBystander, TypePartsNext
<1>7. CASE CancelLook \/ CancelStore \/ CancelMark
  <2>1. HeadType' /\ UNCHANGED <<thread, cancel>>
    BY <1>0, <1>7
    DEF CancelLook, CancelStore, CancelMark, HeadType, store, bounds, States
  <2>2. LateInv'
    BY <1>0, <2>1 DEF LateInv, run
  <2> QED
    BY <1>0, <2>1, <2>2, RunBystander, TypePartsNext
<1>8. ASSUME NEW s \in Symbols, Toggle(s) \/ Delete(s)
      PROVE  IInv'
  <2>1. HeadType' /\ UNCHANGED <<thread, cancel>>
    BY <1>0, <1>8, Counters DEF Toggle, Delete, Operator, HeadType, store, control
  <2>2. LateInv'
    BY <1>0, <2>1 DEF LateInv, run
  <2> QED
    BY <1>0, <2>1, <2>2, RunBystander, TypePartsNext
<1> QED
  BY <1>1, <1>2, <1>3, <1>4, <1>5, <1>6, <1>7, <1>8

\* start and a restart begin with an empty run.
LEMMA FreshNext ==
    ASSUME IInv, (\E r \in Requests : Start(r)) \/ Restart
    PROVE  IInv'
<1> USE DEF IInv
<1>1. ASSUME NEW r \in Requests, Start(r)
      PROVE  IInv'
  <2>1. RunType'
    BY <1>1 DEF Start, RunType, TypeOK
  <2>2. thread' \in Thread /\ thread'.at = "ensure"
    BY <1>1, RequestAssumption DEF Start, Thread
  <2>3. HeadType'
    BY <1>1, <2>2, TypeParts, Counters DEF Start, HeadType, States, store
  <2>4. RunInv'
    <3>1. /\ plans' = [s \in Symbols |-> None] /\ reports' = [s \in Symbols |-> 0]
          /\ todo' \in SUBSET Symbols /\ batch' = {} /\ closing' = None
      BY <1>1, <2>1 DEF Start, RunType
    <3>2. \A s \in Symbols : Accounted(s)' /\ reports'[s] <= 1 /\ plans'[s] = None
      BY <3>1 DEF Accounted, Closes
    <3> QED
      BY <2>2, <3>1, <3>2 DEF RunInv, BatchOwed
  <2>5. LateInv'
    BY <1>1 DEF Start, LateInv
  <2> QED
    BY <2>1, <2>3, <2>4, <2>5, TypePartsNext
<1>2. CASE Restart
  <2>1. RunType'
    BY <1>2 DEF Restart, Operator, RunType
  <2>2. HeadType'
    BY <1>2, TypeParts, Counters DEF Restart, Operator, HeadType, States, store
  <2>3. RunInv' /\ LateInv'
    BY <1>2 DEF Restart, Operator, RunInv, LateInv
  <2> QED
    BY <2>1, <2>2, <2>3, TypePartsNext
<1> QED
  BY <1>1, <1>2

LEMMA RecordedNext ==
    ASSUME IInv,
           \/ \E s \in Symbols, shortlist \in (SUBSET Windows) \ {{}},
                 enough \in SUBSET Frames : PlanNext(s, shortlist, enough)
           \/ \E done \in SUBSET Pending : Harvest(done)
           \/ \E x \in batch : Note(x[1], x[2])
           \/ PoolBreaks
    PROVE  IInv'
<1> USE DEF IInv
<1>0. RunType /\ HeadType
  BY TypeParts
<1>1. ASSUME NEW s \in Symbols, NEW shortlist \in (SUBSET Windows) \ {{}},
             NEW enough \in SUBSET Frames, PlanNext(s, shortlist, enough)
      PROVE  IInv'
  <2>1. LateInv'
    BY <1>1, CloseOutType DEF PlanNext, Step, LateInv, control
  <2> QED
    BY <1>1, <2>1, PlanNextType, PlanNextRun
<1>2. ASSUME NEW done \in SUBSET Pending, Harvest(done)
      PROVE  IInv'
  <2>1. /\ thread # None /\ closing = None /\ batch' = done /\ thread.at = "sweep"
        /\ UNCHANGED <<store, thread, control, targets, todo, plans, closing,
                       reports, late, bounds>>
    BY <1>2 DEF Harvest, Step
  <2>2. ASSUME NEW x \in done
        PROVE  /\ x \in Symbols \X Sweeps
               /\ plans[x[1]] # None /\ plans[x[1]].outstanding > 0
               /\ x[2] \in plans[x[1]].jobs \ plans[x[1]].measured
    <3>1. PICK s \in Symbols : x \in {s} \X Unmeasured(s)
      BY DEF Pending
    <3>2. x[1] = s /\ x[2] \in Unmeasured(s) /\ x = <<s, x[2]>>
      BY <3>1
    <3>3. plans[s] # None /\ ~(plans[s].outstanding <= 0)
          /\ x[2] \in plans[s].jobs \ plans[s].measured
      BY <3>2 DEF Unmeasured
    <3>4. plans[s].outstanding > 0 /\ x[2] \in Sweeps
      BY <3>3, PlanParts
    <3> QED
      BY <3>2, <3>3, <3>4
  <2>3. TypeOK'
    <3>1. RunType'
      BY <1>0, <2>1, <2>2 DEF RunType
    <3>2. HeadType'
      BY <1>0, <2>1 DEF HeadType, store, control, bounds
    <3> QED
      BY <3>1, <3>2, TypePartsNext
  <2>4. RunInv'
    <3>1. BatchOwed'
      BY <2>1, <2>2 DEF BatchOwed
    <3>2. \A s \in Symbols : Accounted(s)'
      BY <2>1 DEF RunInv, Accounted, Closes
    <3> QED
      BY <2>1, <3>1, <3>2 DEF RunInv
  <2>5. LateInv'
    BY <2>1 DEF LateInv, control
  <2> QED
    BY <2>3, <2>4, <2>5
<1>3. ASSUME NEW x \in batch, Note(x[1], x[2])
      PROVE  IInv'
  <2>1. <<x[1], x[2]>> \in batch /\ x[1] \in Symbols
    BY <1>0, <1>3 DEF Note, RunType
  <2>2. BatchOwed /\ thread # None
    BY <1>3 DEF Note, Step, RunInv
  <2>3. LateInv'
    BY <1>3, <2>1, <2>2, CloseOutType DEF Note, LateInv, control
  <2> QED
    BY <1>3, <2>1, <2>2, <2>3, NoteType, NoteRun
<1>4. CASE PoolBreaks
  <2>1. /\ thread # None /\ closing = None /\ batch' = {}
        /\ todo' = {s \in targets : plans[s] = None}
        /\ thread' = [thread EXCEPT !.at = "plan", !.mode = "serial"]
        /\ UNCHANGED <<store, control, targets, plans, closing, reports, late,
                       starts, cancels, edits>>
        /\ troubles' \in 0..MaxTroubles
    BY <1>0, <1>4, Counters DEF PoolBreaks, Step
  <2>2. thread' \in Thread /\ thread'.at = "plan"
    BY <1>0, <2>1 DEF HeadType, Thread
  <2>3. RunType'
    BY <1>0, <2>1 DEF RunType
  <2>4. HeadType'
    BY <1>0, <2>1, <2>2 DEF HeadType, store, control
  <2>5. RunInv'
    <3>1. \A s \in Symbols : Accounted(s)'
      BY <2>1 DEF RunInv, Accounted, Closes
    <3> QED
      BY <2>1, <2>2, <3>1 DEF RunInv, BatchOwed
  <2>6. LateInv'
    BY <2>1 DEF LateInv, control
  <2> QED
    BY <2>3, <2>4, <2>5, <2>6, TypePartsNext
<1> QED
  BY <1>1, <1>2, <1>3, <1>4

\* The close-out: a late write happens only when the check before it saw no
\* cancel, and a late one goes on to its report at once.
LEMMA CloseNext ==
    ASSUME IInv,
           \/ \E good \in BOOLEAN : Decide(good)
           \/ ApplyWrites \/ ApplyRefuses \/ Record \/ Raise
    PROVE  IInv'
<1> USE DEF IInv
<1>0. RunType /\ HeadType
  BY TypeParts
<1>1. ASSUME closing \in Closing, NEW at \in {"apply", "record"},
             closing' = [closing EXCEPT !.at = at]
      PROVE  closing' \in Closing /\ closing'.at = at
  BY <1>1 DEF Closing
<1>2. ASSUME NEW good \in BOOLEAN, Decide(good)
      PROVE  IInv'
  <2>1. /\ thread # None /\ closing # None /\ closing \in Closing
        /\ UNCHANGED <<store, thread, control, targets, todo, plans, batch, reports,
                       late, bounds>>
        /\ closing' = [closing EXCEPT !.at =
               IF good /\ closing.apply /\ Wanted /\ ~ReportOnly(closing.symbol)
                 THEN "apply" ELSE "record"]
    BY <1>0, <1>2 DEF Decide, ClosingAt, RunType
  <2>2. PICK at \in {"apply", "record"} :
            closing' = [closing EXCEPT !.at = at] /\ (at = "apply" => Wanted)
    BY <2>1
  <2>3. closing' \in Closing /\ closing'.at = at
    BY <1>1, <2>1, <2>2
  <2>4. TypeOK'
    BY <1>0, <2>1, <2>3, TypePartsNext
    DEF RunType, HeadType, store, control, bounds
  <2>5. RunInv'
    BY <2>1, <2>2, CloseOutRun DEF control
  <2>6. LateInv'
    BY <2>1, <2>2, <2>3 DEF LateInv, Wanted, control
  <2> QED
    BY <2>4, <2>5, <2>6
<1>3. CASE ApplyWrites \/ ApplyRefuses
  <2>1. /\ thread # None /\ closing # None /\ closing \in Closing
        /\ closing.at = "apply" /\ closing.symbol \in Symbols
        /\ UNCHANGED <<book, on, thread, control, targets, todo, plans, batch,
                       reports, bounds>>
        /\ closing' = [closing EXCEPT !.at = "record"]
        /\ stamped' \subseteq book
    BY <1>0, <1>3
    DEF ApplyWrites, ApplyRefuses, ClosingAt, RunType, HeadType, Closing, store
  <2>2. closing' \in Closing /\ closing'.at = "record"
    BY <1>1, <2>1
  <2>3. late = 0 /\ (late' = 0 \/ (late' = 1 /\ cancel))
    <3>1. late \in Nat /\ late <= 1 /\ late # 1
      BY <1>0, <2>1 DEF LateInv, RunType
    <3>2. late = 0
      BY <3>1
    <3> QED
      BY <1>3, <3>2 DEF ApplyRefuses, ApplyWrites
  <2>4. TypeOK'
    BY <1>0, <2>1, <2>2, <2>3, TypePartsNext
    DEF RunType, HeadType, control, bounds
  <2>5. RunInv'
    BY <2>1, CloseOutRun DEF control
  <2>6. LateInv'
    BY <2>1, <2>2, <2>3 DEF LateInv, control
  <2> QED
    BY <2>4, <2>5, <2>6
<1>4. CASE Record
  <2>1. /\ closing \in Closing /\ closing.symbol \in Symbols /\ closing' = None
        /\ reports' = [reports EXCEPT ![closing.symbol] = @ + 1]
        /\ UNCHANGED <<store, thread, control, targets, todo, plans, batch, late,
                       bounds>>
    BY <1>0, <1>4 DEF Record, ClosingAt, RunType, Closing
  <2>2. TypeOK'
    BY <1>0, <2>1, TypePartsNext DEF RunType, HeadType, store, control, bounds
  <2>3. LateInv'
    BY <2>1 DEF LateInv, control
  <2> QED
    BY <1>4, <2>2, <2>3, RecordRun
<1>5. CASE Raise
  <2>1. /\ thread # None /\ closing \in Closing /\ closing.symbol \in Symbols
        /\ UNCHANGED <<cancel, late>>
        /\ closing' = CloseOut(closing.symbol, TRUE) \/ closing' = None
    BY <1>0, <1>5 DEF Raise, RunType, Closing
  <2>2. LateInv'
    BY <2>1, CloseOutType DEF LateInv
  <2> QED
    BY <1>5, <2>2, RaiseType, RaiseRun
<1> QED
  BY <1>2, <1>3, <1>4, <1>5

LEMMA IInvInit == Init => IInv
<1> SUFFICES ASSUME Init
             PROVE  IInv
  OBVIOUS
<1>1. RunType
  BY DEF Init, NoRun, RunType
<1>2. HeadType
  <2>1. 0 \in 0..MaxStarts /\ 0 \in 0..MaxCancels /\ 0 \in 0..MaxEdits
        /\ 0 \in 0..MaxTroubles
    BY BoundAssumption
  <2>2. /\ book \subseteq Symbols /\ on \subseteq book /\ stamped \subseteq book
    BY DEF Init
  <2> QED
    BY <2>1, <2>2 DEF Init, HeadType, States
<1>3. RunInv /\ LateInv
  BY DEF Init, NoRun, RunInv, LateInv
<1> QED
  BY <1>1, <1>2, <1>3, TypeParts DEF IInv

LEMMA IInvStep == IInv /\ [Next]_vars => IInv'
<1> SUFFICES ASSUME IInv, [Next]_vars
             PROVE  IInv'
  OBVIOUS
<1>1. CASE UNCHANGED vars
  <2>1. RunType' /\ HeadType'
    BY <1>1, TypeParts
    DEF IInv, vars, store, control, run, bounds, RunType, HeadType
  <2>2. RunInv'
    BY <1>1, RunBystander DEF IInv, vars, control
  <2>3. LateInv'
    BY <1>1 DEF IInv, vars, control, run, LateInv
  <2> QED
    BY <2>1, <2>2, <2>3, TypePartsNext DEF IInv
<1>2. CASE Next
  BY <1>2, QuietNext, FreshNext, RecordedNext, CloseNext DEF Next, ThreadNext
<1> QED
  BY <1>1, <1>2

THEOREM InductiveInvariant == Spec => []IInv
<1>1. Init => IInv
  BY IInvInit
<1>2. IInv /\ [Next]_vars => IInv'
  BY IInvStep
<1> QED
  BY <1>1, <1>2, PTL DEF Spec

-----------------------------------------------------------------------------
(* The theorems.                                                           *)

\* The state of a search has the types its definitions give it.
THEOREM TypesHold == Spec => []TypeOK
<1>1. IInv => TypeOK
  BY DEF IInv
<1> QED
  BY <1>1, InductiveInvariant, PTL

\* A search reports each symbol once, for every book, grid, pool and sequence
\* of cancels, broken pools and exceptions; one that ends by itself has
\* reported every symbol it planned.
THEOREM OneReportSafe == Spec => []OneReport
<1>1. IInv => OneReport
  BY DEF IInv, TypeOK, RunInv, AllReported, OneReport
<1> QED
  BY <1>1, InductiveInvariant, PTL

\* After a cancel at most one more symbol of the live book is written, however
\* many have their sweeps in.
THEOREM CancelStopsWritesSafe == Spec => []CancelStopsWrites
<1>1. IInv => CancelStopsWrites
  BY DEF IInv, LateInv, CancelStopsWrites
<1> QED
  BY <1>1, InductiveInvariant, PTL

-----------------------------------------------------------------------------
(* The replay a sweep is scored with (Replay).                             *)

(* A trade the replay may carry into bar j: its stop is within the stop     *)
(* distance it was opened with, and what it has banked is its commission    *)
(* short of nothing at worst.                                               *)
Carried(t, j) ==
    /\ t \in Trades /\ t.from <= j
    /\ Gain(t, t.sl) >= -t.dist
    /\ t.weight = Whole => t.banked = 0
    /\ t.weight # Whole => t.banked >= -Commission

\* The state of the replay after a bar.
ReplayInv ==
    /\ bar \in 0 .. LastBar /\ signals \subseteq Sides
    /\ trade # Nothing => Carried(trade, bar)
    /\ LossIsOneR /\ NothingSurvives

\* A bar is made of prices; nothing on it is below its low or above its high.
LEMMA BarPrices ==
    ASSUME NEW b \in Bars
    PROVE  /\ b.open \in Int /\ b.high \in Int /\ b.low \in Int /\ b.close \in Int
           /\ b.low <= b.open /\ b.open <= b.high /\ b.low <= b.close /\ b.close <= b.high
<1>1. Prices \subseteq Int
  BY ReplayAssumption
<1>2. /\ b.open \in Prices /\ b.high \in Prices /\ b.low \in Prices /\ b.close \in Prices
      /\ b.low <= b.open /\ b.open <= b.high /\ b.low <= b.close /\ b.close <= b.high
  BY DEF Bars
<1> QED BY <1>1, <1>2

\* What a trade is made of.
LEMMA TradeParts ==
    ASSUME NEW t \in Trades
    PROVE  /\ t.side \in Sides /\ t.entry \in Int /\ t.sl \in Int /\ t.dist \in Nat
           /\ t.from \in Int /\ t.banked \in Int /\ t.weight \in {2, 3}
<1>1. /\ t.side \in Sides /\ t.entry \in Int /\ t.sl \in Int /\ t.dist \in Dists
      /\ t.from \in 1 .. LastBar /\ t.banked \in Int /\ t.weight \in {Whole - 1, Whole}
  BY DEF Trades
<1>2. t.dist \in Nat
  BY <1>1, ReplayAssumption
<1>3. t.from \in Int
  BY <1>1
<1>4. t.weight \in {2, 3}
  BY <1>1 DEF Whole
<1> QED BY <1>1, <1>2, <1>3, <1>4

\* A trade may be carried from its fill on.
LEMMA FreshCarried ==
    ASSUME NEW d \in Sides, NEW o \in Int, NEW dist \in Dists, NEW j \in 1 .. LastBar,
           NEW f \in BOOLEAN
    PROVE  Carried(Fresh(d, o, dist, j, f), j)
<1> DEFINE t == Fresh(d, o, dist, j, f)
<1>1. dist \in Nat /\ Spread \in Nat /\ Commission \in Nat /\ LastBar \in Nat
  BY ReplayAssumption
<1>2. d * Spread \in Int /\ d * dist \in Int
  BY <1>1 DEF Sides, Buy, Sell
<1>3. t \in Trades
  BY <1>1, <1>2 DEF Fresh, Trades, Whole
<1>4. /\ t.side = d /\ t.entry = o + d * Spread /\ t.sl = o + d * Spread - d * dist
      /\ t.dist = dist /\ t.from = j /\ t.weight = Whole /\ t.banked = 0
  BY DEF Fresh
<1>5. Gain(t, t.sl) = -dist
  <2>1. CASE d = 1
    BY <1>1, <1>4, <2>1 DEF Gain
  <2>2. CASE d = -1
    BY <1>1, <1>4, <2>2 DEF Gain
  <2> QED BY <2>1, <2>2 DEF Sides, Buy, Sell
<1> HIDE DEF t
<1>6. t.from <= j /\ t.dist = dist /\ -dist >= -dist
  BY <1>1, <1>4
<1>7. Carried(t, j)
  BY <1>3, <1>4, <1>5, <1>6 DEF Carried
<1> QED BY <1>7 DEF t

\* A trailed stop is nearer to the gain, and nothing else of the trade moves.
LEMMA TrailedCarried ==
    ASSUME NEW j \in Int, NEW t, Carried(t, j), NEW b \in Bars,
           NEW target \in Targets \union {Nothing}
    PROVE  /\ Carried(Trailed(t, b, target), j)
           /\ Trailed(t, b, target).side = t.side /\ Trailed(t, b, target).entry = t.entry
           /\ Trailed(t, b, target).dist = t.dist
<1>1. CASE Trails(t, b, target)
  <2> DEFINE level == NewStop(t, b, target)
  <2>1. /\ target \in Int /\ MinStop \in Int /\ MinStep \in Int /\ MinStep > 0 /\ b.close \in Int
    BY <1>1, ReplayAssumption, BarPrices DEF Trails
  <2>2. /\ t \in Trades /\ t.side \in Sides /\ t.entry \in Int /\ t.sl \in Int /\ t.dist \in Int
    BY TradeParts DEF Carried
  <2>3. t.side * MinStop \in Int
    BY <2>1, <2>2 DEF Sides, Buy, Sell
  <2>4. level \in Int
    BY <2>1, <2>2, <2>3 DEF NewStop
  <2>5. t.side * (level - t.sl) >= MinStep
    BY <1>1 DEF Trails
  <2>6. Gain(t, t.sl) >= -t.dist
    BY DEF Carried
  <2> HIDE DEF level
  <2>7. t.side * (level - t.entry) >= -t.dist
    <3>1. CASE t.side = 1
      BY <2>1, <2>2, <2>4, <2>5, <2>6, <3>1 DEF Gain
    <3>2. CASE t.side = -1
      BY <2>1, <2>2, <2>4, <2>5, <2>6, <3>2 DEF Gain
    <3> QED BY <2>2, <3>1, <3>2 DEF Sides, Buy, Sell
  <2>8. PICK z : z = [t EXCEPT !.sl = level, !.trailing = TRUE]
    OBVIOUS
  <2>9. /\ z \in Trades /\ z.sl = level /\ z.side = t.side /\ z.entry = t.entry
        /\ z.dist = t.dist /\ z.from = t.from /\ z.weight = t.weight /\ z.banked = t.banked
    BY <2>2, <2>4, <2>8 DEF Trades
  <2>10. Carried(z, j)
    BY <2>7, <2>9 DEF Carried, Gain
  <2>11. Trailed(t, b, target) = z
    BY <1>1, <2>8 DEF Trailed, level
  <2> QED BY <2>9, <2>10, <2>11
<1>2. CASE ~Trails(t, b, target)
  BY <1>2 DEF Trailed
<1> QED BY <1>1, <1>2

\* What is banked is the gain of a third, less its commission.
LEMMA ScaledCarried ==
    ASSUME NEW j \in Int, NEW t, Carried(t, j), NEW b \in Bars
    PROVE  /\ Carried(ScaledOut(t, b), j)
           /\ ScaledOut(t, b).side = t.side /\ ScaledOut(t, b).entry = t.entry
           /\ ScaledOut(t, b).dist = t.dist
<1>1. CASE AtR > 0 /\ t.weight = Whole /\ Gain(t, b.close) >= AtR * t.dist
  <2>1. b.close \in Int /\ Commission \in Nat /\ AtR \in Nat
    BY ReplayAssumption, BarPrices
  <2>2. /\ t \in Trades /\ t.side \in Sides /\ t.entry \in Int /\ t.sl \in Int /\ t.dist \in Nat
    BY TradeParts DEF Carried
  <2>3. PICK gain \in Int : gain = Gain(t, b.close)
    BY <2>1, <2>2 DEF Gain, Sides, Buy, Sell
  <2>4. AtR * t.dist >= 0
    <3>1. PICK x \in Nat : x = AtR * t.dist
      BY <2>1, <2>2
    <3> QED BY <3>1
  <2>5. AtR * t.dist \in Int
    BY <2>1, <2>2
  <2>6. gain >= 0
    BY <1>1, <2>3, <2>4, <2>5
  <2>7. PICK z : z = [t EXCEPT !.weight = Whole - 1, !.banked = gain - Commission]
    OBVIOUS
  <2>8. gain - Commission \in Int /\ gain - Commission >= -Commission
    BY <2>1, <2>6
  <2>9. /\ z \in Trades /\ z.sl = t.sl /\ z.side = t.side /\ z.entry = t.entry
        /\ z.dist = t.dist /\ z.from = t.from /\ z.weight = Whole - 1
        /\ z.banked = gain - Commission
    BY <2>2, <2>7, <2>8 DEF Trades, Whole
  <2>10. Carried(z, j)
    BY <2>8, <2>9 DEF Carried, Gain, Whole
  <2>11. ScaledOut(t, b) = z
    BY <1>1, <2>3, <2>7 DEF ScaledOut
  <2> QED BY <2>9, <2>10, <2>11
<1>2. CASE ~(AtR > 0 /\ t.weight = Whole /\ Gain(t, b.close) >= AtR * t.dist)
  BY <1>2 DEF ScaledOut
<1> QED BY <1>1, <1>2

\* A trade that left no more than its stop distance behind is worth no less
\* than that and the commission, on all three thirds.
LEMMA WorthBound ==
    ASSUME NEW j \in Int, NEW t, Carried(t, j), NEW b, NEW price \in Int, NEW reason,
           Gain(t, price) >= -t.dist
    PROVE  LET c == RecordTrade(t, b, price, reason)
           IN  c.worth >= -Whole * (c.dist + Commission)
<1>1. /\ t.side \in Sides /\ t.entry \in Int /\ t.dist \in Nat /\ t.banked \in Int
      /\ t.weight \in {2, 3}
  BY TradeParts DEF Carried
<1>2. PICK gain \in Int : gain = Gain(t, price)
  BY <1>1 DEF Gain, Sides, Buy, Sell
<1>3. Commission \in Nat
  BY ReplayAssumption
<1>4. t.banked + t.weight * (gain - Commission) >= -3 * (t.dist + Commission)
  <2>1. CASE t.weight = 3
    BY <1>1, <1>2, <1>3, <2>1 DEF Carried, Whole
  <2>2. CASE t.weight = 2
    BY <1>1, <1>2, <1>3, <2>2 DEF Carried, Whole
  <2> QED BY <1>1, <2>1, <2>2
<1> QED BY <1>2, <1>4 DEF RecordTrade, Whole

\* A stop the bar did not print is not behind its open, nor its close.
LEMMA NotHit ==
    ASSUME NEW j \in Int, NEW t, Carried(t, j), NEW b \in Bars, ~StopHit(t, b)
    PROVE  Gain(t, b.open) >= -t.dist /\ Gain(t, b.close) >= -t.dist
<1>1. /\ t.side \in Sides /\ t.entry \in Int /\ t.dist \in Int /\ t.sl \in Int
  BY TradeParts DEF Carried
<1>2. Gain(t, t.sl) >= -t.dist /\ Spread \in Nat
  BY ReplayAssumption DEF Carried
<1>3. CASE t.side = 1
  BY <1>1, <1>2, <1>3, BarPrices DEF Gain, StopHit, Buy
<1>4. CASE t.side = -1
  BY <1>1, <1>2, <1>4, BarPrices DEF Gain, StopHit, Buy
<1> QED BY <1>1, <1>3, <1>4 DEF Sides, Buy, Sell

\* The trade of a bar is one that may be carried into it.
LEMMA OnCarried ==
    ASSUME ReplayInv, bar < LastBar, NEW b \in Bars, NEW refusals, NEW dist \in Dists,
           NEW t, t = On(b, bar + 1, refusals, dist), t # Nothing
    PROVE  Carried(t, bar + 1)
<1>1. bar \in Int /\ bar + 1 \in 1 .. LastBar
  BY ReplayAssumption DEF ReplayInv
<1>2. CASE Fills(bar + 1, refusals)
  <2>1. SideOf(signals) \in Sides
    <3>1. signals # {}
      BY <1>2, FS_EmptySet DEF Fills, OneWay
    <3> QED BY <3>1 DEF SideOf, ReplayInv
  <2>2. t = Fresh(SideOf(signals), b.open, dist, bar + 1, FALSE)
    BY <1>2 DEF On
  <2> QED BY <1>1, <2>1, <2>2, BarPrices, FreshCarried
<1>3. CASE ~Fills(bar + 1, refusals)
  <2>1. t = trade
    BY <1>3 DEF On
  <2>2. Carried(trade, bar)
    BY <2>1 DEF ReplayInv
  <2>3. trade.from \in Int
    BY <2>2, TradeParts DEF Carried
  <2> QED BY <1>1, <2>1, <2>2, <2>3 DEF Carried
<1> QED BY <1>2, <1>3

\* A bar keeps it.
LEMMA ReplayStep ==
    ASSUME ReplayInv, NEW b \in Bars, NEW flatten \in BOOLEAN, NEW refusals,
           NEW dist \in Dists, NEW target \in Targets \union {Nothing},
           Replayed(b, flatten, refusals, dist, target)
    PROVE  ReplayInv'
<1>1. CASE Idle(b, refusals) /\ overdue' = FALSE
  <2>1. bar' = bar + 1 /\ signals' \subseteq Sides /\ closed' = {} /\ trade' = trade /\ trade = Nothing /\ bar < LastBar
    BY <1>1 DEF Idle, Proceed
  <2> QED BY <1>1, <2>1, ReplayAssumption DEF ReplayInv, LossIsOneR, NothingSurvives
<1>2. ASSUME NEW t, t = On(b, bar + 1, refusals, dist), t # Nothing, bar < LastBar,
             \/ Stopped(t, b)
             \/ Flattened(t, b, flatten)
             \/ Reversed(t, b, flatten, refusals, dist)
             \/ Held(t, b, flatten, refusals, target),
             overdue' = (trade' # Nothing /\ (flatten \/ StopHit(t, b)))
      PROVE  ReplayInv'
  <2>1. bar \in Int /\ bar + 1 \in 1 .. LastBar /\ Carried(t, bar + 1)
    BY <1>2, OnCarried, ReplayAssumption DEF ReplayInv
  <2>2. Proceed(bar + 1)
    BY <1>2 DEF Stopped, Flattened, Reversed, Held
  <2>3. bar' = bar + 1 /\ bar' \in 0 .. LastBar /\ signals' \subseteq Sides
    BY <2>1, <2>2 DEF Proceed
  <2>4. t.side \in Sides /\ t.sl \in Int /\ t.from \in Int /\ t.entry \in Int
    BY <2>1, TradeParts DEF Carried
  <2>5. Checked(t, bar + 1)
    BY <2>1, <2>4 DEF Checked, Carried
  <2> DEFINE NoWorse(c) == ~c.gap /\ ~c.flipped => c.worth >= -Whole * (c.dist + Commission)
  <2>6. CASE Stopped(t, b)
    <3>1. PICK reason : closed' = {RecordTrade(t, b, StopFill(t, b), reason)} /\ trade' = Nothing
      BY <2>6 DEF Stopped
    <3>2. PICK c : c = RecordTrade(t, b, StopFill(t, b), reason)
      OBVIOUS
    <3>3. ASSUME ~c.gap PROVE c.worth >= -Whole * (c.dist + Commission)
      <4>1. StopFill(t, b) = t.sl
        BY <3>2, <3>3 DEF RecordTrade, StopFill
      <4>2. Gain(t, t.sl) >= -t.dist
        BY <2>1 DEF Carried
      <4> QED BY <2>1, <2>4, <3>2, <4>1, <4>2, WorthBound
    <3>4. LossIsOneR'
      BY <3>1, <3>2, <3>3 DEF LossIsOneR
    <3> QED BY <1>2, <2>3, <3>1, <3>4 DEF ReplayInv, NothingSurvives
  <2>7. CASE Flattened(t, b, flatten)
    <3>1. PICK c : c = RecordTrade(t, b, b.close, "flatten")
      OBVIOUS
    <3>2. closed' = {c} /\ trade' = Nothing /\ ~StopHit(t, b)
      BY <2>7, <3>1 DEF Flattened
    <3>3. c.worth >= -Whole * (c.dist + Commission)
      BY <2>1, <3>1, <3>2, BarPrices, NotHit, WorthBound
    <3>4. LossIsOneR'
      BY <3>2, <3>3 DEF LossIsOneR
    <3> QED BY <1>2, <2>3, <3>2, <3>4 DEF ReplayInv, NothingSurvives
  <2>8. CASE Reversed(t, b, flatten, refusals, dist)
    <3>1. ~StopHit(t, b) /\ ~flatten
      BY <2>8 DEF Reversed
    <3>2. PICK c : c = RecordTrade(t, b, b.open, "reverse")
      OBVIOUS
    <3>3. PICK new : new = Fresh(-t.side, b.open, dist, bar + 1, TRUE)
      OBVIOUS
    <3>4. PICK second : second = RecordTrade(new, b, b.close, "time")
      OBVIOUS
    <3>5. c.worth >= -Whole * (c.dist + Commission)
      BY <2>1, <3>1, <3>2, BarPrices, NotHit, WorthBound
    <3>6. second.flipped = TRUE
      BY <3>3, <3>4 DEF RecordTrade, Fresh
    <3>7. Carried(new, bar + 1)
      <4>1. -t.side \in Sides
        BY <2>4 DEF Sides, Buy, Sell
      <4> QED BY <2>1, <3>3, <4>1, BarPrices, FreshCarried
    <3>8. closed' \subseteq {c, second} /\ trade' \in {new, Nothing}
      BY <2>8, <3>2, <3>3, <3>4 DEF Reversed
    <3>9. LossIsOneR'
      BY <3>5, <3>6, <3>8 DEF LossIsOneR
    <3>10. trade' # Nothing => Carried(trade, bar)'
      BY <2>3, <3>7, <3>8 DEF Carried, Gain
    <3> QED BY <1>2, <2>3, <3>1, <3>9, <3>10 DEF ReplayInv, NothingSurvives
  <2>9. CASE Held(t, b, flatten, refusals, target)
    <3>1. ~StopHit(t, b) /\ ~flatten
      BY <2>5, <2>9 DEF Held
    <3>2. PICK kept : kept = ScaledOut(Trailed(t, b, target), b)
      OBVIOUS
    <3>3. PICK c : c = RecordTrade(kept, b, b.close, "time")
      OBVIOUS
    <3>4. closed' \subseteq {c} /\ trade' \in {kept, Nothing}
      BY <2>9, <3>2, <3>3 DEF Held
    <3>5. Carried(kept, bar + 1) /\ kept.side = t.side /\ kept.entry = t.entry /\ kept.dist = t.dist
      <4>1. PICK m : m = Trailed(t, b, target)
        OBVIOUS
      <4>2. Carried(m, bar + 1) /\ m.side = t.side /\ m.entry = t.entry /\ m.dist = t.dist
        BY <2>1, <4>1, TrailedCarried
      <4> QED BY <2>1, <3>2, <4>1, <4>2, ScaledCarried
    <3>6. Gain(kept, b.close) >= -kept.dist
      BY <2>1, <3>1, <3>5, NotHit DEF Gain
    <3>7. c.worth >= -Whole * (c.dist + Commission)
      BY <2>1, <3>3, <3>5, <3>6, BarPrices, WorthBound
    <3>8. LossIsOneR'
      BY <3>4, <3>7 DEF LossIsOneR
    <3>9. trade' # Nothing => Carried(trade, bar)'
      BY <2>3, <3>4, <3>5 DEF Carried, Gain
    <3> QED BY <1>2, <2>3, <3>1, <3>8, <3>9 DEF ReplayInv, NothingSurvives
  <2> QED BY <1>2, <2>6, <2>7, <2>8, <2>9
<1> QED BY <1>1, <1>2 DEF Replayed

\* What the replay keeps from bar to bar.
THEOREM ReplayInvariant == ReplaySpec => []ReplayInv
<1>1. ReplayInit => ReplayInv
  BY ReplayAssumption DEF ReplayInit, ReplayInv, LossIsOneR, NothingSurvives
<1>2. ReplayInv /\ [ReplayNext]_replayVars => ReplayInv'
  <2>1. ASSUME ReplayInv, ReplayNext PROVE ReplayInv'
    <3>1. PICK b \in Bars, flatten \in BOOLEAN,
               refusals \in {{}} \union {{r} : r \in Refusals},
               dist \in Dists, target \in Targets \union {Nothing} :
              Replayed(b, flatten, refusals, dist, target)
      BY <2>1 DEF ReplayNext
    <3> QED BY <2>1, <3>1, ReplayStep
  <2>2. ASSUME ReplayInv, UNCHANGED replayVars PROVE ReplayInv'
    BY <2>2 DEF ReplayInv, replayVars, LossIsOneR, NothingSurvives, Carried, Gain
  <2> QED BY <2>1, <2>2
<1> QED BY <1>1, <1>2, PTL DEF ReplaySpec

\* A trade that did not gap through its stop loses at most its stop distance
\* and the commission, however it was trailed, scaled, flattened or reversed.
THEOREM LossIsOneRSafe == ReplaySpec => []LossIsOneR
<1>1. ReplayInv => LossIsOneR
  BY DEF ReplayInv
<1> QED BY <1>1, ReplayInvariant, PTL

\* No trade survives a bar that printed its stop or that the engine would have
\* flattened on, its fill bar included.
THEOREM NothingSurvivesSafe == ReplaySpec => []NothingSurvives
<1>1. ReplayInv => NothingSurvives
  BY DEF ReplayInv
<1> QED BY <1>1, ReplayInvariant, PTL

\* A price of the bar, or up to a spread above it where a sell is bought back.
Printed(c) ==
    /\ c.bar.low <= c.price
    /\ c.price <= c.bar.high + (IF c.side = Sell THEN Spread ELSE 0)

\* The open and the close of a bar are on it, on either side ...
LEMMA BarPrinted ==
    ASSUME NEW b \in Bars, NEW t, NEW reason, NEW price \in {b.open, b.close}
    PROVE  Printed(RecordTrade(t, b, price, reason))
<1>1. PICK c : c = RecordTrade(t, b, price, reason)
  OBVIOUS
<1>2. c.bar = b /\ c.price = price
  BY <1>1 DEF RecordTrade
<1>3. Spread \in Nat
  BY ReplayAssumption
<1> QED BY <1>1, <1>2, <1>3, BarPrices DEF Printed

\* ... and so is the stop a bar reached, or its open where it gapped through.
LEMMA StopPrinted ==
    ASSUME NEW b \in Bars, NEW t \in Trades, NEW reason, StopHit(t, b)
    PROVE  Printed(RecordTrade(t, b, StopFill(t, b), reason))
<1>1. PICK c : c = RecordTrade(t, b, StopFill(t, b), reason)
  OBVIOUS
<1>2. c.bar = b /\ c.price = StopFill(t, b) /\ c.side = t.side
  BY <1>1 DEF RecordTrade
<1>3. Spread \in Nat /\ t.sl \in Int /\ t.side \in {1, -1}
  BY ReplayAssumption, TradeParts DEF Sides, Buy, Sell
<1>4. CASE t.side = 1
  BY <1>1, <1>2, <1>3, <1>4, BarPrices DEF Printed, StopHit, StopFill, Buy, Sell
<1>5. CASE t.side = -1
  BY <1>1, <1>2, <1>3, <1>5, BarPrices DEF Printed, StopHit, StopFill, Buy, Sell
<1> QED BY <1>3, <1>4, <1>5

\* The replay is paid nothing the market never offered: every trade leaves at a
\* price of its last bar, over gaps, flips and the end of the window
\* (stop_fill_price, _record_trade).
THEOREM FillTradedSafe == ReplaySpec => []FillTraded
<1>1. ReplayInit => FillTraded
  BY DEF ReplayInit, FillTraded
<1>2. ReplayInv /\ FillTraded /\ [ReplayNext]_replayVars => FillTraded'
  <2> SUFFICES ASSUME ReplayInv, FillTraded, [ReplayNext]_replayVars PROVE FillTraded'
    OBVIOUS
  <2>1. CASE UNCHANGED replayVars
    BY <2>1 DEF replayVars, FillTraded
  <2>2. CASE ReplayNext
    <3>1. PICK b \in Bars, flatten \in BOOLEAN,
               refusals \in {{}} \union {{r} : r \in Refusals},
               dist \in Dists, target \in Targets \union {Nothing} :
              Replayed(b, flatten, refusals, dist, target)
      BY <2>2 DEF ReplayNext
    <3>2. CASE Idle(b, refusals)
      BY <3>2 DEF Idle, FillTraded
    <3>3. ASSUME NEW t, t = On(b, bar + 1, refusals, dist), t # Nothing, bar < LastBar,
                 \/ Stopped(t, b)
                 \/ Flattened(t, b, flatten)
                 \/ Reversed(t, b, flatten, refusals, dist)
                 \/ Held(t, b, flatten, refusals, target)
          PROVE  \A c \in closed' : Printed(c)
      <4>1. t \in Trades
        BY <3>3, OnCarried DEF Carried
      <4>2. CASE Stopped(t, b)
        <5>1. PICK reason : closed' = {RecordTrade(t, b, StopFill(t, b), reason)}
          BY <4>2 DEF Stopped
        <5>2. StopHit(t, b)
          BY <4>2 DEF Stopped
        <5> QED BY <4>1, <5>1, <5>2, StopPrinted
      <4>3. CASE Flattened(t, b, flatten)
        BY <4>3, BarPrinted DEF Flattened
      <4>4. CASE Reversed(t, b, flatten, refusals, dist)
        <5>1. closed' \subseteq
                  {RecordTrade(t, b, b.open, "reverse"),
                   RecordTrade(Fresh(-t.side, b.open, dist, bar + 1, TRUE), b, b.close, "time")}
          BY <4>4 DEF Reversed
        <5> QED BY <5>1, BarPrinted
      <4>5. CASE Held(t, b, flatten, refusals, target)
        <5>1. closed' \subseteq
                  {RecordTrade(ScaledOut(Trailed(t, b, target), b), b, b.close, "time")}
          BY <4>5 DEF Held
        <5> QED BY <5>1, BarPrinted
      <4> QED BY <3>3, <4>2, <4>3, <4>4, <4>5
    <3>4. \A c \in closed' : Printed(c)
      BY <3>1, <3>2, <3>3 DEF Replayed, Idle
    <3> QED BY <3>4 DEF FillTraded, Printed
  <2> QED BY <2>1, <2>2
<1> QED BY <1>1, <1>2, ReplayInvariant, PTL DEF ReplaySpec

\* What a trade is recorded as is a number, on the bar it left on.
Booked(c) == c.bar \in Bars /\ c.worth \in Int

LEMMA RecordBooked ==
    ASSUME NEW b \in Bars, NEW t \in Trades, NEW price \in Int, NEW reason
    PROVE  Booked(RecordTrade(t, b, price, reason))
<1>1. /\ t.side \in Sides /\ t.entry \in Int /\ t.banked \in Int /\ t.weight \in {2, 3}
  BY TradeParts
<1>2. PICK gain \in Int : gain = Gain(t, price)
  BY <1>1 DEF Gain, Sides, Buy, Sell
<1>3. Commission \in Nat
  BY ReplayAssumption
<1>4. t.banked + t.weight * (gain - Commission) \in Int
  BY <1>1, <1>2, <1>3
<1> QED BY <1>2, <1>4 DEF RecordTrade, Booked

\* The replay keeps its types: trades open or none, a slot that is free from
\* some bar on, and what it closed on the bar in whole numbers.
THEOREM ReplayTyped == ReplaySpec => []ReplayTypeOK
<1>1. ReplayInit => ReplayTypeOK
  <2> SUFFICES ASSUME ReplayInit PROVE ReplayTypeOK
    OBVIOUS
  <2>1. bar \in 0 .. LastBar /\ resume \in Int
    BY ReplayAssumption DEF ReplayInit
  <2>2. signals \subseteq Sides /\ trade \in Trades \union {Nothing} /\ overdue \in BOOLEAN
    BY DEF ReplayInit
  <2>3. closed = {}
    BY DEF ReplayInit
  <2> QED BY <2>1, <2>2, <2>3 DEF ReplayTypeOK
<1>2. ReplayInv /\ ReplayInv' /\ ReplayTypeOK /\ [ReplayNext]_replayVars => ReplayTypeOK'
  <2> SUFFICES ASSUME ReplayInv, ReplayInv', ReplayTypeOK, [ReplayNext]_replayVars
               PROVE  ReplayTypeOK'
    OBVIOUS
  <2>1. CASE UNCHANGED replayVars
    BY <2>1 DEF replayVars, ReplayTypeOK, Bars, Trades
  <2>2. CASE ReplayNext
    <3>1. PICK b \in Bars, flatten \in BOOLEAN,
               refusals \in {{}} \union {{r} : r \in Refusals},
               dist \in Dists, target \in Targets \union {Nothing} :
              Replayed(b, flatten, refusals, dist, target)
      BY <2>2 DEF ReplayNext
    <3>2. CASE Idle(b, refusals) /\ overdue' = FALSE
      BY <3>2 DEF Idle, ReplayTypeOK, ReplayInv, Carried
    <3>3. ASSUME NEW t, t = On(b, bar + 1, refusals, dist), t # Nothing, bar < LastBar,
                 \/ Stopped(t, b)
                 \/ Flattened(t, b, flatten)
                 \/ Reversed(t, b, flatten, refusals, dist)
                 \/ Held(t, b, flatten, refusals, target)
          PROVE  resume' \in Int /\ \A c \in closed' : Booked(c)
      <4>1. Carried(t, bar + 1) /\ t \in Trades /\ bar \in Int /\ bar + 1 \in 1 .. LastBar
        BY <3>3, OnCarried, ReplayAssumption DEF Carried, ReplayInv
      <4>2. t.from \in Int /\ t.sl \in Int /\ t.side \in Sides /\ Resume(t) \in Int
        BY <4>1, TradeParts, ReplayAssumption DEF Resume
      <4>3. b.open \in Int /\ b.close \in Int
        BY BarPrices
      <4>4. CASE Stopped(t, b)
        <5>1. PICK reason : closed' = {RecordTrade(t, b, StopFill(t, b), reason)}
                            /\ resume' = Resume(t)
          BY <4>4 DEF Stopped
        <5>2. StopFill(t, b) \in Int
          BY <4>2, <4>3 DEF StopFill
        <5> QED BY <4>1, <4>2, <5>1, <5>2, RecordBooked
      <4>5. CASE Flattened(t, b, flatten)
        BY <4>1, <4>2, <4>3, <4>5, RecordBooked DEF Flattened
      <4>6. CASE Reversed(t, b, flatten, refusals, dist)
        <5>1. PICK new : new = Fresh(-t.side, b.open, dist, bar + 1, TRUE)
          OBVIOUS
        <5>2. Carried(new, bar + 1)
          <6>1. -t.side \in Sides
            BY <4>2 DEF Sides, Buy, Sell
          <6> QED BY <4>1, <4>3, <5>1, <6>1, FreshCarried
        <5>3. new \in Trades /\ Resume(new) \in Int
          BY <5>2, TradeParts, ReplayAssumption DEF Carried, Resume
        <5>4. closed' \subseteq
                  {RecordTrade(t, b, b.open, "reverse"), RecordTrade(new, b, b.close, "time")}
          BY <4>6, <5>1 DEF Reversed
        <5>5. resume' \in {resume, Resume(t), Resume(new)}
          BY <4>6, <5>1 DEF Reversed
        <5>6. resume' \in Int
          BY <4>2, <5>3, <5>5 DEF ReplayTypeOK
        <5> QED BY <4>1, <4>3, <5>3, <5>4, <5>6, RecordBooked
      <4>7. CASE Held(t, b, flatten, refusals, target)
        <5>1. PICK kept : kept = ScaledOut(Trailed(t, b, target), b)
          OBVIOUS
        <5>2. Carried(kept, bar + 1)
          <6>1. PICK m : m = Trailed(t, b, target)
            OBVIOUS
          <6>2. Carried(m, bar + 1)
            BY <4>1, <6>1, TrailedCarried
          <6> QED BY <4>1, <5>1, <6>1, <6>2, ScaledCarried
        <5>3. closed' \subseteq {RecordTrade(kept, b, b.close, "time")}
              /\ resume' \in {resume, Resume(t)}
          BY <4>7, <5>1 DEF Held
        <5>4. resume' \in Int
          BY <4>2, <5>3 DEF ReplayTypeOK
        <5>5. kept \in Trades
          BY <5>2 DEF Carried
        <5> QED BY <4>3, <5>3, <5>4, <5>5, RecordBooked
      <4> QED BY <3>3, <4>4, <4>5, <4>6, <4>7
    <3>4. resume' \in Int /\ \A c \in closed' : Booked(c)
      BY <3>1, <3>2, <3>3 DEF Replayed, Idle, ReplayTypeOK
    <3>5. overdue' \in BOOLEAN
      BY <3>1 DEF Replayed
    <3>6. bar' \in 0 .. LastBar /\ signals' \subseteq Sides
          /\ (trade' # Nothing => trade' \in Trades)
      BY DEF ReplayInv, Carried, Trades
    <3> QED BY <3>4, <3>5, <3>6 DEF ReplayTypeOK, Booked, Bars, Trades
  <2> QED BY <2>1, <2>2
<1> QED BY <1>1, <1>2, ReplayInvariant, PTL DEF ReplaySpec

-----------------------------------------------------------------------------
(* The sweep.                                                              *)

\* The sum of the scores is a natural number, and zero exactly when every
\* score is.
LEMMA TotalIsSum ==
  ASSUME NEW S, IsFiniteSet(S), \A d \in S : pool[d] \in Nat
  PROVE  /\ Total(S) \in Nat
         /\ (\A d \in S : pool[d] = 0) => Total(S) = 0
         /\ (\E d \in S : pool[d] # 0) => Total(S) > 0
<1> DEFINE Good == {s \in SUBSET S :
        /\ SumFunctionOnSet(pool, s) \in Nat
        /\ (\A d \in s : pool[d] = 0) => SumFunctionOnSet(pool, s) = 0
        /\ (\E d \in s : pool[d] # 0) => SumFunctionOnSet(pool, s) > 0}
<1>1. Summed(pool, S)
  BY DEF Summed
<1>2. {} \in Good
  BY SumEmpty
<1>3. ASSUME NEW s \in SUBSET S, s # {}, s \ {Some(s)} \in Good PROVE s \in Good
  <2>1. Some(s) \in s /\ pool[Some(s)] \in Nat
    BY <1>3 DEF Some
  <2>2. Summed(pool, s)
    BY <1>1, SummedPart
  <2>3. SumFunctionOnSet(pool, s) = pool[Some(s)] + SumFunctionOnSet(pool, s \ {Some(s)})
    BY <1>3, <2>2, SumStep
  <2> QED BY <1>3, <2>1, <2>3
<1> HIDE DEF Good
<1>4. S \in Good
  BY <1>2, <1>3, BySome
<1> QED BY <1>4 DEF Good, Total

\* The blends as fractions: at least the same score and any earning beat no
\* earning at all, however many neighbours each has.
LEMMA Blends ==
  ASSUME NEW w \in 1 .. 8, NEW n \in Nat \ {0}, NEW m \in Nat \ {0},
         NEW a \in Nat, NEW b \in Nat, a >= b, NEW t \in Nat \ {0}
  PROVE  ((10 - w) * a * n + w * t) * (10 * m) > ((10 - w) * b * m + w * 0) * (10 * n)
<1>1. PICK x \in Nat : x = (10 - w) * a
  OBVIOUS
<1>2. PICK y \in Nat : y = (10 - w) * b
  OBVIOUS
<1>3. x >= y
  <2>1. PICK d \in Nat : a = b + d
    <3>1. a - b \in Nat /\ a = b + (a - b)
      OBVIOUS
    <3> QED BY <3>1
  <2>2. (10 - w) * a = (10 - w) * b + (10 - w) * d
    BY <2>1
  <2>3. (10 - w) * d >= 0
    OBVIOUS
  <2> QED BY <1>1, <1>2, <2>2, <2>3
<1>4. PICK z \in Nat : x = y + z
  <2>1. x - y \in Nat /\ x = y + (x - y)
    BY <1>3
  <2> QED BY <2>1
<1>5. PICK v \in Nat : v = w * t /\ v > 0
  OBVIOUS
<1>6. (x * n + v) * (10 * m) > (y * m) * (10 * n)
  <2>1. (x * n + v) * (10 * m) = (x * n) * (10 * m) + v * (10 * m)
    OBVIOUS
  <2>2. (x * n) * (10 * m) = (y * n) * (10 * m) + (z * n) * (10 * m)
    BY <1>4
  <2>3. (y * n) * (10 * m) = (y * m) * (10 * n)
    OBVIOUS
  <2>4. (z * n) * (10 * m) >= 0
    OBVIOUS
  <2>5. v * (10 * m) > 0
    BY <1>5
  <2> QED BY <2>1, <2>2, <2>3, <2>4, <2>5
<1> QED BY <1>1, <1>2, <1>5, <1>6

\* What has been tested is finite and scored.
Pooled ==
    /\ IsFiniteSet(Tested)
    /\ \A c \in Tested : pool[c] \in {0} \union Scores

LEMMA Knobs ==
  /\ MaxCombos \in Nat \ {0} /\ Rounds \in Nat /\ Kept \in Nat \ {0}
  /\ Grounded \in Nat \ {0} /\ Scores \subseteq Nat \ {0} /\ Weight \in 0 .. 8
BY SweepAssumption

LEMMA ScoresNatural == \A f \in {0} \union Scores : f \in Nat
<1>1. \A f \in Scores : f \in Nat
  BY Knobs
<1> QED BY <1>1

LEMMA PoolNatural ==
  ASSUME Pooled, NEW c \in Tested
  PROVE  pool[c] \in Nat
<1>1. pool[c] \in {0} \union Scores
  BY DEF Pooled
<1> QED BY <1>1, ScoresNatural

LEMMA SeenFinite ==
  ASSUME Pooled, NEW c
  PROVE  /\ IsFiniteSet(Seen(c)) /\ Cardinality(Seen(c)) \in Nat
         /\ \A d \in Seen(c) : pool[d] \in Nat
<1>1. Seen(c) \in SUBSET Tested /\ IsFiniteSet(Tested)
  BY DEF Seen, Pooled
<1>2. IsFiniteSet(Seen(c))
  BY <1>1, FS_Subset
<1> QED BY <1>1, <1>2, FS_CardinalityType, PoolNatural

\* A cell whose neighbours earn tops the spike that scores no more than it.
LEMMA EarningTops ==
  ASSUME Pooled, Weight > 0, NEW c \in Candidates, NEW d \in Candidates,
         Explored(c), Dead(c), Explored(d), ~Dead(d), pool[d] >= pool[c]
  PROVE  Tops(d, c)
<1>1. /\ Cardinality(Seen(c)) \in Nat \ {0}
      /\ Cardinality(Seen(d)) \in Nat \ {0}
      /\ IsGrounded(c) /\ IsGrounded(d)
  <2>1. Cardinality(Seen(c)) \in Nat /\ Cardinality(Seen(d)) \in Nat
    BY SeenFinite
  <2>2. Cardinality(Seen(c)) >= Grounded /\ Cardinality(Seen(d)) >= Grounded
    BY DEF Explored, Seen
  <2> QED BY <2>1, <2>2, Knobs DEF IsGrounded
<1>2. Total(Seen(c)) = 0
  BY SeenFinite, TotalIsSum DEF Dead, Seen
<1>3. Total(Seen(d)) \in Nat \ {0}
  <2>1. \E e \in Seen(d) : pool[e] # 0
    BY DEF Dead, Seen
  <2>2. Total(Seen(d)) \in Nat /\ Total(Seen(d)) > 0
    BY <2>1, SeenFinite, TotalIsSum
  <2> QED BY <2>2
<1>4. pool[c] \in Nat /\ pool[d] \in Nat
  BY PoolNatural DEF Candidates
<1>5. PICK n, m, t : n = Cardinality(Seen(d)) /\ m = Cardinality(Seen(c)) /\ t = Total(Seen(d))
  OBVIOUS
<1>6. /\ Plateau(d).num = (10 - Weight) * pool[d] * n + Weight * t
      /\ Plateau(d).den = 10 * n
      /\ Plateau(c).num = (10 - Weight) * pool[c] * m + Weight * 0
      /\ Plateau(c).den = 10 * m
  BY <1>1, <1>2, <1>5 DEF Plateau
<1>7. Weight \in 1 .. 8
  BY Knobs
<1> QED BY <1>1, <1>3, <1>4, <1>5, <1>6, <1>7, Blends DEF Tops

LEMMA FieldIsNoSpike ==
  ASSUME Pooled, Weight > 0, NEW best \in Field, Explored(best), Dead(best)
  PROVE  Cardinality({c \in Candidates : /\ Explored(c) /\ ~Dead(c)
                                         /\ pool[c] >= pool[best]}) < Kept
<1> DEFINE Better == {c \in Candidates : /\ Explored(c) /\ ~Dead(c)
                                         /\ pool[c] >= pool[best]}
<1> DEFINE Over == {d \in Ranked : Tops(d, best)}
<1>1. best \in Candidates /\ Cardinality(Over) < Kept
  BY DEF Field, Ranked
<1>2. \A c \in Candidates : Explored(c) => c \in Ranked
  BY DEF Ranked, Explored, IsGrounded, Seen
<1>3. Better \in SUBSET Over
  BY <1>1, <1>2, EarningTops
<1>4. IsFiniteSet(Over)
  <2>1. Over \in SUBSET Tested
    BY DEF Ranked, Candidates
  <2> HIDE DEF Over
  <2> QED BY <2>1, FS_Subset DEF Pooled
<1>5. Cardinality(Better) <= Cardinality(Over) /\ IsFiniteSet(Better)
  <2> HIDE DEF Over, Better
  <2> QED BY <1>3, <1>4, FS_Subset
<1>6. Cardinality(Better) \in Nat /\ Cardinality(Over) \in Nat
  <2> HIDE DEF Over, Better
  <2> QED BY <1>4, <1>5, FS_CardinalityType
<1> HIDE DEF Over, Better
<1>7. Cardinality(Better) < Kept
  BY <1>1, <1>5, <1>6, Knobs
<1> QED BY <1>7 DEF Better

-----------------------------------------------------------------------------
(* The grid: it is finite, and its order has a first cell in every set.    *)

\* What holds of 0 and is handed on holds of n.
LEMMA Climb ==
  ASSUME NEW n \in Nat, NEW Good, 0 \in Good,
         \A k \in Nat : k < n /\ k \in Good => k + 1 \in Good
  PROVE  n \in Good
<1> DEFINE Bad == {1 .. k : k \in {j \in 0 .. n : j \notin Good}}
<1> SUFFICES ASSUME n \notin Good PROVE FALSE
  OBVIOUS
<1>1. IsFiniteSet(1 .. n)
  <2>1. 1 \in Int /\ n \in Int
    OBVIOUS
  <2> QED BY <2>1, FS_Interval
<1>2. Bad \in SUBSET SUBSET (1 .. n) /\ Bad # {}
  <2>1. 1 .. n \in Bad
    OBVIOUS
  <2>2. ASSUME NEW t \in Bad PROVE t \in SUBSET (1 .. n)
    OBVIOUS
  <2> HIDE DEF Bad
  <2> QED BY <2>1, <2>2
<1> DEFINE Span == 1 .. n
<1>3. PICK t \in Bad : \A u \in Bad : u \subseteq t => u = t
  <2>1. IsFiniteSet(Span) /\ Bad \in SUBSET SUBSET Span /\ Bad # {}
    BY <1>1, <1>2
  <2> HIDE DEF Bad, Span
  <2> QED BY <2>1, LeastOfSubsets
<1>4. PICK k \in 0 .. n : t = 1 .. k /\ k \notin Good
  BY <1>3
<1>5. k # 0 /\ k - 1 \in Nat /\ k - 1 \in 0 .. n /\ (k - 1) + 1 = k
  BY <1>4
<1>6. k - 1 \in Good
  <2> SUFFICES ASSUME k - 1 \notin Good PROVE FALSE
    OBVIOUS
  <2>1. 1 .. (k - 1) \in Bad
    BY <1>5
  <2>2. 1 .. (k - 1) \subseteq 1 .. k /\ k \in 1 .. k /\ k \notin 1 .. (k - 1)
    BY <1>5
  <2> HIDE DEF Bad
  <2> QED BY <2>1, <2>2, <1>3, <1>4
<1> QED BY <1>4, <1>5, <1>6

LEMMA LeastNatural ==
  ASSUME NEW S \in SUBSET Nat, S # {}
  PROVE  \E m \in S : \A x \in S : m <= x
<1> DEFINE Good == {k \in Nat : (\E x \in S : x <= k) =>
                                    \E m \in S : \A x \in S : m <= x}
<1>1. 0 \in Good
  <2> SUFFICES ASSUME NEW x \in S, x <= 0 PROVE \A y \in S : x <= y
    OBVIOUS
  <2> QED OBVIOUS
<1>2. ASSUME NEW k \in Nat, k \in Good PROVE k + 1 \in Good
  <2> SUFFICES ASSUME NEW x \in S, x <= k + 1
               PROVE  \E m \in S : \A y \in S : m <= y
    OBVIOUS
  <2>1. CASE \E y \in S : y <= k
    BY <1>2, <2>1
  <2>2. CASE ~ \E y \in S : y <= k
    <3>1. \A y \in S : x <= y
      <4> SUFFICES ASSUME NEW y \in S PROVE x <= y
        OBVIOUS
      <4>1. y \in Nat /\ x \in Nat /\ ~(y <= k)
        BY <2>2
      <4> QED BY <4>1
    <3> QED BY <3>1
  <2> QED BY <2>1, <2>2
<1>3. PICK n \in S : TRUE
  OBVIOUS
<1>4. n \in Good
  <2>1. n \in Nat
    OBVIOUS
  <2> HIDE DEF Good
  <2> QED BY <2>1, <1>1, <1>2, Climb
<1> QED BY <1>4

LEMMA FunctionsFinite ==
  ASSUME NEW n \in Nat, NEW V, IsFiniteSet(V)
  PROVE  IsFiniteSet([1 .. n -> V])
<1> DEFINE Good == {k \in Nat : IsFiniteSet([1 .. k -> V])}
<1>1. 0 \in Good
  <2>1. [1 .. 0 -> V] = {[i \in {} |-> 0]}
    <3>1. 1 .. 0 = {}
      OBVIOUS
    <3>2. [{} -> V] = {[i \in {} |-> 0]}
      OBVIOUS
    <3> QED BY <3>1, <3>2
  <2> QED BY <2>1, FS_Singleton
<1>2. ASSUME NEW k \in Nat, k \in Good PROVE k + 1 \in Good
  <2> DEFINE A == [1 .. k + 1 -> V]
  <2> DEFINE B == [1 .. k -> V] \X V
  <2> DEFINE split == [f \in A |-> <<[i \in 1 .. k |-> f[i]], f[k + 1]>>]
  <2>1. IsFiniteSet(B)
    BY <1>2, FS_Product
  <2>2. split \in [A -> B]
    OBVIOUS
  <2>3. ASSUME NEW f \in A, NEW g \in A, split[f] = split[g] PROVE f = g
    <3>1. [i \in 1 .. k |-> f[i]] = [i \in 1 .. k |-> g[i]] /\ f[k + 1] = g[k + 1]
      BY <2>3
    <3>2. \A i \in 1 .. k : f[i] = g[i]
      BY <3>1
    <3>3. \A i \in 1 .. k + 1 : i \in 1 .. k \/ i = k + 1
      OBVIOUS
    <3> QED BY <3>1, <3>2, <3>3
  <2>4. split \in Injection(A, B)
    <3> HIDE DEF A, B, split
    <3> QED BY <2>2, <2>3 DEF Injection, IsInjective
  <2>5. IsFiniteSet(A)
    <3> HIDE DEF A, B, split
    <3> QED BY <2>1, <2>4, FS_Injection
  <2> QED BY <2>5
<1>3. n \in Good
  <2> HIDE DEF Good
  <2> QED BY <1>1, <1>2, Climb
<1> QED BY <1>3

LEMMA AxesNumbered ==
  /\ Len(Sizes) \in Nat \ {0} /\ Axes = 1 .. Len(Sizes)
  /\ \A a \in Axes : Sizes[a] \in Nat \ {0}
BY SweepAssumption DEF Axes

\* The greatest size bounds every axis.
LEMMA GreatestSize ==
  /\ Max(Range(Sizes)) \in Nat
  /\ \A a \in Axes : Sizes[a] <= Max(Range(Sizes))
<1> DEFINE Good == {k \in Nat : k >= 1 /\ k <= Len(Sizes) =>
        \E b \in 1 .. k : \A a \in 1 .. k : Sizes[a] <= Sizes[b]}
<1>1. 0 \in Good
  OBVIOUS
<1>2. ASSUME NEW k \in Nat, k < Len(Sizes), k \in Good PROVE k + 1 \in Good
  <2>1. \A a \in 1 .. k + 1 : Sizes[a] \in Nat
    BY <1>2, AxesNumbered
  <2>2. \A a \in 1 .. k + 1 : a \in 1 .. k \/ a = k + 1
    OBVIOUS
  <2>3. CASE k = 0
    BY <2>3, <2>1, <2>2
  <2>4. CASE k >= 1
    <3>1. PICK b \in 1 .. k : \A a \in 1 .. k : Sizes[a] <= Sizes[b]
      BY <2>4, <1>2
    <3>5. b \in 1 .. k + 1
      OBVIOUS
    <3>2. CASE Sizes[k + 1] <= Sizes[b]
      <4>1. \A a \in 1 .. k + 1 : Sizes[a] <= Sizes[b]
        BY <3>1, <3>2, <2>2
      <4> QED BY <4>1, <3>5
    <3>3. CASE Sizes[k + 1] > Sizes[b]
      <4>1. k + 1 \in 1 .. k + 1
        OBVIOUS
      <4>2. \A a \in 1 .. k + 1 : Sizes[a] <= Sizes[k + 1]
        BY <3>1, <3>3, <2>1, <2>2
      <4> QED BY <4>1, <4>2
    <3>4. Sizes[k + 1] \in Nat /\ Sizes[b] \in Nat
      BY <2>1, <3>5
    <3>6. Sizes[k + 1] <= Sizes[b] \/ Sizes[k + 1] > Sizes[b]
      BY <3>4
    <3> HIDE DEF Good
    <3> QED BY <3>2, <3>3, <3>6
  <2>5. k = 0 \/ k >= 1
    OBVIOUS
  <2> HIDE DEF Good
  <2> QED BY <2>3, <2>4, <2>5
<1>3. Len(Sizes) \in Good
  <2> HIDE DEF Good
  <2> QED BY <1>1, <1>2, AxesNumbered, Climb
<1>4. PICK b \in Axes : \A a \in Axes : Sizes[a] <= Sizes[b]
  BY <1>3, AxesNumbered
<1>5. Sizes[b] \in Range(Sizes) /\ \A v \in Range(Sizes) : Sizes[b] >= v
  BY <1>4, AxesNumbered DEF Range, Axes
<1>6. Max(Range(Sizes)) \in Range(Sizes) /\ \A v \in Range(Sizes) : Max(Range(Sizes)) >= v
  BY <1>5 DEF Max
<1>7. \A v \in Range(Sizes) : v \in Nat
  BY AxesNumbered DEF Range, Axes
<1>8. \A a \in Axes : Sizes[a] \in Range(Sizes)
  BY DEF Range, Axes
<1> QED BY <1>6, <1>7, <1>8

LEMMA CellsFinite == IsFiniteSet(Cells)
<1> DEFINE top == Max(Range(Sizes)) - 1
<1>1. Cells \in SUBSET [1 .. Len(Sizes) -> 0 .. top]
  BY AxesNumbered DEF Cells
<1>2. IsFiniteSet(0 .. top)
  <2>1. 0 \in Int /\ top \in Int
    BY GreatestSize
  <2> HIDE DEF top
  <2> QED BY <2>1, FS_Interval
<1> HIDE DEF top
<1>3. IsFiniteSet([1 .. Len(Sizes) -> 0 .. top])
  BY <1>2, AxesNumbered, FunctionsFinite
<1> QED BY <1>1, <1>3, FS_Subset

LEMMA CellShape ==
  ASSUME NEW c \in Cells
  PROVE  /\ \A a \in Axes : c[a] \in Nat /\ c[a] \in Indices(a)
         /\ c = [a \in Axes |-> c[a]]
<1>1. c \in [Axes -> 0 .. Max(Range(Sizes)) - 1] /\ \A a \in Axes : c[a] \in Indices(a)
  BY DEF Cells
<1>2. \A a \in Axes : \A i \in Indices(a) : i \in Nat
  BY AxesNumbered DEF Indices
<1> QED BY <1>1, <1>2

LEMMA MovedCell ==
  ASSUME NEW c \in Cells, NEW a \in Axes, NEW i \in Indices(a)
  PROVE  [c EXCEPT ![a] = i] \in Cells
<1>1. c \in [Axes -> 0 .. Max(Range(Sizes)) - 1] /\ \A e \in Axes : c[e] \in Indices(e)
  BY DEF Cells
<1>2. i \in 0 .. Max(Range(Sizes)) - 1
  BY GreatestSize, AxesNumbered DEF Indices
<1>3. [c EXCEPT ![a] = i] \in [Axes -> 0 .. Max(Range(Sizes)) - 1]
  BY <1>1, <1>2
<1> QED BY <1>1, <1>3 DEF Cells

\* The lexicographic order of sorted() has a first cell in every set of them.
LEMMA FirstOf ==
  ASSUME NEW S \in SUBSET Cells, S # {}
  PROVE  First(S) \in S
<1> DEFINE Ahead(c, d, k) == \/ \E a \in 1 .. k : c[a] < d[a] /\ \A e \in 1 .. a - 1 : c[e] = d[e]
                            \/ \A e \in 1 .. k : c[e] = d[e]
<1> DEFINE Good == {k \in Nat : k <= Len(Sizes) =>
                       \E c \in S : \A d \in S : Ahead(c, d, k)}
<1>1. 0 \in Good
  OBVIOUS
<1>2. ASSUME NEW k \in Nat, k < Len(Sizes), k \in Good PROVE k + 1 \in Good
  <2>1. PICK c \in S : \A d \in S : Ahead(c, d, k)
    BY <1>2, AxesNumbered
  <2>2. k + 1 \in Axes
    BY <1>2, AxesNumbered
  <2> DEFINE Level == {d \in S : \A e \in 1 .. k : c[e] = d[e]}
  <2> DEFINE Marks == {d[k + 1] : d \in Level}
  <2>3. Marks \in SUBSET Nat /\ Marks # {}
    BY <2>2, CellShape
  <2>4. PICK m \in Marks : \A x \in Marks : m <= x
    <3> HIDE DEF Marks
    <3> QED BY <2>3, LeastNatural
  <2>5. PICK b \in Level : m = b[k + 1]
    OBVIOUS
  <2>6. ASSUME NEW d \in S PROVE Ahead(b, d, k + 1)
    <3>1. \A e \in 1 .. k : b[e] = c[e]
      OBVIOUS
    <3>2. CASE \E a \in 1 .. k : c[a] < d[a] /\ \A e \in 1 .. a - 1 : c[e] = d[e]
      <4>1. PICK a \in 1 .. k : c[a] < d[a] /\ \A e \in 1 .. a - 1 : c[e] = d[e]
        BY <3>2
      <4>2. a \in 1 .. k + 1 /\ \A e \in 1 .. a - 1 : e \in 1 .. k
        OBVIOUS
      <4>3. b[a] < d[a] /\ \A e \in 1 .. a - 1 : b[e] = d[e]
        BY <4>1, <4>2, <3>1
      <4> QED BY <4>2, <4>3
    <3>3. CASE \A e \in 1 .. k : c[e] = d[e]
      <4>1. d \in Level
        BY <3>3
      <4>2. b[k + 1] <= d[k + 1] /\ b[k + 1] \in Nat /\ d[k + 1] \in Nat
        BY <4>1, <2>2, <2>4, <2>5, CellShape
      <4>3. \A e \in 1 .. k : b[e] = d[e]
        BY <3>1, <3>3
      <4>4. CASE b[k + 1] < d[k + 1]
        <5>1. k + 1 \in 1 .. k + 1 /\ 1 .. (k + 1) - 1 = 1 .. k
          OBVIOUS
        <5> QED BY <5>1, <4>3, <4>4
      <4>5. CASE b[k + 1] = d[k + 1]
        <5>1. \A e \in 1 .. k + 1 : e \in 1 .. k \/ e = k + 1
          OBVIOUS
        <5> QED BY <5>1, <4>3, <4>5
      <4> HIDE DEF Ahead
      <4> QED BY <4>2, <4>4, <4>5
    <3> QED BY <2>1, <3>2, <3>3
  <2>7. b \in S
    OBVIOUS
  <2> HIDE DEF Ahead
  <2> QED BY <2>6, <2>7
<1>3. Len(Sizes) \in Good
  <2> HIDE DEF Good
  <2> QED BY <1>1, <1>2, AxesNumbered, Climb
<1>4. PICK c \in S : \A d \in S : Ahead(c, d, Len(Sizes))
  BY <1>3, AxesNumbered
<1>5. ASSUME NEW d \in S \ {c} PROVE Before(c, d)
  <2>1. c = [a \in Axes |-> c[a]] /\ d = [a \in Axes |-> d[a]] /\ c # d
    BY CellShape
  <2>2. \E a \in Axes : c[a] # d[a]
    BY <2>1
  <2>3. PICK a \in Axes : c[a] < d[a] /\ \A e \in 1 .. a - 1 : c[e] = d[e]
    BY <1>4, <2>2, AxesNumbered
  <2>4. \A e \in Axes : e < a => e \in 1 .. a - 1
    BY AxesNumbered
  <2> QED BY <2>3, <2>4 DEF Before
<1> QED BY <1>5 DEF First

-----------------------------------------------------------------------------
(* The sample.  Its cover stays in the grid and in the budget.             *)

\* What one pass may be given.
Affordable == {T \in SUBSET Cells : T # {} /\ Cardinality(T) <= MaxCombos}

LEMMA AffordableFinite ==
  ASSUME NEW T \in Affordable
  PROVE  /\ T \in SUBSET Cells /\ T # {} /\ IsFiniteSet(T)
         /\ Cardinality(T) \in Nat /\ Cardinality(T) <= MaxCombos
<1>1. T \in SUBSET Cells /\ T # {} /\ Cardinality(T) <= MaxCombos
  BY DEF Affordable
<1>2. IsFiniteSet(T)
  BY <1>1, CellsFinite, FS_Subset
<1> QED BY <1>1, <1>2, FS_CardinalityType

LEMMA OneMore ==
  ASSUME NEW T, IsFiniteSet(T), NEW x
  PROVE  /\ IsFiniteSet(T \union {x}) /\ Cardinality(T \union {x}) \in Nat
         /\ Cardinality(T \union {x}) <= Cardinality(T) + 1
<1>1. Cardinality(T) \in Nat
  BY FS_CardinalityType
<1>2. IsFiniteSet(T \union {x})
  BY FS_AddElement
<1>3. Cardinality(T \union {x}) = IF x \in T THEN Cardinality(T) ELSE Cardinality(T) + 1
  BY FS_AddElement
<1>4. CASE x \in T
  BY <1>1, <1>2, <1>3, <1>4
<1>5. CASE x \notin T
  BY <1>1, <1>2, <1>3, <1>5
<1> QED BY <1>4, <1>5

\* A missing index is put in without leaving the grid or the budget.
LEMMA WithIndexKeeps ==
  ASSUME NEW T \in Affordable, NEW a \in Axes, NEW i \in Indices(a)
  PROVE  WithIndex(T, a, i) \in Affordable
<1>1. /\ T \in SUBSET Cells /\ T # {} /\ IsFiniteSet(T)
      /\ Cardinality(T) \in Nat /\ Cardinality(T) <= MaxCombos
  BY AffordableFinite
<1> DEFINE new == [First(Stand(T, a, i)) EXCEPT ![a] = i]
<1>2. Holding(T, a, i) = {} => new \in Cells
  <2> SUFFICES ASSUME Holding(T, a, i) = {} PROVE new \in Cells
    OBVIOUS
  <2>1. ASSUME NEW c \in T PROVE [c EXCEPT ![a] = i] \notin T
    <3>1. [c EXCEPT ![a] = i][a] = i
      BY <1>1, CellShape
    <3> QED BY <3>1 DEF Holding
  <2>2. Stand(T, a, i) \in SUBSET Cells /\ Stand(T, a, i) # {}
    BY <1>1, <2>1 DEF Stand
  <2>3. First(Stand(T, a, i)) \in Cells
    BY <2>2, FirstOf
  <2> QED BY <2>3, MovedCell
<1> HIDE DEF new
<1>3. CASE Holding(T, a, i) # {}
  BY <1>3 DEF WithIndex
<1>4. CASE Holding(T, a, i) = {} /\ Cardinality(T) < MaxCombos
  <2>1. T \union {new} \in SUBSET Cells
    BY <1>1, <1>2, <1>4
  <2>2. Cardinality(T \union {new}) <= MaxCombos
    <3>1. /\ Cardinality(T \union {new}) <= Cardinality(T) + 1
          /\ Cardinality(T \union {new}) \in Nat
      BY <1>1, OneMore
    <3> QED BY <3>1, <1>1, <1>4, Knobs
  <2>3. WithIndex(T, a, i) = T \union {new}
    BY <1>4, Knobs, <1>1 DEF WithIndex, new
  <2> QED BY <2>1, <2>2, <2>3 DEF Affordable
<1>5. CASE /\ Holding(T, a, i) = {} /\ Cardinality(T) >= MaxCombos
           /\ Spare(T, a) # {}
  <2> DEFINE out == First(Spare(T, a))
  <2>1. out \in T
    <3>1. Spare(T, a) \in SUBSET T /\ Spare(T, a) \in SUBSET Cells
      BY <1>1 DEF Spare
    <3>2. out \in Spare(T, a)
      BY <3>1, <1>5, FirstOf
    <3> QED BY <3>1, <3>2
  <2> HIDE DEF out
  <2>2. IsFiniteSet(T \ {out}) /\ Cardinality(T \ {out}) = Cardinality(T) - 1
    BY <1>1, <2>1, FS_RemoveElement
  <2> DEFINE rest == T \ {out}
  <2>3. rest \union {new} \in SUBSET Cells
    BY <1>1, <1>2, <1>5
  <2>4. Cardinality(rest \union {new}) <= MaxCombos
    <3> HIDE DEF rest
    <3>0. IsFiniteSet(rest) /\ Cardinality(rest) = Cardinality(T) - 1
      BY <2>2 DEF rest
    <3>3. Cardinality(rest) \in Nat
      BY <3>0, FS_CardinalityType
    <3>1. /\ Cardinality(rest \union {new}) <= Cardinality(rest) + 1
          /\ Cardinality(rest \union {new}) \in Nat
      BY <3>0, OneMore
    <3> QED BY <3>0, <3>1, <1>1, Knobs
  <2>5. WithIndex(T, a, i) = rest \union {new}
    BY <1>5, <1>1, Knobs DEF WithIndex, new, out
  <2> QED BY <2>3, <2>4, <2>5 DEF Affordable
<1>6. CASE /\ Holding(T, a, i) = {} /\ Cardinality(T) >= MaxCombos
           /\ Spare(T, a) = {}
  <2>1. WithIndex(T, a, i) = T
    BY <1>6, <1>1, Knobs DEF WithIndex
  <2> QED BY <2>1
<1> QED BY <1>1, <1>3, <1>4, <1>5, <1>6, Knobs

\* A fold stays where each of its steps stays.
LEMMA FoldKeeps ==
  ASSUME NEW S, IsFiniteSet(S), NEW pick,
         \A s \in SUBSET S : s # {} => pick[s] \in s,
         NEW V, NEW base \in V, NEW op \in [S \X V -> V], NEW f,
         FoldsBy(f, S, pick, base, op)
  PROVE  \A s \in SUBSET S : f[s] \in V
<1>0. \A s \in SUBSET S :
         f[s] = IF s = {} THEN base ELSE op[<<pick[s], f[s \ {pick[s]}]>>]
  BY DEF FoldsBy
<1> DEFINE Good == {s \in SUBSET S : f[s] \in V}
<1>1. {} \in Good
  <2>1. {} \in SUBSET S
    OBVIOUS
  <2>2. f[{}] = base
    BY <2>1, <1>0
  <2> QED BY <2>1, <2>2
<1>2. \A s \in SUBSET S : s # {} /\ s \ {pick[s]} \in Good => s \in Good
  <2> SUFFICES ASSUME NEW s \in SUBSET S, s # {}, s \ {pick[s]} \in Good
               PROVE  f[s] \in V
    OBVIOUS
  <2>1. pick[s] \in S /\ f[s \ {pick[s]}] \in V
    OBVIOUS
  <2>2. f[s] = op[<<pick[s], f[s \ {pick[s]}]>>]
    BY <1>0
  <2>3. <<pick[s], f[s \ {pick[s]}]>> \in S \X V
    BY <2>1
  <2> QED BY <2>2, <2>3
<1>3. \A s \in SUBSET S : s \in Good
  <2>1. IsFiniteSet(S) /\ \A s \in SUBSET S : s # {} => pick[s] \in s
    OBVIOUS
  <2> HIDE DEF Good
  <2> QED BY ONLY <2>1, <1>1, <1>2, OnSubsets
<1> QED BY <1>3

LEMMA WithAxisKeeps ==
  ASSUME NEW T \in Affordable, NEW a \in Axes
  PROVE  WithAxis(T, a) \in Affordable
<1> DEFINE n == Sizes[a]
<1> DEFINE seq == [k \in 1 .. n |-> k - 1]
<1> DEFINE S == 1 .. n
<1> DEFINE pick == [s \in SUBSET S |-> Max(s)]
<1> DEFINE op == [p \in S \X Affordable |-> WithIndex(p[2], a, seq[p[1]])]
<1> DEFINE iter == CHOOSE f : f = [s \in SUBSET S |->
                       IF s = {} THEN T
                       ELSE WithIndex(f[s \ {Max(s)}], a, seq[Max(s)])]
<1> DEFINE Sums(f) == f = [s \in SUBSET S |->
                       IF s = {} THEN T
                       ELSE WithIndex(f[s \ {Max(s)}], a, seq[Max(s)])]
<1>1. DOMAIN seq = S
  OBVIOUS
<1>2. FoldLeft(LAMBDA U, i : WithIndex(U, a, i), T, seq) = iter[S]
  BY <1>1 DEF FoldLeft, MapThenFoldSet
<1>3. IsFiniteSet(S)
  <2>1. 1 \in Int /\ n \in Int
    BY AxesNumbered
  <2> QED BY <2>1, FS_Interval
<1>4. ASSUME NEW s \in SUBSET S, s # {} PROVE Max(s) \in s
  <2>1. IsFiniteSet(s)
    <3> HIDE DEF S
    <3> QED BY <1>3, FS_Subset
  <2>2. s \in SUBSET Int
    BY AxesNumbered
  <2> HIDE DEF S
  <2> QED BY <1>4, <2>1, <2>2, MaxOfFinite
<1>5. \A s \in SUBSET S : s # {} => pick[s] \in s
  BY <1>4
<1>6. ASSUME NEW x \in S, NEW U \in Affordable
      PROVE  WithIndex(U, a, seq[x]) \in Affordable
  <2>1. seq[x] \in Indices(a)
    BY <1>6, AxesNumbered DEF Indices
  <2> HIDE DEF seq
  <2> QED BY <2>1, WithIndexKeeps
<1>7. op \in [S \X Affordable -> Affordable]
  <2> HIDE DEF seq, S
  <2> QED BY <1>6
<1>8. \A x \in S : \A U \in Affordable : op[<<x, U>>] = WithIndex(U, a, seq[x])
  <2> HIDE DEF seq, S
  <2> QED OBVIOUS
<1>9. \E f : Sums(f)
  <2> HIDE DEF S, pick, op, n, seq
  <2>1. HasFold(S, pick, T, op)
    BY <1>3, <1>5, FoldExists
  <2>0. PICK f : FoldsBy(f, S, pick, T, op)
    BY <2>1 DEF HasFold
  <2>2. \A s \in SUBSET S : f[s] = IF s = {} THEN T
                       ELSE op[<<pick[s], f[s \ {pick[s]}]>>]
    BY <2>0 DEF FoldsBy
  <2>3. \A s \in SUBSET S : f[s] \in Affordable
    BY <2>0, <1>3, <1>5, <1>7, FoldKeeps
  <2>4. ASSUME NEW s \in SUBSET S, s # {}
        PROVE  f[s] = WithIndex(f[s \ {Max(s)}], a, seq[Max(s)])
    <3>1. pick[s] = Max(s) /\ Max(s) \in S /\ s \ {Max(s)} \in SUBSET S
      BY <1>4, <2>4 DEF pick
    <3>2. f[s] = op[<<Max(s), f[s \ {Max(s)}]>>]
      BY <3>1, <2>2, <2>4
    <3> QED BY <3>1, <3>2, <2>3, <1>8
  <2> DEFINE g == [s \in SUBSET S |-> f[s]]
  <2>5. g = [s \in SUBSET S |-> IF s = {} THEN T
                       ELSE WithIndex(g[s \ {Max(s)}], a, seq[Max(s)])]
    <3>1. \A s \in SUBSET S : s \ {Max(s)} \in SUBSET S
      OBVIOUS
    <3>2. f[{}] = T
      BY <2>2
    <3> QED BY <2>4, <3>1, <3>2
  <2>6. Sums(g)
    <3> HIDE DEF g
    <3> QED BY <2>5
  <2> QED BY <2>6
<1>10. Sums(iter)
  BY <1>9
<1>11. \A s \in SUBSET S : iter[s] = IF s = {} THEN T
                       ELSE WithIndex(iter[s \ {Max(s)}], a, seq[Max(s)])
  <2> HIDE DEF iter, S, seq
  <2> QED BY <1>10
<1> HIDE DEF iter, S, seq, pick, op
<1> DEFINE Good == {s \in SUBSET S : iter[s] \in Affordable}
<1>12. \A s \in SUBSET S : s \in Good
  <2>1. {} \in Good
    BY <1>11
  <2>2. ASSUME NEW s \in SUBSET S, s # {}, s \ {pick[s]} \in Good PROVE s \in Good
    <3>1. pick[s] = Max(s)
      BY DEF pick
    <3>2. Max(s) \in S
      BY <1>4, <2>2
    <3>3. iter[s] = WithIndex(iter[s \ {Max(s)}], a, seq[Max(s)])
      BY <1>11, <2>2
    <3>4. iter[s \ {Max(s)}] \in Affordable
      BY <2>2, <3>1
    <3> QED BY <3>2, <3>3, <3>4, <1>6
  <2> HIDE DEF Good
  <2> QED BY ONLY <2>1, <2>2, <1>3, <1>5, OnSubsets
<1>13. iter[S] \in Affordable
  BY <1>12
<1> QED BY <1>2, <1>13 DEF WithAxis, seq

LEMMA CoverKeeps ==
  ASSUME NEW T \in Affordable
  PROVE  CoverShortAxes(T) \in Affordable
<1> DEFINE seq == [a \in Axes |-> a]
<1> DEFINE S == Axes
<1> DEFINE pick == [s \in SUBSET S |-> Max(s)]
<1> DEFINE op == [p \in S \X Affordable |-> WithAxis(p[2], seq[p[1]])]
<1> DEFINE iter == CHOOSE f : f = [s \in SUBSET S |->
                       IF s = {} THEN T
                       ELSE WithAxis(f[s \ {Max(s)}], seq[Max(s)])]
<1> DEFINE Sums(f) == f = [s \in SUBSET S |->
                       IF s = {} THEN T
                       ELSE WithAxis(f[s \ {Max(s)}], seq[Max(s)])]
<1>1. DOMAIN seq = S
  OBVIOUS
<1>2. FoldLeft(LAMBDA U, a : WithAxis(U, a), T, seq) = iter[S]
  BY <1>1 DEF FoldLeft, MapThenFoldSet
<1>3. IsFiniteSet(S)
  <2>1. 1 \in Int /\ Len(Sizes) \in Int
    BY AxesNumbered
  <2> QED BY <2>1, AxesNumbered, FS_Interval
<1>4. ASSUME NEW s \in SUBSET S, s # {} PROVE Max(s) \in s
  <2>1. IsFiniteSet(s)
    <3> HIDE DEF S
    <3> QED BY <1>3, FS_Subset
  <2>2. s \in SUBSET Int
    BY AxesNumbered
  <2> HIDE DEF S
  <2> QED BY <1>4, <2>1, <2>2, MaxOfFinite
<1>5. \A s \in SUBSET S : s # {} => pick[s] \in s
  BY <1>4
<1>6. ASSUME NEW x \in S, NEW U \in Affordable
      PROVE  WithAxis(U, seq[x]) \in Affordable
  <2>1. seq[x] \in Axes
    BY <1>6
  <2> HIDE DEF seq
  <2> QED BY <2>1, WithAxisKeeps
<1>7. op \in [S \X Affordable -> Affordable]
  <2> HIDE DEF seq, S
  <2> QED BY <1>6
<1>8. \A x \in S : \A U \in Affordable : op[<<x, U>>] = WithAxis(U, seq[x])
  <2> HIDE DEF seq, S
  <2> QED OBVIOUS
<1>9. \E f : Sums(f)
  <2> HIDE DEF S, pick, op, seq
  <2>1. HasFold(S, pick, T, op)
    BY <1>3, <1>5, FoldExists
  <2>0. PICK f : FoldsBy(f, S, pick, T, op)
    BY <2>1 DEF HasFold
  <2>2. \A s \in SUBSET S : f[s] = IF s = {} THEN T
                       ELSE op[<<pick[s], f[s \ {pick[s]}]>>]
    BY <2>0 DEF FoldsBy
  <2>3. \A s \in SUBSET S : f[s] \in Affordable
    BY <2>0, <1>3, <1>5, <1>7, FoldKeeps
  <2>4. ASSUME NEW s \in SUBSET S, s # {}
        PROVE  f[s] = WithAxis(f[s \ {Max(s)}], seq[Max(s)])
    <3>1. pick[s] = Max(s) /\ Max(s) \in S /\ s \ {Max(s)} \in SUBSET S
      BY <1>4, <2>4 DEF pick
    <3>2. f[s] = op[<<Max(s), f[s \ {Max(s)}]>>]
      BY <3>1, <2>2, <2>4
    <3> QED BY <3>1, <3>2, <2>3, <1>8
  <2> DEFINE g == [s \in SUBSET S |-> f[s]]
  <2>5. g = [s \in SUBSET S |-> IF s = {} THEN T
                       ELSE WithAxis(g[s \ {Max(s)}], seq[Max(s)])]
    <3>1. \A s \in SUBSET S : s \ {Max(s)} \in SUBSET S
      OBVIOUS
    <3>2. f[{}] = T
      BY <2>2
    <3> QED BY <2>4, <3>1, <3>2
  <2>6. Sums(g)
    <3> HIDE DEF g
    <3> QED BY <2>5
  <2> QED BY <2>6
<1>10. Sums(iter)
  BY <1>9
<1>11. \A s \in SUBSET S : iter[s] = IF s = {} THEN T
                       ELSE WithAxis(iter[s \ {Max(s)}], seq[Max(s)])
  <2> HIDE DEF iter, S, seq
  <2> QED BY <1>10
<1> HIDE DEF iter, S, seq, pick, op
<1> DEFINE Good == {s \in SUBSET S : iter[s] \in Affordable}
<1>12. \A s \in SUBSET S : s \in Good
  <2>1. {} \in Good
    BY <1>11
  <2>2. ASSUME NEW s \in SUBSET S, s # {}, s \ {pick[s]} \in Good PROVE s \in Good
    <3>1. pick[s] = Max(s)
      BY DEF pick
    <3>2. Max(s) \in S
      BY <1>4, <2>2
    <3>3. iter[s] = WithAxis(iter[s \ {Max(s)}], seq[Max(s)])
      BY <1>11, <2>2
    <3>4. iter[s \ {Max(s)}] \in Affordable
      BY <2>2, <3>1
    <3> QED BY <3>2, <3>3, <3>4, <1>6
  <2> HIDE DEF Good
  <2> QED BY ONLY <2>1, <2>2, <1>3, <1>5, OnSubsets
<1>13. iter[S] \in Affordable
  BY <1>12
<1> QED BY <1>2, <1>13 DEF CoverShortAxes, seq, S

LEMMA SampleAffordable ==
  ASSUME NEW S \in Samples
  PROVE  S \in Affordable
<1>1. CASE Cardinality(Cells) <= MaxCombos
  <2>1. S = Cells
    BY <1>1 DEF Samples
  <2>2. [a \in Axes |-> 0] \in Cells
    <3>1. \A a \in Axes : 0 \in Indices(a) /\ 0 \in 0 .. Max(Range(Sizes)) - 1
      BY AxesNumbered, GreatestSize DEF Indices
    <3> QED BY <3>1 DEF Cells
  <2> QED BY <1>1, <2>1, <2>2 DEF Affordable
<1>2. CASE ~(Cardinality(Cells) <= MaxCombos)
  <2>1. PICK T \in kSubset(MaxCombos, Cells) : S = CoverShortAxes(T)
    BY <1>2 DEF Samples
  <2>2. T \in SUBSET Cells /\ Cardinality(T) = MaxCombos
    BY DEF kSubset
  <2>3. T # {}
    BY <2>2, Knobs, FS_EmptySet
  <2>4. T \in Affordable
    BY <2>2, <2>3, Knobs DEF Affordable
  <2> QED BY <2>1, <2>4, CoverKeeps
<1> QED BY <1>1, <1>2

-----------------------------------------------------------------------------
\* The inductive invariant: the types, the backtests a search has still to pay
\* for, and that nothing is tested once a winner is named.
SweepInv ==
    /\ SweepTypeOK
    /\ step = "draw" => Tested = {} /\ untested = {}
    /\ Cardinality(Tested) + Cardinality(untested) <= Budget(round)
    /\ outcome.kind = "found" => step = "done"

LEMMA Budgets ==
  ASSUME NEW r \in Nat
  PROVE  /\ Budget(r) \in Nat /\ MaxCombos <= Budget(r)
         /\ Budget(r + 1) = Budget(r) + MaxCombos
<1>1. PICK m \in Nat : m = MaxCombos
  BY Knobs
<1>2. PICK p \in Nat : p = m * r
  OBVIOUS
<1>3. m * (1 + r) = m + p /\ m * (1 + (r + 1)) = (m + p) + m
  BY <1>2
<1> QED BY <1>1, <1>3 DEF Budget

LEMMA InvFinite ==
  ASSUME SweepTypeOK
  PROVE  /\ Pooled
         /\ IsFiniteSet(Tested) /\ Cardinality(Tested) \in Nat
         /\ IsFiniteSet(untested) /\ Cardinality(untested) \in Nat
         /\ round \in Nat /\ Budget(round) \in Nat
<1>1. Tested \in SUBSET Cells /\ untested \in SUBSET Cells /\ round \in Nat
  BY Knobs DEF SweepTypeOK
<1>2. IsFiniteSet(Tested) /\ IsFiniteSet(untested)
  BY <1>1, CellsFinite, FS_Subset
<1>3. Cardinality(Tested) \in Nat /\ Cardinality(untested) \in Nat
  BY <1>2, FS_CardinalityType
<1>4. \A c \in Tested : pool[c] \in {0} \union Scores
  BY DEF SweepTypeOK, Range, Tested
<1>5. Budget(round) \in Nat
  BY <1>1, Budgets
<1> QED BY <1>1, <1>2, <1>3, <1>4, <1>5 DEF Pooled

LEMMA SweepInitial ==
  ASSUME SweepInit
  PROVE  SweepInv
<1>1. Tested = {} /\ Range(pool) = {}
  BY DEF SweepInit, Tested, Range
<1>2. SweepTypeOK
  BY <1>1, Knobs DEF SweepInit, SweepTypeOK, Ends
<1>3. Cardinality(Tested) + Cardinality(untested) <= Budget(round)
  BY <1>1, <1>2, InvFinite, FS_EmptySet DEF SweepInit
<1>4. outcome.kind = "open"
  BY DEF SweepInit, Ends
<1> QED BY <1>1, <1>2, <1>3, <1>4 DEF SweepInv, SweepInit

\* A step that leaves the tested cells and the outcome alone.
LEMMA CalmStep ==
  ASSUME SweepInv, UNCHANGED <<pool, outcome>>,
         SweepTypeOK', step' = "draw" => step = "draw" /\ untested' = {},
         step = "done" => step' = "done",
         Cardinality(untested') + Cardinality(Tested) <= Budget(round')
  PROVE  SweepInv'
<1>1. Tested' = Tested
  BY DEF Tested
<1>2. SweepInv'
  <2>1. Cardinality(Tested') \in Nat /\ Cardinality(untested') \in Nat
    <3>1. Tested' \in SUBSET Cells /\ untested' \in SUBSET Cells
      BY DEF SweepTypeOK
    <3>2. IsFiniteSet(Tested') /\ IsFiniteSet(untested')
      BY <3>1, CellsFinite, FS_Subset
    <3> QED BY <3>2, FS_CardinalityType
  <2>2. Cardinality(Tested') + Cardinality(untested') <= Budget(round)'
    BY <1>1, <2>1 DEF Budget
  <2> QED BY <1>1, <2>2 DEF SweepInv
<1> QED BY <1>2

LEMMA DrawKeeps ==
  ASSUME SweepInv, Draw
  PROVE  SweepInv'
<1>1. drawn' \in Affordable /\ untested' = drawn'
  BY SampleAffordable DEF Draw
<1>2. drawn' \in SUBSET Cells /\ Cardinality(untested') <= MaxCombos /\ Cardinality(untested') \in Nat
  BY <1>1, AffordableFinite
<1>3. SweepTypeOK'
  BY <1>1, <1>2 DEF Draw, SweepInv, SweepTypeOK, Tested
<1>4. Tested = {}
  BY DEF Draw, SweepInv
<1>5. Cardinality(untested') + Cardinality(Tested) <= Budget(round')
  <2>1. Cardinality(Tested) = 0
    BY <1>4, FS_EmptySet
  <2>2. round' \in Nat
    BY Knobs, <1>3 DEF SweepTypeOK
  <2>3. Budget(round') \in Nat /\ MaxCombos <= Budget(round')
    BY <2>2, Budgets
  <2> QED BY <1>2, <2>1, <2>3, Knobs
<1> QED BY <1>3, <1>5, CalmStep DEF Draw, SweepInv

LEMMA BacktestKeeps ==
  ASSUME SweepInv, Backtest
  PROVE  SweepInv'
<1> DEFINE x == First(untested)
<1>1. x \in untested /\ x \in Cells /\ untested \in SUBSET Cells
  BY FirstOf DEF SweepInv, SweepTypeOK, Backtest
<1>2. PICK f \in {0} \union Scores : pool' = [c \in Tested \union {x} |-> IF c = x THEN f ELSE pool[c]]
  BY DEF Backtest
<1> HIDE DEF x
<1>3. Tested' = Tested \union {x} /\ \A c \in Tested' : pool'[c] = IF c = x THEN f ELSE pool[c]
  BY <1>2 DEF Tested
<1>4. untested' = untested \ {x}
  BY DEF Backtest, x
<1>5. SweepTypeOK'
  <2>1. Range(pool)' \subseteq {0} \union Scores
    BY <1>2, <1>3 DEF Range, Tested, SweepInv, SweepTypeOK
  <2>2. Tested' \subseteq Cells
    BY <1>1, <1>3 DEF SweepInv, SweepTypeOK
  <2> QED BY <2>1, <2>2, <1>4, <1>1 DEF SweepInv, SweepTypeOK, Backtest
<1>6. Cardinality(Tested') + Cardinality(untested') <= Budget(round)'
  <2>1. /\ IsFiniteSet(Tested) /\ Cardinality(Tested) \in Nat
        /\ IsFiniteSet(untested) /\ Cardinality(untested) \in Nat /\ Budget(round) \in Nat
    BY InvFinite DEF SweepInv
  <2>2. Cardinality(untested') = Cardinality(untested) - 1
    BY <2>1, <1>1, <1>4, FS_RemoveElement
  <2>3. Cardinality(Tested') <= Cardinality(Tested) + 1 /\ Cardinality(Tested') \in Nat
    BY <2>1, <1>3, OneMore
  <2>4. Budget(round)' = Budget(round)
    BY DEF Backtest, Budget
  <2> QED BY <2>1, <2>2, <2>3, <2>4 DEF SweepInv
<1>7. outcome.kind # "found" /\ outcome' = outcome /\ step' = step /\ step # "draw"
  BY DEF Backtest, SweepInv
<1> QED BY <1>5, <1>6, <1>7 DEF SweepInv

LEMMA RefineKeeps ==
  ASSUME SweepInv, Refine
  PROVE  SweepInv'
<1>1. Probes \in SUBSET Cells
  BY DEF Probes, Neighbours
<1>2. IsFiniteSet(Probes) /\ Cardinality(Probes) \in Nat
  <2>1. IsFiniteSet(Probes)
    BY <1>1, CellsFinite, FS_Subset
  <2> QED BY <2>1, FS_CardinalityType
<1>3. untested' \in SUBSET Cells /\ Cardinality(untested') \in Nat /\ Cardinality(untested') <= MaxCombos
  BY <1>1, <1>2, Knobs DEF Refine, Paid, kSubset
<1>4. SweepTypeOK'
  BY <1>3, Knobs DEF SweepInv, SweepTypeOK, Refine, Tested
<1>5. Cardinality(untested') + Cardinality(Tested) <= Budget(round')
  <2>1. Cardinality(Tested) \in Nat /\ round \in Nat /\ Budget(round) \in Nat /\ Cardinality(untested) \in Nat
    BY InvFinite DEF SweepInv
  <2>2. Cardinality(Tested) <= Budget(round)
    BY <2>1 DEF SweepInv
  <2>3. Budget(round') = Budget(round) + MaxCombos
    BY <2>1, Budgets DEF Refine
  <2> QED BY <2>1, <2>2, <2>3, <1>3, Knobs
<1> QED BY <1>4, <1>5, CalmStep DEF Refine

LEMMA EndKeeps ==
  ASSUME SweepInv, CancelCoarse \/ CancelProbe \/ Through \/ NothingFound
  PROVE  SweepInv'
<1>1. /\ Cardinality(Tested) \in Nat /\ Cardinality(untested) \in Nat
      /\ round \in Nat /\ Budget(round) \in Nat /\ Cardinality({}) = 0
  BY InvFinite, FS_EmptySet DEF SweepInv
<1>2. /\ Cardinality(untested') = 0 \/ untested' = untested
      /\ round' = round /\ pool' = pool
  BY <1>1 DEF CancelCoarse, CancelProbe, Through, NothingFound
<1>3. SweepTypeOK'
  <2>0. /\ drawn \subseteq Cells /\ untested \subseteq Cells /\ Tested \subseteq Cells
        /\ Range(pool) \subseteq {0} \union Scores /\ round \in 0 .. Rounds
        /\ outcome \in [kind : {"open", "cancelled", "nothing", "found"},
                          best : Cells \union {Unknown}, validated : BOOLEAN]
    BY DEF SweepInv, SweepTypeOK
  <2>1. CASE CancelCoarse
    BY <2>0, <2>1 DEF SweepTypeOK, CancelCoarse, Ends, Tested
  <2>2. CASE CancelProbe
    BY <2>0, <2>2 DEF SweepTypeOK, CancelProbe, Tested
  <2>3. CASE Through
    BY <2>0, <2>3 DEF SweepTypeOK, Through, Tested
  <2>4. CASE NothingFound
    BY <2>0, <2>4 DEF SweepTypeOK, NothingFound, Ends, Tested
  <2> QED BY <2>1, <2>2, <2>3, <2>4
<1>4. Cardinality(Tested') + Cardinality(untested') <= Budget(round)'
  <2>1. Tested' = Tested
    BY <1>2 DEF Tested
  <2>2. Budget(round)' = Budget(round)
    BY <1>2 DEF Budget
  <2> QED BY <1>1, <1>2, <2>1, <2>2 DEF SweepInv
<1>5. /\ step' # "draw"
      /\ outcome'.kind # "found"
  BY DEF SweepInv, CancelCoarse, CancelProbe, Through, NothingFound, Ends
<1> QED BY <1>3, <1>4, <1>5 DEF SweepInv

LEMMA PickKeeps ==
  ASSUME SweepInv, Pick
  PROVE  SweepInv'
<1>1. PICK best \in Field, valid, holdout \in BOOLEAN :
          outcome' = [kind |-> "found", best |-> best, validated |-> valid /\ holdout]
  BY DEF Pick
<1>2. best \in Cells
  BY DEF Field, Ranked, Candidates, SweepInv, SweepTypeOK
<1>3. outcome' \in [kind : {"open", "cancelled", "nothing", "found"},
                     best : Cells \union {Unknown}, validated : BOOLEAN]
  BY <1>1, <1>2
<1>4. UNCHANGED <<drawn, untested, pool, round>> /\ step' = "done"
  BY DEF Pick
<1>5. SweepTypeOK'
  BY <1>3, <1>4 DEF SweepInv, SweepTypeOK, Tested
<1> QED BY <1>4, <1>5 DEF SweepInv, Tested, Budget

LEMMA SweepKeeps ==
  ASSUME SweepInv, [SweepNext]_sweepVars
  PROVE  SweepInv'
<1>1. CASE UNCHANGED sweepVars
  BY <1>1 DEF sweepVars, SweepInv, SweepTypeOK, Tested, Budget
<1>2. CASE SweepNext
  BY <1>2, DrawKeeps, BacktestKeeps, RefineKeeps, EndKeeps, PickKeeps DEF SweepNext
<1> QED BY <1>1, <1>2

\* A winner is named by Pick alone, and nothing moves after it.
LEMMA SpikeKeeps ==
  ASSUME SweepInv, NoDeadSpike, Weight > 0, [SweepNext]_sweepVars
  PROVE  NoDeadSpike'
<1>1. CASE UNCHANGED sweepVars
  BY <1>1 DEF sweepVars, NoDeadSpike, Explored, Dead, Candidates, Tested
<1>2. CASE Pick
  <2>1. PICK best \in Field, valid, holdout \in BOOLEAN :
            outcome' = [kind |-> "found", best |-> best, validated |-> valid /\ holdout]
    BY <1>2 DEF Pick
  <2>2. pool' = pool /\ outcome'.best = best
    BY <1>2, <2>1 DEF Pick
  <2>3. Explored(best) /\ Dead(best) =>
          Cardinality({c \in Candidates : /\ Explored(c) /\ ~Dead(c)
                                           /\ pool[c] >= pool[best]}) < Kept
    BY FieldIsNoSpike, InvFinite DEF SweepInv
  <2> QED BY <2>2, <2>3 DEF NoDeadSpike, Explored, Dead, Candidates, Tested
<1>3. CASE SweepNext /\ ~Pick
  <2>1. outcome'.kind # "found"
    <3>1. CASE Draw \/ Backtest \/ CancelProbe \/ Refine \/ Through
      BY <3>1 DEF SweepInv, Draw, Backtest, CancelProbe, Refine, Through
    <3>2. CASE CancelCoarse \/ NothingFound
      BY <3>2 DEF CancelCoarse, NothingFound, Ends
    <3> QED BY <1>3, <3>1, <3>2 DEF SweepNext
  <2> QED BY <2>1 DEF NoDeadSpike
<1> QED BY <1>1, <1>2, <1>3

\* The inductive invariant of the search.
THEOREM SweepInvariant == SweepSpec => []SweepInv
<1>1. SweepInit => SweepInv
  BY SweepInitial
<1>2. SweepInv /\ [SweepNext]_sweepVars => SweepInv'
  BY SweepKeeps
<1> QED BY <1>1, <1>2, PTL DEF SweepSpec

\* Every variable of the search stays in its set: the sample drawn, covered
\* and thinned is a set of cells of the grid, and what is tested is a cell.
THEOREM SweepTyped == SweepSpec => []SweepTypeOK
<1>1. SweepInv => SweepTypeOK
  BY DEF SweepInv
<1> QED BY <1>1, SweepInvariant, PTL

\* A search never runs more backtests than sweep_budget announces for the
\* passes it has begun.
THEOREM BudgetSafe == SweepSpec => []PassesPaid
<1>1. SweepInv => PassesPaid
  BY InvFinite DEF SweepInv, PassesPaid
<1> QED BY <1>1, SweepInvariant, PTL

\* An isolated spike among tested losers is never validated ahead of Kept
\* cells that score as well in a neighbourhood that earns, as long as the
\* neighbours have a weight at all.
THEOREM NoSpikeSafe ==
  ASSUME Weight > 0
  PROVE  SweepSpec => []NoDeadSpike
<1>1. SweepInit => NoDeadSpike
  BY DEF SweepInit, NoDeadSpike, Ends
<1>2. SweepInv /\ NoDeadSpike /\ [SweepNext]_sweepVars => NoDeadSpike'
  BY SpikeKeeps
<1> QED BY <1>1, <1>2, SweepInvariant, PTL DEF SweepSpec

-----------------------------------------------------------------------------
(* What a run may spend.                                                   *)

\* The quotient of naturals: it is the largest whose product fits.
LEMMA Shares ==
  ASSUME NEW a \in Nat, NEW b \in Nat \ {0}
  PROVE  a \div b \in Nat /\ b * (a \div b) <= a
  OBVIOUS

LEMMA SharesGrow ==
  ASSUME NEW a \in Nat, NEW c \in Nat, NEW b \in Nat \ {0}, a <= c
  PROVE  a \div b <= c \div b
  OBVIOUS

LEMMA ProductsGrow ==
  ASSUME NEW k \in Nat, NEW a \in Nat, NEW c \in Nat, a <= c
  PROVE  k * a \in Nat /\ k * a <= k * c
  OBVIOUS

\* What a family is short of is its grid beyond the cap; what it leaves is
\* the cap beyond its grid.
LEMMA Divides ==
  ASSUME NEW F, IsFiniteSet(F), NEW grid \in [F -> Nat], NEW cap \in Nat
  PROVE  /\ \A f \in F : /\ Evenly(grid, cap)[f] \in Nat /\ Gap(grid, cap)[f] \in Nat
                         /\ Evenly(grid, cap)[f] + Gap(grid, cap)[f] = grid[f]
                         /\ Evenly(grid, cap)[f] <= cap
                         /\ grid[f] <= cap => Gap(grid, cap)[f] = 0
                         /\ grid[f] > cap => Evenly(grid, cap)[f] = cap
                         /\ grid[f] <= cap => Evenly(grid, cap)[f] = grid[f]
         /\ Summed(Evenly(grid, cap), F) /\ Summed(Gap(grid, cap), F)
         /\ Surplus(grid, cap) \in Nat
         /\ SumFunctionOnSet(Evenly(grid, cap), F) + Surplus(grid, cap) = cap * Cardinality(F)
         /\ SumFunctionOnSet(Gap(grid, cap), F) \in Nat
<1> DEFINE even == Evenly(grid, cap)
<1> DEFINE gap == Gap(grid, cap)
<1> DEFINE spare == [f \in F |-> cap - even[f]]
<1> DEFINE flat == [f \in F |-> cap]
<1> DEFINE none == [f \in F |-> 0]
<1>1. /\ even = [f \in F |-> Smaller(grid[f], cap)]
      /\ gap = [f \in F |-> grid[f] - even[f]]
  BY DEF Evenly, Gap
<1>2. \A f \in F : /\ even[f] \in Nat /\ gap[f] \in Nat
                   /\ even[f] + gap[f] = grid[f]
                   /\ even[f] <= cap
                   /\ grid[f] <= cap => gap[f] = 0
                   /\ grid[f] > cap => even[f] = cap
                   /\ grid[f] <= cap => even[f] = grid[f]
                   /\ spare[f] \in Nat /\ spare[f] + even[f] = cap
  <2> HIDE DEF even, gap
  <2> QED BY <1>1 DEF Smaller
<1>3. Surplus(grid, cap) = SumFunctionOnSet(spare, F)
  BY DEF Surplus, SumFunction
<1>4. Summed(even, F) /\ Summed(gap, F) /\ Summed(spare, F) /\ Summed(none, F)
  <2> HIDE DEF even, gap
  <2> QED BY <1>2 DEF Summed
<1>5. SumFunctionOnSet(none, F) = 0
  <2>1. \A f \in F : none[f] = 0
    OBVIOUS
  <2>2. SumFunctionOnSet(none, F) = 0 * Cardinality(F)
    <3> HIDE DEF none
    <3> QED BY <2>1, SumConstant
  <2>3. Cardinality(F) \in Nat
    BY FS_CardinalityType
  <2> QED BY <2>2, <2>3
<1>6. SumFunctionOnSet(none, F) <= SumFunctionOnSet(spare, F)
  <2>1. \A f \in F : none[f] <= spare[f]
    BY <1>2
  <2> HIDE DEF none, spare
  <2> QED BY <1>4, <2>1, SumMonotone
<1>7. SumFunctionOnSet(none, F) <= SumFunctionOnSet(gap, F)
  <2>1. \A f \in F : none[f] <= gap[f]
    BY <1>2
  <2> HIDE DEF none, gap
  <2> QED BY <1>4, <2>1, SumMonotone
<1>8. SumFunctionOnSet(flat, F) = SumFunctionOnSet(even, F) + SumFunctionOnSet(spare, F)
  <2>1. \A f \in F : flat[f] = even[f] + spare[f]
    BY <1>2
  <2> HIDE DEF flat, even, spare
  <2> QED BY <1>4, <2>1, SumPlus
<1>9. SumFunctionOnSet(flat, F) = cap * Cardinality(F)
  <2>1. \A f \in F : flat[f] = cap
    OBVIOUS
  <2> HIDE DEF flat
  <2> QED BY <2>1, SumConstant
<1>10. /\ SumFunctionOnSet(even, F) \in Int /\ SumFunctionOnSet(spare, F) \in Int
       /\ SumFunctionOnSet(gap, F) \in Int
  <2> HIDE DEF even, gap, spare
  <2> QED BY <1>4, SumStep
<1>11. /\ SumFunctionOnSet(spare, F) \in Nat /\ SumFunctionOnSet(gap, F) \in Nat
  <2> HIDE DEF even, gap, spare, none
  <2> QED BY <1>5, <1>6, <1>7, <1>10
<1> HIDE DEF spare, flat, none
<1> QED BY <1>2, <1>3, <1>4, <1>8, <1>9, <1>11

\* What coverage_budget promises of itself, for every set of families, every
\* grid and every cap.
THEOREM CoverageKept ==
  ASSUME NEW F, IsFiniteSet(F), NEW grid \in [F -> Nat], NEW cap \in Nat
  PROVE  BudgetKept(grid, cap)
<1> DEFINE even == Evenly(grid, cap)
<1> DEFINE gap == Gap(grid, cap)
<1> DEFINE surplus == Surplus(grid, cap)
<1> DEFINE room == SumFunctionOnSet(gap, F)
<1> DEFINE out == CoverageBudget(grid, cap)
<1>1. /\ \A f \in F : /\ even[f] \in Nat /\ gap[f] \in Nat /\ grid[f] \in Nat
                      /\ even[f] + gap[f] = grid[f] /\ even[f] <= cap
                      /\ grid[f] <= cap => gap[f] = 0
                      /\ grid[f] > cap => even[f] = cap
                      /\ grid[f] <= cap => even[f] = grid[f]
      /\ Summed(even, F) /\ Summed(gap, F)
      /\ surplus \in Nat /\ room \in Nat
      /\ SumFunctionOnSet(even, F) + surplus = cap * Cardinality(F)
  BY Divides
<1>2. DOMAIN grid = F /\ DOMAIN gap = F
  BY DEF Gap
<1>3. SumFunctionOnSet(even, F) \in Int /\ Cardinality(F) \in Nat
  <2> HIDE DEF even
  <2> QED BY <1>1, SumStep, FS_CardinalityType
<1>4. PICK most \in Int : most = cap * Cardinality(F)
  BY <1>3
<1>5. CASE room = 0
  <2>1. out = even
    BY <1>2, <1>5 DEF CoverageBudget, SumFunction
  <2>2. DOMAIN out = F
    BY <2>1 DEF Evenly
  <2>3. SumFunction(out) <= cap * Cardinality(F)
    <3>1. SumFunction(out) = SumFunctionOnSet(even, F)
      BY <2>1, <2>2 DEF SumFunction
    <3> HIDE DEF even, surplus, room, out
    <3> QED BY <1>1, <1>3, <1>4, <3>1
  <2>4. \A f \in F : /\ even[f] <= out[f] /\ out[f] <= grid[f]
                     /\ \A g \in F : grid[f] <= grid[g] => out[f] <= out[g]
    <3> HIDE DEF even, gap, out
    <3> QED BY <1>1, <2>1
  <2> QED BY <1>2, <2>3, <2>4 DEF BudgetKept
<1>6. CASE room > 0
  <2> DEFINE share == [f \in F |-> (surplus * gap[f]) \div room]
  <2>1. out = [f \in F |-> Smaller(grid[f], even[f] + share[f])]
    BY <1>2, <1>6 DEF CoverageBudget, SumFunction
  <2>2. \A f \in F : surplus * gap[f] \in Nat /\ share[f] \in Nat /\ room * share[f] <= surplus * gap[f]
    <3> SUFFICES ASSUME NEW f \in F
                 PROVE  surplus * gap[f] \in Nat /\ share[f] \in Nat /\ room * share[f] <= surplus * gap[f]
      OBVIOUS
    <3>1. PICK a \in Nat : a = surplus * gap[f]
      <4> HIDE DEF gap, surplus
      <4>1. surplus \in Nat /\ gap[f] \in Nat
        BY <1>1
      <4>2. surplus * gap[f] \in Nat
        BY <4>1
      <4> QED BY <4>2
    <3>2. room \in Nat \ {0}
      BY <1>1, <1>6
    <3>3. share[f] = a \div room
      BY <3>1
    <3> HIDE DEF share, gap, surplus, room
    <3> QED BY <3>1, <3>2, <3>3, Shares
  <2>3. \A f, g \in F : gap[f] <= gap[g] => share[f] <= share[g]
    <3> SUFFICES ASSUME NEW f \in F, NEW g \in F, gap[f] <= gap[g]
                 PROVE  share[f] <= share[g]
      OBVIOUS
    <3>1. /\ surplus \in Nat /\ gap[f] \in Nat /\ gap[g] \in Nat
          /\ room \in Nat \ {0}
      BY <1>1, <1>6
    <3>2. surplus * gap[f] \in Nat /\ surplus * gap[g] \in Nat /\ surplus * gap[f] <= surplus * gap[g]
      <4> HIDE DEF gap, surplus, room, share
      <4> QED BY <2>2, <3>1, ProductsGrow
    <3>3. (surplus * gap[f]) \div room <= (surplus * gap[g]) \div room
      <4> HIDE DEF gap, surplus, room, share
      <4> QED BY <3>1, <3>2, SharesGrow
    <3> QED BY <3>3
  <2>4. DOMAIN out = F /\ \A f \in F : out[f] = Smaller(grid[f], even[f] + share[f])
    BY <2>1
  <2>5. \A f \in F : /\ even[f] <= out[f] /\ out[f] <= grid[f]
                     /\ out[f] \in Int /\ out[f] <= even[f] + share[f]
                     /\ \A g \in F : grid[f] <= grid[g] => out[f] <= out[g]
    <3> HIDE DEF even, gap, out, share
    <3>1. \A f \in F : /\ even[f] <= out[f] /\ out[f] <= grid[f]
                       /\ out[f] \in Int /\ out[f] <= even[f] + share[f]
      BY <1>1, <2>2, <2>4 DEF Smaller
    <3>2. ASSUME NEW f \in F, NEW g \in F, grid[f] <= grid[g]
          PROVE  out[f] <= out[g]
      <4>1. gap[f] <= gap[g] /\ even[f] <= even[g]
        BY <1>1, <3>2
      <4>2. share[f] <= share[g]
        BY <4>1, <2>3
      <4> QED BY <1>1, <2>2, <2>4, <3>2, <4>1, <4>2 DEF Smaller
    <3> QED BY <3>1, <3>2
  <2>6. Summed(share, F)
    BY <2>2 DEF Summed
  <2>7. SumFunctionOnSet(share, F) <= surplus
    <3> DEFINE taken == [f \in F |-> room * share[f]]
    <3> DEFINE asked == [f \in F |-> surplus * gap[f]]
    <3>1. Summed(taken, F) /\ SumFunctionOnSet(taken, F) = room * SumFunctionOnSet(share, F)
      <4>1. \A f \in F : taken[f] = room * share[f]
        OBVIOUS
      <4>2. room \in Int
        BY <1>1
      <4> HIDE DEF taken, share, room
      <4> QED BY <2>6, <4>1, <4>2, SumTimes
    <3>2. Summed(asked, F) /\ SumFunctionOnSet(asked, F) = surplus * room
      <4>1. \A f \in F : asked[f] = surplus * gap[f]
        OBVIOUS
      <4>2. surplus \in Int
        BY <1>1
      <4> HIDE DEF asked, gap, surplus
      <4> QED BY <1>1, <4>1, <4>2, SumTimes
    <3>3. SumFunctionOnSet(taken, F) <= SumFunctionOnSet(asked, F)
      <4>1. \A f \in F : taken[f] <= asked[f]
        BY <2>2
      <4> HIDE DEF taken, asked
      <4> QED BY <3>1, <3>2, <4>1, SumMonotone
    <3>4. PICK t \in Int : t = SumFunctionOnSet(share, F)
      <4> HIDE DEF share
      <4> QED BY <2>6, SumStep
    <3>5. room * t <= surplus * room /\ room \in Nat /\ surplus \in Nat
      BY <1>1, <3>1, <3>2, <3>3, <3>4
    <3> HIDE DEF share, surplus, room
    <3>6. t <= surplus
      BY <3>5, <1>6
    <3> QED BY <3>4, <3>6
  <2>8. SumFunction(out) <= cap * Cardinality(F)
    <3> DEFINE raised == [f \in F |-> even[f] + share[f]]
    <3>1. Summed(raised, F) /\ SumFunctionOnSet(raised, F)
                                = SumFunctionOnSet(even, F) + SumFunctionOnSet(share, F)
      <4>1. \A f \in F : raised[f] = even[f] + share[f]
        OBVIOUS
      <4> HIDE DEF raised, even, share
      <4> QED BY <1>1, <2>6, <4>1, SumPlus
    <3>2. Summed(out, F)
      <4> HIDE DEF out
      <4> QED BY <2>5 DEF Summed
    <3>3. SumFunctionOnSet(out, F) <= SumFunctionOnSet(raised, F)
      <4>1. \A f \in F : out[f] <= raised[f]
        BY <2>5
      <4> HIDE DEF out, raised
      <4> QED BY <3>1, <3>2, <4>1, SumMonotone
    <3>4. SumFunction(out) = SumFunctionOnSet(out, F)
      BY <2>4 DEF SumFunction
    <3>5. SumFunctionOnSet(out, F) \in Int /\ SumFunctionOnSet(share, F) \in Int
      <4> HIDE DEF out, share
      <4> QED BY <3>2, <2>6, SumStep
    <3> HIDE DEF out, share, raised, even, surplus
    <3> QED BY <1>1, <1>3, <1>4, <2>7, <3>1, <3>3, <3>4, <3>5
  <2> QED BY <1>2, <2>5, <2>8 DEF BudgetKept
<1> QED BY <1>1, <1>5, <1>6

-----------------------------------------------------------------------------
(* The announced cost of a run, sweep by sweep.                            *)
Handed(F, frames, n) == {s \in (1 .. n) \X F \X (1 .. 3) : s[3] <= frames[s[2]]}
Fibre(F, frames, n, G) == {s \in Handed(F, frames, n) : s[2] \in G}

LEMMA SweepsOfFamily ==
  ASSUME NEW F, NEW frames \in [F -> 0 .. 3], NEW n \in Nat, NEW f \in F
  PROVE  /\ IsFiniteSet(Fibre(F, frames, n, {f}))
         /\ Cardinality(Fibre(F, frames, n, {f})) = n * frames[f]
<1> DEFINE k == frames[f]
<1> DEFINE pairs == (1 .. n) \X (1 .. k)
<1> DEFINE fibre == Fibre(F, frames, n, {f})
<1> DEFINE to == [p \in pairs |-> <<p[1], f, p[2]>>]
<1>1. k \in 0 .. 3
  OBVIOUS
<1>2. IsFiniteSet(1 .. n) /\ Cardinality(1 .. n) = n
  BY FS_Interval
<1>3. IsFiniteSet(1 .. k) /\ Cardinality(1 .. k) = k
  <2> HIDE DEF k
  <2>1. k \in Int /\ 1 \in Int
    BY <1>1
  <2>2. IsFiniteSet(1 .. k) /\ Cardinality(1 .. k) = IF 1 > k THEN 0 ELSE k - 1 + 1
    BY <2>1, FS_Interval
  <2> QED BY <1>1, <2>2
<1>4. IsFiniteSet(pairs) /\ Cardinality(pairs) = n * k
  <2> HIDE DEF k
  <2> QED BY <1>2, <1>3, FS_Product
<1>5. \A p \in pairs : to[p] \in fibre
  <2> SUFFICES ASSUME NEW p \in pairs PROVE <<p[1], f, p[2]>> \in fibre
    OBVIOUS
  <2>1. p[1] \in 1 .. n /\ p[2] \in 1 .. k /\ p[2] \in 1 .. 3
    BY <1>1
  <2> QED BY <2>1 DEF Fibre, Handed
<1>6. to \in Bijection(pairs, fibre)
  <2>1. to \in [pairs -> fibre]
    <3> HIDE DEF fibre, pairs
    <3> QED BY <1>5
  <2>2. \A p, q \in pairs : to[p] = to[q] => p = q
    OBVIOUS
  <2>3. \A s \in fibre : \E p \in pairs : to[p] = s
    <3> SUFFICES ASSUME NEW s \in fibre PROVE \E p \in pairs : to[p] = s
      OBVIOUS
    <3>1. s \in (1 .. n) \X F \X (1 .. 3) /\ s[3] <= frames[s[2]] /\ s[2] = f
      BY DEF Fibre, Handed
    <3>2. s = <<s[1], f, s[3]>> /\ s[1] \in 1 .. n /\ s[3] \in 1 .. k
      BY <1>1, <3>1
    <3>3. <<s[1], s[3]>> \in pairs
      BY <3>2
    <3>4. to[<<s[1], s[3]>>] = s
      BY <3>2, <3>3
    <3> QED BY <3>3, <3>4
  <2> HIDE DEF to, fibre, pairs
  <2> QED BY <2>1, <2>2, <2>3 DEF Bijection, Injection, Surjection, IsInjective
<1>7. IsFiniteSet(fibre) /\ Cardinality(fibre) = Cardinality(pairs)
  <2>1. ExistsBijection(pairs, fibre)
    BY <1>6 DEF ExistsBijection
  <2> HIDE DEF fibre, pairs
  <2> QED BY <1>4, <2>1, FS_Bijection
<1> QED BY <1>4, <1>7

\* What run_combo_budget announces is what the sweeps it hands out may spend,
\* for every set of families, every budget of the operator's own, every
\* number of timeframes and symbols.
THEOREM CostAnnounced ==
  ASSUME NEW F, IsFiniteSet(F), NEW alloc \in [F -> Nat], NEW frames \in [F -> 0 .. 3],
         NEW own, \A f \in DOMAIN own : own[f] \in Nat, NEW rounds \in Nat, NEW symbols \in Nat
  PROVE  RunComboBudget(own, alloc, frames, rounds, symbols)
             = Spent(own, alloc, frames, rounds, symbols)
<1> DEFINE each == [f \in F |-> SweepBudget(FamilyMaxCombos(own, f, alloc[f]), rounds)]
<1> DEFINE sweeps == Handed(F, frames, symbols)
<1> DEFINE fibre(G) == Fibre(F, frames, symbols, G)
<1> DEFINE told == [f \in F |-> symbols * frames[f] * each[f]]
<1> DEFINE spent == [s \in sweeps |-> each[s[2]]]
<1>1. \A f \in F : each[f] \in Nat
  <2> SUFFICES ASSUME NEW f \in F PROVE SweepBudget(FamilyMaxCombos(own, f, alloc[f]), rounds) \in Nat
    OBVIOUS
  <2>1. FamilyMaxCombos(own, f, alloc[f]) \in Nat
    BY DEF FamilyMaxCombos
  <2> QED BY <2>1 DEF SweepBudget
<1>2. RunComboBudget(own, alloc, frames, rounds, symbols) = SumFunctionOnSet(told, F)
  BY DEF RunComboBudget, SumFunction
<1>3. Spent(own, alloc, frames, rounds, symbols) = SumFunctionOnSet(spent, sweeps)
  <2>1. \A s \in sweeps : s[2] \in F
    BY DEF Handed
  <2>2. spent = [s \in sweeps |-> SweepBudget(FamilyMaxCombos(own, s[2], alloc[s[2]]), rounds)]
    BY <2>1
  <2>3. DOMAIN spent = sweeps /\ DOMAIN alloc = F
    OBVIOUS
  <2>4. Spent(own, alloc, frames, rounds, symbols) = SumFunction(spent)
    BY <2>2, <2>3 DEF Spent, Handed
  <2> QED BY <2>3, <2>4 DEF SumFunction
<1>4. IsFiniteSet(sweeps)
  <2>1. IsFiniteSet(1 .. symbols) /\ IsFiniteSet(1 .. 3)
    <3>1. symbols \in Int /\ 1 \in Int /\ 3 \in Int
      OBVIOUS
    <3> QED BY <3>1, FS_Interval
  <2>2. IsFiniteSet((1 .. symbols) \X F \X (1 .. 3))
    <3> DEFINE pairs == ((1 .. symbols) \X F) \X (1 .. 3)
    <3> DEFINE triples == (1 .. symbols) \X F \X (1 .. 3)
    <3> DEFINE flatten == [p \in pairs |-> <<p[1][1], p[1][2], p[2]>>]
    <3>1. IsFiniteSet((1 .. symbols) \X F)
      BY <2>1, FS_Product
    <3>2. IsFiniteSet(pairs)
      BY <2>1, <3>1, FS_Product
    <3>3. flatten \in [pairs -> triples]
      OBVIOUS
    <3>4. ASSUME NEW t \in triples PROVE \E p \in pairs : flatten[p] = t
      <4>1. <<<<t[1], t[2]>>, t[3]>> \in pairs
        OBVIOUS
      <4>2. flatten[<<<<t[1], t[2]>>, t[3]>>] = t
        BY <4>1
      <4> QED BY <4>1, <4>2
    <3>5. flatten \in Surjection(pairs, triples)
      <4> HIDE DEF flatten, pairs, triples
      <4> QED BY <3>3, <3>4 DEF Surjection
    <3> HIDE DEF flatten, pairs
    <3> QED BY <3>2, <3>5, FS_Surjection
  <2> QED BY <2>2, FS_Subset DEF Handed
<1>5. Summed(spent, sweeps) /\ \A s \in sweeps : spent[s] = each[s[2]]
  <2>1. \A s \in sweeps : s[2] \in F
    BY DEF Handed
  <2> HIDE DEF each, sweeps
  <2> QED BY <1>1, <1>4, <2>1 DEF Summed
<1>6. \A f \in F : told[f] \in Int /\ told[f] = each[f] * (symbols * frames[f])
  <2> SUFFICES ASSUME NEW f \in F
               PROVE  told[f] \in Int /\ told[f] = each[f] * (symbols * frames[f])
    OBVIOUS
  <2>1. PICK a \in Nat, b \in Nat : a = each[f] /\ b = symbols * frames[f]
    <3> HIDE DEF each
    <3>1. each[f] \in Nat /\ symbols * frames[f] \in Nat
      BY <1>1
    <3> QED BY <3>1
  <2>2. told[f] = b * a
    <3> HIDE DEF each
    <3> QED BY <2>1
  <2>3. b * a = a * b /\ b * a \in Int
    OBVIOUS
  <2> QED BY <2>1, <2>2, <2>3
<1>7. Summed(told, F)
  BY <1>6 DEF Summed
<1> DEFINE Good == {G \in SUBSET F : SumFunctionOnSet(spent, fibre(G)) = SumFunctionOnSet(told, G)}
<1>8. {} \in Good
  <2>1. fibre({}) = {}
    BY DEF Fibre
  <2> HIDE DEF fibre, spent, told
  <2> QED BY <2>1, SumEmpty
<1>9. ASSUME NEW G \in SUBSET F, G # {}, G \ {Some(G)} \in Good PROVE G \in Good
  <2>1. PICK f \in G : f = Some(G)
    BY <1>9 DEF Some
  <2>2. /\ fibre(G) = fibre(G \ {f}) \union fibre({f})
        /\ fibre(G \ {f}) \intersect fibre({f}) = {}
        /\ fibre(G) \in SUBSET sweeps /\ fibre({f}) \in SUBSET sweeps
        /\ fibre(G \ {f}) \in SUBSET sweeps
    BY DEF Fibre
  <2>3. /\ SumFunctionOnSet(spent, fibre(G))
              = SumFunctionOnSet(spent, fibre(G \ {f})) + SumFunctionOnSet(spent, fibre({f}))
    <3> HIDE DEF fibre, spent, sweeps
    <3>1. Summed(spent, fibre(G \ {f}) \union fibre({f}))
      <4>1. Summed(spent, fibre(G))
        BY <1>5, <2>2, SummedPart
      <4> QED BY <2>2, <4>1
    <3>2. SumFunctionOnSet(spent, fibre(G \ {f}) \union fibre({f}))
              = SumFunctionOnSet(spent, fibre(G \ {f})) + SumFunctionOnSet(spent, fibre({f}))
      BY <2>2, <3>1, SumUnion
    <3> QED BY <2>2, <3>2
  <2>4. SumFunctionOnSet(spent, fibre({f})) = told[f]
    <3>1. IsFiniteSet(fibre({f})) /\ Cardinality(fibre({f})) = symbols * frames[f]
      BY SweepsOfFamily
    <3>2. \A s \in fibre({f}) : spent[s] = each[f]
      BY <1>5 DEF Fibre
    <3>3. each[f] \in Int
      <4> HIDE DEF each
      <4> QED BY <1>1
    <3>4. SumFunctionOnSet(spent, fibre({f})) = each[f] * Cardinality(fibre({f}))
      <4> HIDE DEF fibre, spent, each
      <4> QED BY <3>1, <3>2, <3>3, SumConstant
    <3> HIDE DEF fibre, spent, each, told
    <3> QED BY <1>6, <3>1, <3>4
  <2>5. SumFunctionOnSet(told, G) = told[f] + SumFunctionOnSet(told, G \ {f})
    <3>1. Summed(told, G)
      <4> HIDE DEF told
      <4> QED BY <1>7, SummedPart
    <3> HIDE DEF told
    <3> QED BY <2>1, <3>1, SumStep
  <2>6. SumFunctionOnSet(spent, fibre(G \ {f})) = SumFunctionOnSet(told, G \ {f})
    BY <1>9, <2>1
  <2>7. told[f] \in Int /\ SumFunctionOnSet(told, G \ {f}) \in Int
    <3>1. G \ {f} \in SUBSET F
      OBVIOUS
    <3> HIDE DEF told
    <3>2. Summed(told, G \ {f})
      BY <1>7, <3>1, SummedPart
    <3> QED BY <1>6, <3>2, SumStep
  <2>8. SumFunctionOnSet(spent, fibre(G)) = SumFunctionOnSet(told, G)
    <3> HIDE DEF told, spent, fibre
    <3> QED BY <2>3, <2>4, <2>5, <2>6, <2>7
  <2> QED BY <2>8
<1> HIDE DEF Good
<1>10. F \in Good
  BY <1>8, <1>9, BySome
<1>11. fibre(F) = sweeps
  BY DEF Fibre, Handed
<1> QED BY <1>2, <1>3, <1>10, <1>11 DEF Good

-----------------------------------------------------------------------------
(* The candidate a search puts forward.                                    *)
Attempts == [family : Nat, frame : Nat, window : Windows, scalp : BOOLEAN, score : Int,
             trades : Nat, validated : BOOLEAN]

\* Above is a relation between entries, as a set of pairs.
Ranks(R, I) == /\ \A i, j \in I : <<i, j>> \in R \/ <<j, i>> \in R
               /\ \A i, j, k \in I : <<i, j>> \in R /\ <<j, k>> \in R => <<i, k>> \in R

\* A finite set that is ranked has an entry that none is above.
LEMMA BestOfFinite ==
  ASSUME NEW I, IsFiniteSet(I), I # {}, NEW R, Ranks(R, I)
  PROVE  \E i \in I : \A j \in I : <<i, j>> \in R
<1> DEFINE Good == {s \in SUBSET I : s # {} => \E i \in s : \A j \in s : <<i, j>> \in R}
<1>1. {} \in Good
  OBVIOUS
<1>2. ASSUME NEW s \in SUBSET I, s # {}, s \ {Some(s)} \in Good PROVE s \in Good
  <2>1. PICK c \in s : c = Some(s)
    BY <1>2 DEF Some
  <2>2. <<c, c>> \in R
    BY DEF Ranks
  <2>3. CASE s \ {c} = {}
    BY <2>2, <2>3
  <2>4. CASE s \ {c} # {}
    <3>1. PICK i \in s \ {c} : \A j \in s \ {c} : <<i, j>> \in R
      BY <1>2, <2>1, <2>4
    <3>2. CASE <<i, c>> \in R
      BY <3>1, <3>2
    <3>3. CASE <<c, i>> \in R
      <4>1. \A j \in s : <<c, j>> \in R
        BY <2>2, <3>1, <3>3 DEF Ranks
      <4> QED BY <4>1
    <3> QED BY <3>1, <3>2, <3>3 DEF Ranks
  <2> QED BY <2>3, <2>4
<1> HIDE DEF Good
<1>3. I \in Good
  BY <1>1, <1>2, BySome
<1> QED BY <1>3 DEF Good

\* And a first one.
LEMMA FirstOfFinite ==
  ASSUME NEW I \in SUBSET Nat, IsFiniteSet(I), I # {}, NEW R, Ranks(R, I)
  PROVE  \E i \in I : \A j \in I : <<i, j>> \in R /\ (j < i => <<j, i>> \notin R)
<1> DEFINE Highest == {i \in I : \A j \in I : <<i, j>> \in R}
<1>1. Highest # {} /\ Highest \in SUBSET Nat
  BY BestOfFinite
<1>2. PICK i \in Highest : \A j \in Highest : i <= j
  <2> HIDE DEF Highest
  <2> QED BY <1>1, LeastNatural
<1>3. ASSUME NEW j \in I, j < i, <<j, i>> \in R PROVE FALSE
  <2>1. j \in Highest
    BY <1>2, <1>3 DEF Ranks
  <2> HIDE DEF Highest
  <2> QED BY <1>1, <1>2, <1>3, <2>1
<1> QED BY <1>2, <1>3

\* The order of the keys: lexicographic, so total and transitive, and equal
\* keys are of one family and timeframe.
Lex(a, b) ==
    LET k == PickKey(a)  l == PickKey(b)
    IN  \/ k[1] > l[1]
        \/ /\ k[1] = l[1]
           /\ \/ k[2] > l[2]
              \/ /\ k[2] = l[2]
                 /\ \/ k[3] > l[3]
                    \/ /\ k[3] = l[3]
                       /\ \/ k[4] > l[4]
                          \/ k[4] = l[4] /\ k[5] >= l[5]

Keys == Int \X Int \X Int \X Int \X Int

LEMMA KeyParts ==
  ASSUME NEW a \in Attempts
  PROVE  /\ PickKey(a) \in Keys
         /\ PickKey(a)[1] = (IF a.scalp THEN 1 ELSE 0) /\ PickKey(a)[2] = a.trades
         /\ PickKey(a)[3] = a.score /\ PickKey(a)[4] = a.family /\ PickKey(a)[5] = a.frame
  BY DEF PickKey, Keys, Attempts

LEMMA KeysEqual ==
  ASSUME NEW k \in Keys, NEW l \in Keys,
         k[1] = l[1], k[2] = l[2], k[3] = l[3], k[4] = l[4], k[5] = l[5]
  PROVE  k = l
  BY DEF Keys

LEMMA ByKeyIsLex ==
  ASSUME NEW a \in Attempts, NEW b \in Attempts
  PROVE  ByKey(a, b) <=> Lex(a, b)
<1> DEFINE k == PickKey(a)
<1> DEFINE l == PickKey(b)
<1>1. k \in Keys /\ l \in Keys
  BY KeyParts
<1>2. /\ k[1] \in Int /\ k[2] \in Int /\ k[3] \in Int /\ k[4] \in Int /\ k[5] \in Int
      /\ l[1] \in Int /\ l[2] \in Int /\ l[3] \in Int /\ l[4] \in Int /\ l[5] \in Int
  <2> HIDE DEF k, l
  <2> QED BY <1>1 DEF Keys
<1>3. ByKey(a, b) <=> \/ k = l
                      \/ \E i \in 1 .. 5 : k[i] > l[i] /\ \A j \in 1 .. (i - 1) : k[j] = l[j]
  BY DEF ByKey
<1>4. Lex(a, b) <=> \/ k[1] > l[1]
                    \/ /\ k[1] = l[1]
                       /\ \/ k[2] > l[2]
                          \/ /\ k[2] = l[2]
                             /\ \/ k[3] > l[3]
                                \/ /\ k[3] = l[3]
                                   /\ \/ k[4] > l[4]
                                      \/ k[4] = l[4] /\ k[5] >= l[5]
  BY DEF Lex
<1> HIDE DEF k, l
<1>5. ASSUME ByKey(a, b) PROVE Lex(a, b)
  <2>1. CASE k = l
    BY <1>2, <1>4, <2>1
  <2>2. CASE \E i \in 1 .. 5 : k[i] > l[i] /\ \A j \in 1 .. (i - 1) : k[j] = l[j]
    <3>1. PICK i \in 1 .. 5 : k[i] > l[i] /\ \A j \in 1 .. (i - 1) : k[j] = l[j]
      BY <2>2
    <3>2. CASE i = 1
      BY <1>4, <3>1, <3>2
    <3>3. CASE i = 2
      BY <1>4, <3>1, <3>3
    <3>4. CASE i = 3
      <4>1. k[1] = l[1] /\ k[2] = l[2]
        BY <3>1, <3>4
      <4> QED BY <1>4, <3>1, <3>4, <4>1
    <3>5. CASE i = 4
      <4>1. k[1] = l[1] /\ k[2] = l[2] /\ k[3] = l[3]
        BY <3>1, <3>5
      <4> QED BY <1>4, <3>1, <3>5, <4>1
    <3>6. CASE i = 5
      <4>1. k[1] = l[1] /\ k[2] = l[2] /\ k[3] = l[3] /\ k[4] = l[4]
        BY <3>1, <3>6
      <4> QED BY <1>2, <1>4, <3>1, <3>6, <4>1
    <3> QED BY <3>2, <3>3, <3>4, <3>5, <3>6
  <2> QED BY <1>3, <1>5, <2>1, <2>2
<1>6. ASSUME Lex(a, b) PROVE ByKey(a, b)
  <2> DEFINE At(i) == k[i] > l[i] /\ \A j \in 1 .. (i - 1) : k[j] = l[j]
  <2>1. (k[1] > l[1]) => At(1)
    OBVIOUS
  <2>2. (k[1] = l[1] /\ k[2] > l[2]) => At(2)
    OBVIOUS
  <2>3. (k[1] = l[1] /\ k[2] = l[2] /\ k[3] > l[3]) => At(3)
    OBVIOUS
  <2>4. (k[1] = l[1] /\ k[2] = l[2] /\ k[3] = l[3] /\ k[4] > l[4]) => At(4)
    OBVIOUS
  <2>5. (k[1] = l[1] /\ k[2] = l[2] /\ k[3] = l[3] /\ k[4] = l[4] /\ k[5] > l[5]) => At(5)
    OBVIOUS
  <2>6. (k[1] = l[1] /\ k[2] = l[2] /\ k[3] = l[3] /\ k[4] = l[4] /\ k[5] = l[5]) => k = l
    BY <1>1, KeysEqual
  <2>7. k[5] >= l[5] => k[5] > l[5] \/ k[5] = l[5]
    BY <1>2
  <2>8. k = l \/ At(1) \/ At(2) \/ At(3) \/ At(4) \/ At(5)
    <3> HIDE DEF At
    <3> QED BY <1>4, <1>6, <2>1, <2>2, <2>3, <2>4, <2>5, <2>6, <2>7
  <2>9. k = l \/ \E i \in 1 .. 5 : At(i)
    <3> HIDE DEF At
    <3> QED BY <2>8
  <2> QED BY <1>3, <2>9
<1> QED BY <1>5, <1>6

LEMMA LexRanks ==
  /\ \A a, b \in Attempts : Lex(a, b) \/ Lex(b, a)
  /\ \A a, b, c \in Attempts : Lex(a, b) /\ Lex(b, c) => Lex(a, c)
  /\ \A a, b \in Attempts : Lex(a, b) /\ Lex(b, a) =>
          PickKey(a) = PickKey(b) /\ a.family = b.family /\ a.frame = b.frame
  /\ \A a, b \in Attempts : Lex(a, b) /\ b.scalp => a.scalp
<1>1. \A a \in Attempts : /\ PickKey(a)[1] \in Int /\ PickKey(a)[2] \in Int /\ PickKey(a)[3] \in Int
                          /\ PickKey(a)[4] \in Int /\ PickKey(a)[5] \in Int
                          /\ PickKey(a)[4] = a.family /\ PickKey(a)[5] = a.frame
                          /\ PickKey(a)[1] = (IF a.scalp THEN 1 ELSE 0)
  BY KeyParts DEF Attempts
<1>2. \A a \in Attempts : a.scalp \in BOOLEAN
  BY DEF Attempts
<1>3. \A a, b \in Attempts : Lex(a, b) \/ Lex(b, a)
  BY <1>1 DEF Lex
<1>4. \A a, b, c \in Attempts : Lex(a, b) /\ Lex(b, c) => Lex(a, c)
  BY <1>1 DEF Lex
<1>5. ASSUME NEW a \in Attempts, NEW b \in Attempts, Lex(a, b), Lex(b, a)
      PROVE  PickKey(a) = PickKey(b) /\ a.family = b.family /\ a.frame = b.frame
  <2>1. /\ PickKey(a)[1] = PickKey(b)[1] /\ PickKey(a)[2] = PickKey(b)[2]
        /\ PickKey(a)[3] = PickKey(b)[3] /\ PickKey(a)[4] = PickKey(b)[4]
        /\ PickKey(a)[5] = PickKey(b)[5]
    BY <1>1, <1>5 DEF Lex
  <2>2. PickKey(a) = PickKey(b)
    BY <2>1, KeyParts, KeysEqual
  <2> QED BY <1>1, <2>1, <2>2
<1>6. \A a, b \in Attempts : Lex(a, b) /\ b.scalp => a.scalp
  BY <1>1, <1>2 DEF Lex
<1> QED BY <1>3, <1>4, <1>5, <1>6

Lists == Seq(Attempts)

Usable(found) == {found[i] : i \in Validated(found)}
PeerGroup(found) == {found[i] : i \in Peers(found)}

LEMMA ListParts ==
  ASSUME NEW found \in Lists
  PROVE  /\ DOMAIN found = 1 .. Len(found) /\ Len(found) \in Nat
         /\ \A i \in DOMAIN found : found[i] \in Attempts /\ found[i].score \in Int
         /\ DOMAIN found \in SUBSET Nat /\ IsFiniteSet(DOMAIN found)
         /\ \A I \in SUBSET DOMAIN found : IsFiniteSet(I)
<1>1. found \in Seq(Attempts)
  BY DEF Lists
<1>2. DOMAIN found = 1 .. Len(found) /\ Len(found) \in Nat
  BY <1>1
<1>3. \A i \in DOMAIN found : found[i] \in Attempts
  BY <1>1
<1>4. \A a \in Attempts : a.score \in Int
  BY DEF Attempts
<1>5. IsFiniteSet(1 .. Len(found))
  <2>1. 1 \in Int /\ Len(found) \in Int
    BY <1>2
  <2> QED BY <2>1, FS_Interval
<1>6. \A I \in SUBSET DOMAIN found : IsFiniteSet(I)
  BY <1>2, <1>5, FS_Subset
<1> QED BY <1>2, <1>3, <1>4, <1>5, <1>6

\* max by the validation score.
LEMMA TopOf ==
  ASSUME NEW found \in Lists, Validated(found) # {}
  PROVE  \E t \in Validated(found) :
            /\ FirstBest(found, Validated(found), ByScore) = found[t]
            /\ \A j \in Validated(found) : found[t].score >= found[j].score
<1> DEFINE I == Validated(found)
<1> DEFINE R == {p \in I \X I : found[p[1]].score >= found[p[2]].score}
<1>1. I \in SUBSET DOMAIN found /\ I \in SUBSET Nat /\ IsFiniteSet(I)
      /\ \A i \in I : found[i].score \in Int
  <2>1. I \in SUBSET DOMAIN found
    BY DEF Validated
  <2> HIDE DEF I
  <2> QED BY <2>1, ListParts
<1>2. \A i, j \in I : <<i, j>> \in R <=> found[i].score >= found[j].score
  OBVIOUS
<1>3. Ranks(R, I)
  <2> HIDE DEF R, I
  <2> QED BY <1>1, <1>2 DEF Ranks
<1>4. \E i \in I : \A j \in I : <<i, j>> \in R /\ (j < i => <<j, i>> \notin R)
  <2> HIDE DEF R
  <2> QED BY <1>1, <1>3, FirstOfFinite
<1> DEFINE Heads(i) == \A j \in I : /\ ByScore(found[i], found[j])
                                    /\ j < i => ~ByScore(found[j], found[i])
<1>5. \E i \in I : Heads(i)
  <2> HIDE DEF R, I
  <2> QED BY <1>2, <1>4 DEF ByScore
<1>6. PICK t : t = CHOOSE i \in I : Heads(i)
  OBVIOUS
<1>7. t \in I /\ Heads(t)
  <2> HIDE DEF Heads, I
  <2> QED BY <1>5, <1>6
<1>8. FirstBest(found, I, ByScore) = found[t]
  BY <1>6 DEF FirstBest
<1> QED BY <1>7, <1>8 DEF ByScore

\* max by the key, over the peers.
LEMMA KeyOf ==
  ASSUME NEW found \in Lists, Peers(found) # {}
  PROVE  \E t \in Peers(found) :
            /\ FirstBest(found, Peers(found), ByKey) = found[t]
            /\ \A j \in Peers(found) : Lex(found[t], found[j])
<1> DEFINE I == Peers(found)
<1> DEFINE R == {p \in I \X I : Lex(found[p[1]], found[p[2]])}
<1>1. I \in SUBSET DOMAIN found /\ I \in SUBSET Nat /\ IsFiniteSet(I)
      /\ \A i \in I : found[i] \in Attempts
  <2>1. I \in SUBSET DOMAIN found
    BY DEF Peers, Validated
  <2> HIDE DEF I
  <2> QED BY <2>1, ListParts
<1>2. \A i, j \in I : <<i, j>> \in R <=> Lex(found[i], found[j])
  OBVIOUS
<1>3. Ranks(R, I)
  <2> HIDE DEF R, I
  <2> QED BY <1>1, <1>2, LexRanks DEF Ranks
<1>4. \E i \in I : \A j \in I : <<i, j>> \in R /\ (j < i => <<j, i>> \notin R)
  <2> HIDE DEF R
  <2> QED BY <1>1, <1>3, FirstOfFinite
<1> DEFINE Heads(i) == \A j \in I : /\ ByKey(found[i], found[j])
                                    /\ j < i => ~ByKey(found[j], found[i])
<1>5. \E i \in I : Heads(i)
  <2> HIDE DEF R, I
  <2> QED BY <1>1, <1>2, <1>4, ByKeyIsLex
<1>6. PICK t : t = CHOOSE i \in I : Heads(i)
  OBVIOUS
<1>7. t \in I /\ Heads(t)
  <2> HIDE DEF Heads, I
  <2> QED BY <1>5, <1>6
<1>8. FirstBest(found, I, ByKey) = found[t]
  BY <1>6 DEF FirstBest
<1>9. \A j \in I : ByKey(found[t], found[j])
  BY <1>7
<1>10. \A j \in I : Lex(found[t], found[j])
  <2> HIDE DEF I, Heads
  <2> QED BY <1>1, <1>7, <1>9, ByKeyIsLex
<1> QED BY <1>7, <1>8, <1>10

\* The band of the best: the same whatever the order of the list.
TieGroup(U) == {a \in U : \A b \in U : 100 * a.score >= b.score * 95}

\* What is put forward is in the band, and no other of the band is above it.
LEMMA PickIs ==
  ASSUME NEW found \in Lists, \E a \in Usable(found) : a.score > 0
  PROVE  /\ PeerGroup(found) = TieGroup(Usable(found))
         /\ PickByValidation(found) \in TieGroup(Usable(found))
         /\ \A a \in TieGroup(Usable(found)) : Lex(PickByValidation(found), a)
<1>1. Validated(found) # {}
  BY DEF Usable
<1>2. PICK t \in Validated(found) :
            /\ FirstBest(found, Validated(found), ByScore) = found[t]
            /\ \A j \in Validated(found) : found[t].score >= found[j].score
  BY <1>1, TopOf
<1>3. /\ \A i \in Validated(found) : found[i] \in Attempts /\ found[i].score \in Int
      /\ Validated(found) \in SUBSET DOMAIN found
  BY ListParts DEF Validated
<1>4. found[t].score > 0
  BY <1>2, <1>3 DEF Usable
<1>5. Peers(found) = {i \in Validated(found) : found[i].score * 100 >= found[t].score * 95}
  BY <1>2 DEF Peers, TieBand
<1>6. t \in Peers(found)
  BY <1>3, <1>4, <1>5
<1>7. \A i \in Validated(found) : i \in Peers(found) <=>
          \A j \in Validated(found) : 100 * found[i].score >= found[j].score * 95
  <2> SUFFICES ASSUME NEW i \in Validated(found)
               PROVE  i \in Peers(found) <=>
                          \A j \in Validated(found) : 100 * found[i].score >= found[j].score * 95
    OBVIOUS
  <2>1. \A j \in Validated(found) : found[j].score * 95 <= found[t].score * 95
    BY <1>2, <1>3
  <2> QED BY <1>3, <1>5, <2>1
<1>8. PeerGroup(found) = TieGroup(Usable(found))
  BY <1>5, <1>7 DEF PeerGroup, TieGroup, Usable
<1>9. PickByValidation(found) \in PeerGroup(found)
      /\ \A a \in PeerGroup(found) : Lex(PickByValidation(found), a)
  <2>1. CASE Cardinality(Peers(found)) < 2
    <3>1. PickByValidation(found) = found[t]
      BY <1>2, <2>1 DEF PickByValidation
    <3>2. IsFiniteSet(Peers(found))
      BY <1>3, <1>5, ListParts
    <3>3. Peers(found) = {t}
      <4>1. Cardinality(Peers(found)) # 0 /\ Cardinality(Peers(found)) \in Nat
        BY <1>6, <3>2, FS_EmptySet, FS_CardinalityType
      <4>2. Cardinality(Peers(found)) = 1
        BY <2>1, <4>1
      <4>3. \E x : Peers(found) = {x}
        BY <3>2, <4>2, FS_Singleton
      <4> QED BY <1>6, <4>3
    <3>4. Lex(found[t], found[t])
      BY <1>3, LexRanks
    <3> QED BY <3>1, <3>3, <3>4 DEF PeerGroup
  <2>2. CASE ~(Cardinality(Peers(found)) < 2)
    <3>1. PickByValidation(found) = FirstBest(found, Peers(found), ByKey)
      BY <1>2, <1>3, <1>4, <2>2 DEF PickByValidation
    <3>2. PICK k \in Peers(found) :
            /\ FirstBest(found, Peers(found), ByKey) = found[k]
            /\ \A j \in Peers(found) : Lex(found[k], found[j])
      BY <1>6, KeyOf
    <3> QED BY <3>1, <3>2 DEF PeerGroup
  <2> QED BY <2>1, <2>2
<1> QED BY <1>8, <1>9

\* A list read backwards has the same candidates.
LEMMA Backwards ==
  ASSUME NEW found \in Lists
  PROVE  Reverse(found) \in Lists /\ Usable(Reverse(found)) = Usable(found)
<1> DEFINE n == Len(found)
<1> DEFINE back == Reverse(found)
<1>1. /\ DOMAIN found = 1 .. n /\ n \in Nat
      /\ \A i \in DOMAIN found : found[i] \in Attempts
  BY ListParts
<1>2. back = [i \in 1 .. n |-> found[(n - i) + 1]]
  BY DEF Reverse
<1>3. \A i \in 1 .. n : (n - i) + 1 \in 1 .. n /\ back[i] = found[(n - i) + 1]
  <2> HIDE DEF n
  <2>1. \A i \in 1 .. n : (n - i) + 1 \in 1 .. n
    BY <1>1
  <2> HIDE DEF back
  <2> QED BY <1>2, <2>1
<1>4. back \in Seq(Attempts) /\ DOMAIN back = 1 .. n
  <2> HIDE DEF n
  <2>1. \A i \in 1 .. n : found[(n - i) + 1] \in Attempts
    BY <1>1, <1>3
  <2>2. back \in [1 .. n -> Attempts]
    <3> HIDE DEF back
    <3> QED BY <1>2, <2>1
  <2> HIDE DEF back
  <2> QED BY <1>1, <2>2
<1> HIDE DEF back, n
<1>6. back \in Lists
  BY <1>4 DEF Lists
<1>7. \A i \in Validated(back) : (n - i) + 1 \in Validated(found) /\ found[(n - i) + 1] = back[i]
  BY <1>1, <1>3, <1>4 DEF Validated
<1>8. ASSUME NEW i \in Validated(found)
      PROVE  (n - i) + 1 \in Validated(back) /\ back[(n - i) + 1] = found[i]
  <2>1. i \in 1 .. n /\ (n - i) + 1 \in 1 .. n /\ (n - ((n - i) + 1)) + 1 = i /\ found[i].validated
    BY <1>1 DEF Validated
  <2>2. back[(n - i) + 1] = found[i]
    BY <1>3, <2>1
  <2> QED BY <1>4, <2>1, <2>2 DEF Validated
<1>9. Usable(back) = Usable(found)
  BY <1>7, <1>8 DEF Usable
<1> QED BY <1>6, <1>9 DEF back

\* What _pick_by_validation promises, for every list of candidates: the
\* winner passed every gate and is within the band of the best, a scalp in the
\* band wins, and the order in which the sweeps came back decides at most
\* between two windows of one family and timeframe.
THEOREM PickSafe == \A found \in Lists : PickKept(found)
<1> SUFFICES ASSUME NEW found \in Lists, \E a \in Usable(found) : a.score > 0
             PROVE  /\ PickByValidation(found) \in Usable(found)
                    /\ \A a \in Usable(found) :
                          PickByValidation(found).score * 100 >= a.score * (100 - TieBand)
                    /\ (\E i \in Peers(found) : found[i].scalp)
                            => PickByValidation(found).scalp
                    /\ PickKey(PickByValidation(Reverse(found)))
                            = PickKey(PickByValidation(found))
                    /\ PickByValidation(Reverse(found)) # PickByValidation(found) =>
                          \E a, b \in Usable(found) : /\ a # b /\ a.family = b.family
                                                      /\ a.frame = b.frame
  BY DEF PickKept, Usable
<1> DEFINE best == PickByValidation(found)
<1> DEFINE turned == PickByValidation(Reverse(found))
<1>1. /\ PeerGroup(found) = TieGroup(Usable(found))
      /\ best \in TieGroup(Usable(found))
      /\ \A a \in TieGroup(Usable(found)) : Lex(best, a)
  BY PickIs
<1>2. /\ turned \in TieGroup(Usable(found))
      /\ \A a \in TieGroup(Usable(found)) : Lex(turned, a)
  <2>1. Reverse(found) \in Lists /\ Usable(Reverse(found)) = Usable(found)
    BY Backwards
  <2>2. \E a \in Usable(Reverse(found)) : a.score > 0
    BY <2>1
  <2> QED BY <2>1, <2>2, PickIs
<1>3. \A a \in Usable(found) : a \in Attempts /\ a.score \in Int /\ a.scalp \in BOOLEAN
  BY ListParts DEF Usable, Validated, Attempts
<1> HIDE DEF best, turned
<1>4. best \in Usable(found) /\ \A a \in Usable(found) : best.score * 100 >= a.score * (100 - TieBand)
  BY <1>1, <1>3 DEF TieGroup, TieBand
<1>5. ASSUME NEW i \in Peers(found), found[i].scalp PROVE best.scalp
  <2>1. found[i] \in TieGroup(Usable(found))
    BY <1>1 DEF PeerGroup
  <2>2. found[i] \in Attempts /\ best \in Attempts
    BY <1>3, <1>4, <2>1 DEF TieGroup
  <2> QED BY <1>1, <1>5, <2>1, <2>2, LexRanks
<1>6. /\ turned \in Usable(found) /\ best \in Usable(found)
      /\ Lex(best, turned) /\ Lex(turned, best)
      /\ turned \in Attempts /\ best \in Attempts
  BY <1>1, <1>2, <1>3 DEF TieGroup
<1>7. PickKey(turned) = PickKey(best) /\ turned.family = best.family /\ turned.frame = best.frame
  BY <1>6, LexRanks
<1> QED BY <1>4, <1>5, <1>6, <1>7 DEF best, turned
=============================================================================
