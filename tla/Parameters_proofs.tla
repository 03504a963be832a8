--------------------------- MODULE Parameters_proofs ---------------------------
(***************************************************************************)
(* What a symbol is offered, and what it is given.                         *)
(*                                                                         *)
(* ParameterPatches: the queues of a symbol's parameters implement         *)
(* AcceptedParameters, for every set of writers, offers, families and      *)
(* values, and every number of calls, edits, orders and positions.         *)
(*                                                                         *)
(* SearchVerdict: searches do not churn, a losing configuration is not     *)
(* defended by its stamp and a session window that earns is left for a     *)
(* better one only, for every set of configurations, markets, ages and     *)
(* settings.                                                               *)
(***************************************************************************)
EXTENDS ParameterPatches, SearchVerdict, WellFoundedInduction, TLAPS

(* A candidate of another family names every field.                        *)
Named(c) == c.family # Keep => Keep \notin {c.exit, c.gate}

(* The calls in flight, each with the row it was made for.                 *)
CallsShape ==
    /\ force \in BOOLEAN
    /\ call \in [Appliers -> Call \cup {None}]
    /\ \A a \in Appliers : call[a] # None => Named(call[a].cand)

RowsShape ==
    /\ row \in Params /\ told \in Params
    /\ queued \in Params \cup {None} /\ held \in Values \cup {None}
    /\ queued = None \/ held = None

EditShape ==
    edit # None => /\ edit.cfg \in Params /\ edit.field \in {"exit", "gate"}
                   /\ edit.value \in Values

(* A cycle that read a flat magic lands on one: what might still surface   *)
(* is scanned for, and only the cycle itself sends.                        *)
FlatInv ==
    /\ shown \in Nat
    /\ sent => scan
    /\ poll = "read" /\ seen = "flat" => shown = 0 /\ ~scan

PatchInv ==
    /\ RowsShape /\ CallsShape /\ EditShape /\ FlatInv
    /\ told = Owed

-----------------------------------------------------------------------------
LEMMA Nulls ==
  /\ First \in Params /\ None \notin Params /\ None \notin Values
  /\ Keep \notin Families /\ Keep \notin Values
  BY FirstAssumption, NullAssumption

(* What a call comes to is a row of its own: no field is left unnamed.     *)
LEMMA OverIsRow ==
  ASSUME NEW c \in Candidates, Named(c), NEW cfg \in Params, NEW p \in Params
  PROVE  /\ Over(Filled(c, cfg), p) \in Params
         /\ ~Flips(c, cfg) /\ p = cfg => Over(Filled(c, cfg), p).family = p.family
<1> DEFINE f == Filled(c, cfg)
<1>1. CASE Flips(c, cfg)
  <2>1. f = c /\ c.family # Keep /\ c.exit # Keep /\ c.gate # Keep
    BY <1>1 DEF Flips, Named, Filled
  <2>2. c.family \in Families /\ c.exit \in Values /\ c.gate \in Values
    BY <2>1 DEF Candidates
  <2>3. Over(f, p) = [p EXCEPT !.family = c.family, !.exit = c.exit, !.gate = c.gate]
    BY <2>1 DEF Over
  <2> QED
    BY <1>1, <2>2, <2>3 DEF Params
<1>2. CASE ~Flips(c, cfg)
  <2>1. /\ c.family \in Families \cup {Keep} /\ c.exit \in Values \cup {Keep}
        /\ c.gate \in Values \cup {Keep}
    BY DEF Candidates
  <2>2. cfg.exit \in Values /\ cfg.gate \in Values /\ cfg.family \in Families
    BY DEF Params
  <2>3. f = [c EXCEPT !.exit = IF c.exit = Keep THEN cfg.exit ELSE c.exit,
                      !.gate = IF c.gate = Keep THEN cfg.gate ELSE c.gate]
    BY <1>2 DEF Filled
  <2>4. f.exit \in Values /\ f.gate \in Values /\ f.family = c.family
    BY <2>1, <2>2, <2>3 DEF Candidates
  <2>5. Over(f, p) = [p EXCEPT !.family = IF f.family = Keep THEN p.family ELSE f.family,
                               !.exit = f.exit, !.gate = f.gate]
    BY DEF Over
  <2>6. Over(f, p) \in Params
    BY <2>1, <2>4, <2>5 DEF Params
  <2>7. Over(f, p).family = IF c.family = Keep THEN p.family ELSE c.family
    BY <2>4, <2>5 DEF Params
  <2>8. c.family # Keep => c.family = cfg.family
    BY <1>2 DEF Flips
  <2> QED
    BY <2>6, <2>7, <2>8
<1> QED
  BY <1>1, <1>2

LEMMA PatchInit == Init => PatchInv /\ Accepted!Init
<1> SUFFICES ASSUME Init
             PROVE  PatchInv /\ Accepted!Init
  OBVIOUS
<1>1. RowsShape
  BY Nulls DEF Init, RowsShape
<1>2. CallsShape /\ EditShape
  BY DEF Init, CallsShape, EditShape
<1>3. FlatInv
  BY DEF Init, FlatInv
<1>4. told = Owed
  BY DEF Init, Owed
<1>5. ~Occupied
  BY DEF Init, Occupied
<1>6. Accepted!Init
  BY <1>4, <1>5 DEF Init, Accepted!Init
<1> QED
  BY <1>1, <1>2, <1>3, <1>4, <1>6 DEF PatchInv

-----------------------------------------------------------------------------
(* A step that leaves the rows alone opens or closes positions at most.    *)
LEMMA RowsStay ==
  ASSUME RowsShape, told = Owed, UNCHANGED patches
  PROVE  RowsShape' /\ (told = Owed)' /\ [Accepted!Next]_(Accepted!vars)
<1>1. UNCHANGED <<row, queued, held, told, Owed>>
  BY DEF patches, Owed
<1>2. Accepted!OpenOrClose
  BY <1>1 DEF Accepted!OpenOrClose
<1> QED
  BY <1>1, <1>2 DEF RowsShape, Accepted!Next

(* A call that moves on keeps its row and its candidate.                   *)
LEMMA CallMoves ==
  ASSUME CallsShape, NEW a \in Appliers, call[a] # None,
         NEW at \in {"measuring", "passed", "returning"},
         call' = [call EXCEPT ![a].at = at], force' = force
  PROVE  CallsShape'
<1>1. call[a] \in Call /\ Named(call[a].cand)
  BY DEF CallsShape
<1> DEFINE moved == [call[a] EXCEPT !.at = at]
<1>2. moved \in Call /\ moved.cand = call[a].cand
  BY <1>1 DEF Call
<1>3. call' = [call EXCEPT ![a] = moved]
  OBVIOUS
<1> HIDE DEF moved
<1>4. call' \in [Appliers -> Call \cup {None}]
  BY <1>2, <1>3 DEF CallsShape
<1>5. \A b \in Appliers : call'[b] = IF b = a THEN moved ELSE call[b]
  BY <1>3 DEF CallsShape
<1>6. \A b \in Appliers : call'[b] # None => Named(call'[b].cand)
  BY <1>1, <1>2, <1>5 DEF CallsShape
<1> QED
  BY <1>4, <1>6 DEF CallsShape

(* A call that begins, and one that ends.                                  *)
LEMMA CallBegins ==
  ASSUME CallsShape, row \in Params, NEW a \in Appliers, NEW o \in Offers[a], Begin(a, o)
  PROVE  CallsShape'
<1>1. o \in Offer /\ Named(o.cand)
  BY OfferAssumption DEF Named
<1>2. /\ o.cand \in Candidates /\ o.good \in BOOLEAN /\ o.forced \in BOOLEAN
      /\ force \in BOOLEAN /\ row \in Params
  BY <1>1 DEF Offer, CallsShape
<1> DEFINE forced == IF a = Search THEN force ELSE o.forced
           begun == [cfg |-> row, cand |-> o.cand, good |-> o.good, forced |-> forced,
                     before |-> force, at |-> "measuring"]
<1>3. force' = (force \/ forced) /\ call' = [call EXCEPT ![a] = begun]
  BY DEF Begin
<1>4. forced \in BOOLEAN
  BY <1>2, Zenon
<1> HIDE DEF forced
<1>5. begun \in Call /\ begun.cand = o.cand
  BY <1>2, <1>4 DEF Call
<1>6. force' \in BOOLEAN
  BY <1>3, Zenon
<1> HIDE DEF begun
<1>7. call' \in [Appliers -> Call \cup {None}]
  BY <1>3, <1>5 DEF CallsShape
<1>8. \A b \in Appliers : call'[b] = IF b = a THEN begun ELSE call[b]
  BY <1>3 DEF CallsShape
<1>9. \A b \in Appliers : call'[b] # None => Named(call'[b].cand)
  BY <1>1, <1>5, <1>8 DEF CallsShape
<1> QED
  BY <1>6, <1>7, <1>9 DEF CallsShape

LEMMA CallReturns ==
  ASSUME CallsShape, NEW a \in Appliers, Return(a)
  PROVE  CallsShape'
<1>1. call[a] \in Call
  BY DEF CallsShape, Return, Idle
<1>2. force' \in BOOLEAN
  BY <1>1, Zenon DEF CallsShape, Return, Call
<1>3. call' = [call EXCEPT ![a] = None]
  BY DEF Return
<1>4. call' \in [Appliers -> Call \cup {None}]
  BY <1>3 DEF CallsShape
<1>5. \A b \in Appliers : call'[b] = IF b = a THEN None ELSE call[b]
  BY <1>3 DEF CallsShape
<1> QED
  BY <1>2, <1>4, <1>5 DEF CallsShape

-----------------------------------------------------------------------------
(* The three steps that move the rows.  A write makes what the call came   *)
(* to the thing that is owed, and moves the guarded fields of the row only *)
(* on a flat magic.                                                        *)
LEMMA WriteAccepts ==
  ASSUME Fresh, PatchInv, NEW a \in Appliers, Write(a)
  PROVE  RowsShape' /\ (told = Owed)' /\ [Accepted!Next]_(Accepted!vars) /\ CallsShape'
<1> DEFINE c == call[a]
           p == Over(Filled(c.cand, c.cfg), row)
<1>1. /\ c \in Call /\ c # None /\ Named(c.cand) /\ row = c.cfg
  BY DEF PatchInv, CallsShape, Write, Idle
<1>2. /\ p \in Params
      /\ ~Flips(c.cand, c.cfg) => p.family = row.family
  BY <1>1, OverIsRow DEF Call, PatchInv, RowsShape
<1>3. /\ told' = p /\ force' = force
      /\ call' = [call EXCEPT ![a].at = "returning"]
      /\ UNCHANGED <<shown, scan>>
      /\ \/ ~Occupied /\ WriteNow(p)
         \/ Occupied /\ Flips(c.cand, c.cfg) /\ QueueFamily(p)
         \/ Occupied /\ ~Flips(c.cand, c.cfg) /\ HoldExits(p)
  BY DEF Write, book
<1>4. Occupied' = Occupied
  BY <1>3 DEF Occupied
<1>5. p # None /\ p.exit \in Values /\ p.exit # None /\ row \in Params
  BY <1>2, Nulls DEF Params, PatchInv, RowsShape
<1>6. CallsShape'
  BY <1>1, <1>3, CallMoves DEF PatchInv
<1> HIDE DEF p
<1>7. CASE ~Occupied /\ WriteNow(p)
  <2>1. row' = p /\ queued' = None /\ held' = None
    BY <1>7 DEF WriteNow
  <2>2. Owed' = p
    BY <2>1 DEF Owed
  <2>3. Accepted!Accept
    BY <1>3, <1>4, <1>7, <2>1, <2>2 DEF Accepted!Accept
  <2> QED
    BY <1>2, <1>3, <1>6, <2>1, <2>2, <2>3 DEF RowsShape, Accepted!Next
<1>8. CASE Occupied /\ QueueFamily(p)
  <2>1. row' = row /\ queued' = p /\ held' = None
    BY <1>8 DEF QueueFamily
  <2>2. Owed' = p
    BY <1>5, <2>1 DEF Owed
  <2>3. Accepted!Accept
    BY <1>3, <1>4, <1>8, <2>1, <2>2 DEF Accepted!Accept, Accepted!Guarded
  <2> QED
    BY <1>2, <1>3, <1>5, <1>6, <2>1, <2>2, <2>3 DEF RowsShape, Accepted!Next
<1>9. CASE Occupied /\ p.family = row.family /\ HoldExits(p)
  <2>1. row' = [p EXCEPT !.exit = row.exit] /\ queued' = None /\ held' = p.exit
    BY <1>9 DEF HoldExits
  <2>2. row' \in Params /\ row'.family = row.family /\ row'.exit = row.exit
    BY <1>2, <1>5, <1>9, <2>1 DEF Params
  <2>3. [row' EXCEPT !.exit = p.exit] = p
    BY <1>2, <2>1 DEF Params
  <2>4. Owed' = p
    BY <1>5, <2>1, <2>3 DEF Owed
  <2>5. Accepted!Accept
    BY <1>3, <1>4, <1>9, <2>2, <2>4 DEF Accepted!Accept, Accepted!Guarded
  <2> QED
    BY <1>2, <1>3, <1>5, <1>6, <2>1, <2>2, <2>4, <2>5 DEF RowsShape, Accepted!Next
<1> QED
  BY <1>2, <1>3, <1>7, <1>8, <1>9

(* An edit of the panel is written while nothing waits, and changes the    *)
(* exits of a flat magic only.                                             *)
LEMMA EditAccepts ==
  ASSUME Fresh, ~EditOverPending, PatchInv, WriteEdit
  PROVE  RowsShape' /\ (told = Owed)' /\ [Accepted!Next]_(Accepted!vars)
<1>1. /\ edit # None /\ row = edit.cfg /\ queued = None /\ held = None
      /\ GuardedEdit => ~Occupied
      /\ row' = [row EXCEPT ![edit.field] = edit.value]
      /\ told' = [Owed EXCEPT ![edit.field] = edit.value]
      /\ UNCHANGED <<queued, held, shown, scan>>
  BY DEF WriteEdit, book
<1>2. edit.field \in {"exit", "gate"} /\ edit.value \in Values /\ row \in Params
  BY <1>1 DEF PatchInv, EditShape, RowsShape
<1>3. Owed = row /\ Owed' = row' /\ told' = row' /\ Occupied' = Occupied
  BY <1>1 DEF Owed, Occupied
<1>4. row' \in Params /\ row'.family = row.family
  BY <1>1, <1>2 DEF Params
<1>5. Occupied => row'.exit = row.exit
  <2>1. CASE edit.field = "gate"
    BY <1>1, <1>2, <2>1 DEF Params
  <2>2. CASE edit.field = "exit" /\ edit.value = row.exit
    BY <1>1, <1>2, <2>2 DEF Params
  <2>3. CASE edit.field = "exit" /\ edit.value # row.exit
    BY <1>1, <2>3 DEF GuardedEdit
  <2> QED
    BY <1>2, <2>1, <2>2, <2>3
<1>6. Accepted!Accept
  BY <1>3, <1>4, <1>5 DEF Accepted!Accept, Accepted!Guarded
<1> QED
  BY <1>1, <1>3, <1>4, <1>6 DEF PatchInv, RowsShape, Accepted!Next

(* What lands on a flat magic is what is owed; a family that is no longer  *)
(* permitted is given up.                                                  *)
LEMMA LandsOwed ==
  ASSUME PatchInv, LandPending
  PROVE  RowsShape' /\ (told = Owed)' /\ [Accepted!Next]_(Accepted!vars)
<1>1. CASE UNCHANGED patches
  BY <1>1, RowsStay DEF PatchInv
<1>2. ASSUME seen = "flat"
      PROVE  ~Occupied /\ Occupied' = Occupied
  <2>1. UNCHANGED <<shown, scan>> /\ shown = 0 /\ ~scan
    BY <1>2 DEF PatchInv, FlatInv, LandPending, book
  <2> QED
    BY <2>1 DEF Occupied
<1>3. CASE seen = "flat" /\ LandPrimary
  <2>1. /\ queued # None /\ queued' = None /\ held' = None /\ Owed = queued
        /\ queued \in Params /\ row \in Params /\ told = queued
    BY <1>3 DEF LandPrimary, Owed, PatchInv, RowsShape
  <2>2. Owed' = row'
    BY <2>1 DEF Owed
  <2>3. CASE row' = queued /\ UNCHANGED told
    <3>1. Accepted!Land
      BY <1>2, <1>3, <2>1, <2>2, <2>3 DEF Accepted!Land
    <3>2. RowsShape'
      BY <2>1, <2>3 DEF RowsShape
    <3>3. (told = Owed)'
      BY <2>1, <2>2, <2>3
    <3>4. Accepted!Next
      BY <3>1 DEF Accepted!Next
    <3> QED
      BY <3>2, <3>3, <3>4
  <2>4. CASE UNCHANGED row /\ told' = row
    <3>1. Accepted!Drop
      BY <1>2, <1>3, <2>1, <2>2, <2>4 DEF Accepted!Drop
    <3>2. RowsShape'
      BY <2>1, <2>4 DEF RowsShape
    <3>3. (told = Owed)'
      BY <2>1, <2>2, <2>4
    <3>4. Accepted!Next
      BY <3>1 DEF Accepted!Next
    <3> QED
      BY <3>2, <3>3, <3>4
  <2> QED
    BY <1>3, <2>3, <2>4 DEF LandPrimary
<1>4. CASE seen = "flat" /\ LandExits
  <2>1. /\ queued = None /\ queued' = None /\ held # None /\ held' = None
        /\ row' = [row EXCEPT !.exit = held] /\ Owed = row' /\ told' = told
        /\ held \in Values /\ row \in Params
    BY <1>4 DEF LandExits, Owed, PatchInv, RowsShape
  <2>2. Owed' = row' /\ row' \in Params
    BY <2>1 DEF Owed, Params
  <2>3. Accepted!Land
    BY <1>2, <1>4, <2>1, <2>2 DEF Accepted!Land
  <2>4. told \in Params /\ told = Owed
    BY DEF PatchInv, RowsShape
  <2>5. RowsShape'
    BY <2>1, <2>2, <2>4 DEF RowsShape
  <2>6. (told = Owed)'
    BY <2>1, <2>2, <2>4
  <2>7. Accepted!Next
    BY <2>3 DEF Accepted!Next
  <2> QED
    BY <2>5, <2>6, <2>7
<1> QED
  BY <1>1, <1>3, <1>4 DEF LandPending

-----------------------------------------------------------------------------
(* A cycle that read a flat magic keeps it flat until it has landed.       *)
LEMMA FlatStays ==
  ASSUME ~UnclearSends, FlatInv, Next
  PROVE  FlatInv'
<1> USE BoundAssumption DEF FlatInv
<1>1. CASE ReadBook
  BY <1>1 DEF ReadBook, book
<1>2. CASE LandPending
  BY <1>2 DEF LandPending, book
<1>3. CASE EndCycle
  <2>1. UNCHANGED <<shown, sent>> /\ poll' = "start" /\ scan' \in {scan, scan \/ sent}
    BY <1>3 DEF EndCycle
  <2>2. scan => scan'
    BY <2>1, Zenon
  <2> QED
    BY <2>1, <2>2
<1>4. CASE SendEntry
  <2>1. \/ shown' = shown + 1 /\ UNCHANGED <<sent, scan>>
        \/ scan' = (~UnclearSends) /\ UNCHANGED shown
    BY <1>4 DEF SendEntry
  <2>2. scan' = (~UnclearSends) => scan'
    BY Zenon
  <2>3. poll' = "start"
    BY <1>4 DEF SendEntry
  <2> QED
    BY <2>1, <2>2, <2>3
<1>5. CASE FillSurfaces \/ OrderDies \/ PositionCloses \/ ScanEnds
  <2>1. CASE FillSurfaces
    BY <2>1 DEF FillSurfaces, Broker
  <2>2. CASE OrderDies
    BY <2>2 DEF OrderDies, Broker
  <2>3. CASE PositionCloses
    BY <2>3 DEF PositionCloses, Broker
  <2>4. CASE ScanEnds
    BY <2>4 DEF ScanEnds, Broker
  <2> QED
    BY <1>5, <2>1, <2>2, <2>3, <2>4
<1>6. ASSUME NEW f \in BOOLEAN, StartSearch(f)
      PROVE  FlatInv'
  BY <1>6 DEF StartSearch, book
<1>7. ASSUME NEW a \in Appliers, NEW o \in Offers[a], Begin(a, o)
      PROVE  FlatInv'
  BY <1>7 DEF Begin, book
<1>8. ASSUME NEW a \in Appliers, ApplyNext(a) \/ Unreachable(a)
      PROVE  FlatInv'
  BY <1>8 DEF ApplyNext, Measured, Write, Return, Overtaken, Unreachable, book
<1>9. ASSUME NEW field, NEW v, DecideEdit(field, v)
      PROVE  FlatInv'
  BY <1>9 DEF DecideEdit, book
<1>10. CASE WriteEdit \/ RefuseEdit
  BY <1>10 DEF WriteEdit, RefuseEdit, book
<1>11. ASSUME NEW banned, Restart(banned)
       PROVE  FlatInv'
  BY <1>11 DEF Restart, book
<1> QED
  BY <1>1, <1>2, <1>3, <1>4, <1>5, <1>6, <1>7, <1>8, <1>9, <1>10, <1>11
     DEF Next, PollNext

(* What a step that only touches the calls or the panel's edit keeps.      *)
LEMMA EditStays ==
  ASSUME EditShape, edit' = edit \/ edit' = None
  PROVE  EditShape'
  BY DEF EditShape

LEMMA CallsStay ==
  ASSUME CallsShape, UNCHANGED <<force, call>>
  PROVE  CallsShape'
  BY DEF CallsShape

(* Every step is a step of AcceptedParameters, or none of its steps.       *)
LEMMA PatchStep ==
  ASSUME Fresh, ~EditOverPending, ~UnclearSends, PatchInv, [Next]_vars
  PROVE  PatchInv' /\ [Accepted!Next]_(Accepted!vars)
<1> DEFINE Kept == RowsShape' /\ (told = Owed)' /\ [Accepted!Next]_(Accepted!vars)
<1> SUFFICES CallsShape' /\ EditShape' /\ FlatInv' /\ Kept
  BY DEF PatchInv
<1>0. /\ RowsShape /\ CallsShape /\ EditShape /\ FlatInv
      /\ told = Owed
  BY DEF PatchInv
<1>1. UNCHANGED patches => Kept
  BY <1>0, RowsStay
<1> HIDE DEF Kept
<1>2. CASE ReadBook \/ EndCycle \/ SendEntry
  <2>1. UNCHANGED <<patches, force, call, edit>>
    BY <1>2 DEF ReadBook, EndCycle, SendEntry
  <2>2. FlatInv'
    BY <1>0, <1>2, FlatStays DEF Next, PollNext
  <2> QED
    BY <1>0, <1>1, <2>1, <2>2, CallsStay, EditStays
<1>3. CASE LandPending
  <2>1. UNCHANGED <<force, call, edit>>
    BY <1>3 DEF LandPending
  <2>2. FlatInv'
    BY <1>0, <1>3, FlatStays DEF Next, PollNext
  <2>3. Kept
    BY <1>3, LandsOwed DEF Kept
  <2> QED
    BY <1>0, <2>1, <2>2, <2>3, CallsStay, EditStays
<1>4. CASE FillSurfaces \/ OrderDies \/ PositionCloses \/ ScanEnds
  <2>1. UNCHANGED <<patches, force, call, edit>>
    BY <1>4 DEF FillSurfaces, OrderDies, PositionCloses, ScanEnds, Broker
  <2>2. FlatInv'
    BY <1>0, <1>4, FlatStays DEF Next
  <2> QED
    BY <1>0, <1>1, <2>1, <2>2, CallsStay, EditStays
<1>5. CASE \E f \in BOOLEAN : StartSearch(f)
  <2>1. UNCHANGED <<patches, call, edit>> /\ force' \in BOOLEAN
    BY <1>5, Zenon DEF StartSearch
  <2>2. CallsShape'
    BY <1>0, <2>1 DEF CallsShape
  <2>3. FlatInv'
    BY <1>0, <1>5, FlatStays DEF Next
  <2> QED
    BY <1>0, <1>1, <2>1, <2>2, <2>3, EditStays
<1>6. ASSUME NEW a \in Appliers, NEW o \in Offers[a], Begin(a, o)
      PROVE  CallsShape' /\ EditShape' /\ FlatInv' /\ Kept
  <2>1. UNCHANGED <<patches, edit>>
    BY <1>6 DEF Begin
  <2>2. CallsShape'
    BY <1>0, <1>6, CallBegins DEF RowsShape
  <2>3. FlatInv'
    BY <1>0, <1>6, FlatStays DEF Next
  <2> QED
    BY <1>0, <1>1, <2>1, <2>2, <2>3, EditStays
<1>7. ASSUME NEW a \in Appliers, ApplyNext(a) \/ Unreachable(a)
      PROVE  CallsShape' /\ EditShape' /\ FlatInv' /\ Kept
  <2>1. FlatInv'
    BY <1>0, <1>7, FlatStays DEF Next
  <2>2. edit' = edit
    BY <1>7 DEF ApplyNext, Measured, Write, Return, Overtaken, Unreachable
  <2>3. CASE Write(a)
    BY <1>0, <2>1, <2>2, <2>3, WriteAccepts, EditStays DEF Kept
  <2>4. CASE Return(a)
    <3>1. UNCHANGED patches
      BY <2>4 DEF Return
    <3> QED
      BY <1>0, <1>1, <2>1, <2>2, <2>4, <3>1, CallReturns, EditStays
  <2>5. CASE Measured(a) \/ Overtaken(a) \/ Unreachable(a)
    <3>1. UNCHANGED patches /\ call[a] # None /\ force' = force
      BY <2>5 DEF Measured, Overtaken, Unreachable, Idle
    <3>2. \E at \in {"measuring", "passed", "returning"} :
             call' = [call EXCEPT ![a].at = at]
      BY <2>5 DEF Measured, Overtaken, Unreachable
    <3>3. CallsShape'
      BY <1>0, <3>1, <3>2, CallMoves
    <3> QED
      BY <1>0, <1>1, <2>1, <2>2, <3>1, <3>3, EditStays
  <2> QED
    BY <1>7, <2>3, <2>4, <2>5 DEF ApplyNext
<1>8. ASSUME NEW field \in {"exit", "gate"}, NEW v \in Values, DecideEdit(field, v)
      PROVE  CallsShape' /\ EditShape' /\ FlatInv' /\ Kept
  <2>1. /\ UNCHANGED <<patches, force, call>>
        /\ edit' = [cfg |-> row, field |-> field, value |-> v]
    BY <1>8 DEF DecideEdit
  <2>2. EditShape'
    BY <1>0, <2>1 DEF EditShape, RowsShape
  <2>3. FlatInv'
    BY <1>0, <1>8, FlatStays DEF Next
  <2> QED
    BY <1>0, <1>1, <2>1, <2>2, <2>3, CallsStay
<1>9. CASE WriteEdit
  <2>1. UNCHANGED <<force, call>> /\ edit' = None
    BY <1>9 DEF WriteEdit
  <2>2. FlatInv'
    BY <1>0, <1>9, FlatStays DEF Next
  <2>3. Kept
    BY <1>9, EditAccepts DEF Kept
  <2> QED
    BY <1>0, <2>1, <2>2, <2>3, CallsStay, EditStays
<1>10. CASE RefuseEdit
  <2>1. UNCHANGED <<patches, force, call>> /\ edit' = None
    BY <1>10 DEF RefuseEdit
  <2>2. FlatInv'
    BY <1>0, <1>10, FlatStays DEF Next
  <2> QED
    BY <1>0, <1>1, <2>1, <2>2, CallsStay, EditStays
<1>11. ASSUME NEW banned \in SUBSET (Families \ {row.family}), Restart(banned)
       PROVE  CallsShape' /\ EditShape' /\ FlatInv' /\ Kept
  <2>1. /\ UNCHANGED patches /\ edit' = None /\ force' = FALSE
        /\ call' = [a \in Appliers |-> None]
    BY <1>11 DEF Restart
  <2>2. force' \in BOOLEAN
    BY <2>1, Zenon
  <2>3. CallsShape'
    BY <2>1, <2>2 DEF CallsShape
  <2>4. FlatInv'
    BY <1>0, <1>11, FlatStays DEF Next
  <2> QED
    BY <1>0, <1>1, <2>1, <2>3, <2>4, EditStays
<1>12. CASE UNCHANGED vars
  <2>1. UNCHANGED <<patches, force, call, edit, poll, seen, shown, sent, scan>>
    BY <1>12 DEF vars, book
  <2>2. FlatInv'
    BY <1>0, <2>1 DEF FlatInv
  <2> QED
    BY <1>0, <1>1, <2>1, <2>2, CallsStay, EditStays
<1> QED
  BY <1>2, <1>3, <1>4, <1>5, <1>6, <1>7, <1>8, <1>9, <1>10, <1>11, <1>12
     DEF Next, PollNext

-----------------------------------------------------------------------------
(* A writer that was answered ok decides what will be live, and nothing    *)
(* else moves the family or the exits of an occupied magic: as long as no  *)
(* row changes between a writer's read and its write, the panel leaves a   *)
(* pending patch alone and an unclear send is scanned for from the moment  *)
(* it is sent.                                                             *)
THEOREM PatchesAsTold ==
  ASSUME Fresh, ~EditOverPending, ~UnclearSends
  PROVE  Spec => AsTold
<1>1. Init => PatchInv /\ Accepted!Init
  BY PatchInit
<1>2. PatchInv /\ [Next]_vars => PatchInv' /\ [Accepted!Next]_(Accepted!vars)
  BY PatchStep
<1> QED
  BY <1>1, <1>2, PTL DEF Spec, AsTold, Accepted!Spec

-----------------------------------------------------------------------------
(* The types, and that one patch waits, need none of these conditions.     *)

\* Within the bounds of the instance; an order whose outcome is open leaves
\* room for the position it may become.
BookShape ==
    /\ shown \in 0..MaxPositions /\ sent \in BOOLEAN /\ scan \in BOOLEAN
    /\ sent => shown < MaxPositions
    /\ orders \in 0..MaxOrders

RestShape ==
    /\ allowed \subseteq Families
    /\ poll \in {"start", "read", "landed", "autopilot"}
    /\ seen \in {"flat", "scan", "open"}
    /\ edit \in Edit \cup {None}
    /\ calls \in 0..MaxCalls /\ edits \in 0..MaxEdits

TypedInv == RowsShape /\ CallsShape /\ BookShape /\ RestShape

(* A write leaves one patch at most, whatever moved since the call began.  *)
LEMMA WriteTypes ==
  ASSUME RowsShape, CallsShape, NEW a \in Appliers, Write(a)
  PROVE  RowsShape' /\ CallsShape'
<1> DEFINE c == call[a]
           p == Over(Filled(c.cand, c.cfg), row)
<1>1. c \in Call /\ c # None /\ Named(c.cand)
  BY DEF CallsShape, Write, Idle
<1>2. p \in Params
  BY <1>1, OverIsRow DEF Call, RowsShape
<1>3. /\ told' = p /\ force' = force
      /\ call' = [call EXCEPT ![a].at = "returning"]
      /\ WriteNow(p) \/ QueueFamily(p) \/ HoldExits(p)
  BY DEF Write
<1>4. CallsShape'
  BY <1>1, <1>3, CallMoves
<1> HIDE DEF p
<1>5. p.exit \in Values /\ row \in Params /\ [p EXCEPT !.exit = row.exit] \in Params
  BY <1>2 DEF RowsShape, Params
<1>6. RowsShape'
  BY <1>2, <1>3, <1>5 DEF RowsShape, WriteNow, QueueFamily, HoldExits
<1> QED BY <1>4, <1>6

(* What lands is a row, and nothing waits behind it.                       *)
LEMMA LandTypes ==
  ASSUME RowsShape, LandPending PROVE RowsShape'
<1>1. CASE UNCHANGED patches
  BY <1>1 DEF RowsShape, patches
<1>2. CASE LandPrimary
  BY <1>2 DEF LandPrimary, RowsShape
<1>3. CASE LandExits
  <2>1. held \in Values /\ row \in Params /\ row' = [row EXCEPT !.exit = held]
    BY <1>3 DEF LandExits, RowsShape
  <2>2. row' \in Params
    BY <2>1 DEF Params
  <2> QED BY <1>3, <2>2 DEF LandExits, RowsShape
<1> QED BY <1>1, <1>2, <1>3 DEF LandPending

(* An edit changes one field of what is live and of what is owed.          *)
LEMMA EditTypes ==
  ASSUME RowsShape, RestShape, WriteEdit PROVE RowsShape'
<1>1. edit \in Edit
  BY DEF RestShape, WriteEdit
<1>2. edit.field \in {"exit", "gate"} /\ edit.value \in Values
  BY <1>1 DEF Edit
<1>3. Owed \in Params
  BY DEF Owed, RowsShape, Params
<1>4. \A p \in Params : [p EXCEPT ![edit.field] = edit.value] \in Params
  BY <1>2 DEF Params
<1> QED BY <1>3, <1>4 DEF RowsShape, WriteEdit

LEMMA TypedStep == TypedInv /\ [Next]_vars => TypedInv'
<1> SUFFICES ASSUME TypedInv, [Next]_vars PROVE TypedInv'
  OBVIOUS
<1> USE BoundAssumption
<1>0. RowsShape /\ CallsShape /\ BookShape /\ RestShape
  BY DEF TypedInv
<1>1. UNCHANGED patches => RowsShape'
  BY <1>0 DEF RowsShape, patches
<1>2. UNCHANGED book => BookShape'
  BY <1>0 DEF BookShape, book
<1>3. CASE ReadBook \/ EndCycle
  <2>1. UNCHANGED <<patches, shown, sent, orders, allowed, force, call, edit, calls, edits>>
    BY <1>3 DEF ReadBook, EndCycle, book
  <2>2. RestShape'
    BY <1>0, <1>3, <2>1 DEF ReadBook, EndCycle, RestShape
  <2>3. scan' \in BOOLEAN
    <3>1. CASE ReadBook
      BY <1>0, <3>1 DEF ReadBook, book, BookShape
    <3>2. CASE EndCycle
      <4>1. scan' = scan \/ scan' = (scan \/ sent)
        BY <3>2 DEF EndCycle
      <4>2. (scan \/ sent) \in BOOLEAN
        BY Zenon
      <4> QED BY <1>0, <4>1, <4>2 DEF BookShape
    <3> QED BY <1>3, <3>1, <3>2
  <2>4. BookShape'
    BY <1>0, <2>1, <2>3 DEF BookShape
  <2> QED BY <1>0, <1>1, <2>1, <2>2, <2>4, CallsStay DEF TypedInv
<1>4. CASE LandPending
  <2>1. UNCHANGED <<book, allowed, force, call, edit, calls, edits, seen>> /\ poll' = "landed"
    BY <1>4 DEF LandPending
  <2>2. RestShape'
    BY <1>0, <2>1 DEF RestShape
  <2> QED BY <1>0, <1>2, <1>4, <2>1, <2>2, LandTypes, CallsStay DEF TypedInv
<1>5. CASE SendEntry
  <2>1. /\ UNCHANGED <<patches, allowed, force, call, edit, calls, edits>>
        /\ poll' = "start" /\ seen' = "flat"
        /\ ~sent /\ shown < MaxPositions /\ orders < MaxOrders /\ orders' = orders + 1
    BY <1>5 DEF SendEntry
  <2>2. RestShape'
    BY <1>0, <2>1 DEF RestShape
  <2>3. \/ shown' = shown + 1 /\ UNCHANGED <<sent, scan>>
        \/ sent' = TRUE /\ scan' \in BOOLEAN /\ UNCHANGED shown
    <3>1. \/ shown' = shown + 1 /\ UNCHANGED <<sent, scan>>
          \/ sent' = TRUE /\ scan' = ~UnclearSends /\ UNCHANGED shown
      BY <1>5 DEF SendEntry
    <3>2. (~UnclearSends) \in BOOLEAN
      BY Zenon
    <3> QED BY <3>1, <3>2
  <2>4. BookShape'
    <3>1. sent' \in BOOLEAN /\ scan' \in BOOLEAN
      <4>1. TRUE \in BOOLEAN
        BY Zenon
      <4> QED BY <1>0, <2>3, <4>1 DEF BookShape
    <3>2. shown' \in 0..MaxPositions /\ orders' \in 0..MaxOrders
      BY <1>0, <2>1, <2>3 DEF BookShape
    <3>3. sent' => shown' < MaxPositions
      <4>1. CASE UNCHANGED sent
        BY <2>1, <4>1
      <4>2. CASE UNCHANGED shown
        BY <2>1, <4>2
      <4> QED BY <2>3, <4>1, <4>2
    <3> QED BY <3>1, <3>2, <3>3 DEF BookShape
  <2> QED BY <1>0, <1>1, <2>1, <2>2, <2>4, CallsStay DEF TypedInv
<1>6. CASE FillSurfaces \/ OrderDies \/ PositionCloses \/ ScanEnds
  <2>1. UNCHANGED <<patches, orders, allowed, poll, seen, force, call, edit, calls, edits>>
    BY <1>6 DEF FillSurfaces, OrderDies, PositionCloses, ScanEnds, Broker
  <2>2. RestShape'
    BY <1>0, <2>1 DEF RestShape
  <2>3. \/ sent /\ sent' = FALSE /\ shown' = shown + 1 /\ UNCHANGED scan
        \/ sent' = FALSE /\ UNCHANGED <<shown, scan>>
        \/ shown > 0 /\ shown' = shown - 1 /\ UNCHANGED <<sent, scan>>
        \/ ~sent /\ scan' = FALSE /\ UNCHANGED <<shown, sent>>
    BY <1>6 DEF FillSurfaces, OrderDies, PositionCloses, ScanEnds, Broker
  <2>4. BookShape'
    <3>1. sent' \in BOOLEAN /\ scan' \in BOOLEAN
      <4>1. FALSE \in BOOLEAN
        BY Zenon
      <4> QED BY <1>0, <2>3, <4>1 DEF BookShape
    <3>2. shown \in 0..MaxPositions /\ orders' \in 0..MaxOrders /\ (sent => shown < MaxPositions)
      BY <1>0, <2>1 DEF BookShape
    <3>3. shown' \in 0..MaxPositions
      <4>1. CASE sent /\ shown' = shown + 1
        BY <3>2, <4>1
      <4>2. CASE shown > 0 /\ shown' = shown - 1
        BY <3>2, <4>2
      <4>3. CASE UNCHANGED shown
        BY <3>2, <4>3
      <4> QED BY <2>3, <4>1, <4>2, <4>3
    <3>4. sent' => shown' < MaxPositions
      <4>1. CASE sent' = FALSE
        BY <4>1
      <4>2. CASE shown > 0 /\ shown' = shown - 1 /\ UNCHANGED sent
        BY <3>2, <4>2
      <4>3. CASE UNCHANGED <<shown, sent>>
        BY <3>2, <4>3
      <4> QED BY <2>3, <4>1, <4>2, <4>3
    <3> QED BY <3>1, <3>2, <3>3, <3>4 DEF BookShape
  <2> QED BY <1>0, <1>1, <2>1, <2>2, <2>4, CallsStay DEF TypedInv
<1>7. ASSUME NEW f \in BOOLEAN, StartSearch(f) PROVE TypedInv'
  <2>1. /\ UNCHANGED <<patches, book, allowed, poll, seen, call, edit, edits>>
        /\ force' \in BOOLEAN /\ calls < MaxCalls /\ calls' = calls + 1
    BY <1>7, Zenon DEF StartSearch
  <2>2. CallsShape'
    BY <1>0, <2>1 DEF CallsShape
  <2>3. RestShape'
    BY <1>0, <2>1 DEF RestShape
  <2> QED BY <1>1, <1>2, <2>1, <2>2, <2>3 DEF TypedInv
<1>8. ASSUME NEW a \in Appliers, NEW o \in Offers[a], Begin(a, o) PROVE TypedInv'
  <2>1. /\ UNCHANGED <<patches, book, allowed, seen, edit, edits>>
        /\ poll' \in {"autopilot", poll} /\ calls < MaxCalls /\ calls' = calls + 1
    BY <1>8 DEF Begin
  <2>2. CallsShape'
    BY <1>0, <1>8, CallBegins DEF RowsShape
  <2>3. RestShape'
    BY <1>0, <2>1 DEF RestShape
  <2> QED BY <1>1, <1>2, <2>1, <2>2, <2>3 DEF TypedInv
<1>9. ASSUME NEW a \in Appliers, ApplyNext(a) \/ Unreachable(a) PROVE TypedInv'
  <2>1. UNCHANGED <<book, allowed, poll, seen, edit, calls, edits>>
    BY <1>9 DEF ApplyNext, Measured, Write, Return, Overtaken, Unreachable
  <2>2. RestShape' /\ BookShape'
    BY <1>0, <1>2, <2>1 DEF RestShape
  <2>3. CASE Write(a)
    BY <1>0, <2>2, <2>3, WriteTypes DEF TypedInv
  <2>4. CASE Return(a)
    <3>1. UNCHANGED patches
      BY <2>4 DEF Return
    <3> QED BY <1>0, <1>1, <2>2, <2>4, <3>1, CallReturns DEF TypedInv
  <2>5. CASE Measured(a) \/ Overtaken(a) \/ Unreachable(a)
    <3>1. UNCHANGED patches /\ call[a] # None /\ force' = force
      BY <2>5 DEF Measured, Overtaken, Unreachable, Idle
    <3>2. \E at \in {"measuring", "passed", "returning"} :
             call' = [call EXCEPT ![a].at = at]
      BY <2>5 DEF Measured, Overtaken, Unreachable
    <3>3. CallsShape'
      BY <1>0, <3>1, <3>2, CallMoves
    <3> QED BY <1>1, <2>2, <3>1, <3>3 DEF TypedInv
  <2> QED BY <1>9, <2>3, <2>4, <2>5 DEF ApplyNext
<1>10. ASSUME NEW field \in {"exit", "gate"}, NEW v \in Values, DecideEdit(field, v)
       PROVE  TypedInv'
  <2>1. /\ UNCHANGED <<patches, book, allowed, poll, seen, force, call, calls>>
        /\ edit' = [cfg |-> row, field |-> field, value |-> v]
        /\ edits < MaxEdits /\ edits' = edits + 1
    BY <1>10 DEF DecideEdit
  <2>2. edit' \in Edit
    BY <1>0, <2>1 DEF Edit, RowsShape
  <2>3. RestShape'
    BY <1>0, <2>1, <2>2 DEF RestShape
  <2> QED BY <1>0, <1>1, <1>2, <2>1, <2>3, CallsStay DEF TypedInv
<1>11. CASE WriteEdit \/ RefuseEdit
  <2>1. UNCHANGED <<book, allowed, poll, seen, force, call, calls, edits>> /\ edit' = None
    BY <1>11 DEF WriteEdit, RefuseEdit
  <2>2. RestShape'
    BY <1>0, <2>1 DEF RestShape
  <2>3. RowsShape'
    BY <1>0, <1>1, <1>11, EditTypes DEF RefuseEdit
  <2> QED BY <1>0, <1>2, <2>1, <2>2, <2>3, CallsStay DEF TypedInv
<1>12. ASSUME NEW banned \in SUBSET (Families \ {row.family}), Restart(banned)
       PROVE  TypedInv'
  <2>1. /\ UNCHANGED <<patches, book, calls>> /\ edit' = None
        /\ allowed' = allowed \ banned /\ poll' = "start" /\ seen' = "flat"
        /\ edits < MaxEdits /\ edits' = edits + 1
        /\ force' = FALSE /\ call' = [a \in Appliers |-> None]
    BY <1>12 DEF Restart
  <2>2. force' \in BOOLEAN
    BY <2>1, Zenon
  <2>3. CallsShape'
    BY <2>1, <2>2 DEF CallsShape
  <2>4. RestShape'
    BY <1>0, <2>1 DEF RestShape
  <2> QED BY <1>1, <1>2, <2>1, <2>3, <2>4 DEF TypedInv
<1>13. CASE UNCHANGED vars
  <2>1. UNCHANGED <<patches, book, allowed, poll, seen, force, call, edit, calls, edits>>
    BY <1>13 DEF vars
  <2>2. RestShape'
    BY <1>0, <2>1 DEF RestShape
  <2> QED BY <1>0, <1>1, <1>2, <2>1, <2>2, CallsStay DEF TypedInv
<1> QED
  BY <1>3, <1>4, <1>5, <1>6, <1>7, <1>8, <1>9, <1>10, <1>11, <1>12, <1>13
  DEF Next, PollNext

LEMMA TypedInit == Init => TypedInv
<1> SUFFICES ASSUME Init PROVE TypedInv
  OBVIOUS
<1>1. RowsShape
  BY Nulls DEF Init, RowsShape
<1>2. CallsShape
  BY DEF Init, CallsShape
<1>3. BookShape
  <2>1. FALSE \in BOOLEAN
    BY Zenon
  <2>2. 0 \in 0..MaxPositions /\ 0 < MaxPositions /\ 0 \in 0..MaxOrders
    BY BoundAssumption
  <2>3. shown = 0 /\ sent = FALSE /\ scan = FALSE /\ orders = 0
    BY DEF Init
  <2> QED BY <2>1, <2>2, <2>3 DEF BookShape
<1>4. RestShape
  BY BoundAssumption DEF Init, RestShape
<1> QED BY <1>1, <1>2, <1>3, <1>4 DEF TypedInv

(* What is live, owed, queued, held and under way are rows, fields and     *)
(* calls, for overtaken writers, edits over a pending patch and unclear    *)
(* sends too.                                                              *)
THEOREM PatchTypes == Spec => []TypeOK
<1>1. TypedInv => TypeOK
  BY DEF TypedInv, TypeOK, RowsShape, CallsShape, BookShape, RestShape
<1> QED BY <1>1, TypedInit, TypedStep, PTL DEF Spec

(* A held exit patch never waits beside a queued family, whoever overtakes *)
(* whom, whatever the panel edits and however a send ends.                 *)
THEOREM OnePatchWaits == Spec => []OnePending
<1>1. TypedInv => OnePending
  BY DEF TypedInv, RowsShape, OnePending
<1> QED BY <1>1, TypedInit, TypedStep, PTL DEF Spec

-----------------------------------------------------------------------------
(* The series of searches (SearchVerdict).                                 *)

\* What a chain of flips gave up in this market earns less there than what it
\* trades now.
ClimbInv ==
    /\ charging \in BOOLEAN /\ market \in Markets
    /\ inc \in Rivals /\ forsaken \subseteq Rivals
    /\ \A f \in forsaken : Hold(f).net < Hold(inc).net

LEMMA FirstGate ==
    ASSUME NEW S \in SUBSET Nat, S # {}
    PROVE  (CHOOSE i \in S : \A j \in S : i <= j) \in S
<1> DEFINE R == {ss \in Nat \X Nat : ss[1] < ss[2]}
<1>1. IsWellFoundedOn(R, Nat)
  BY NatLessThanWellFounded DEF OpToRel
<1> HIDE DEF R
<1>2. \E x \in S : \A y \in S : ~ (<<y, x>> \in R)
  BY <1>1, WFMin
<1>3. \A x, y \in S : y < x => <<y, x>> \in R
  BY DEF R
<1>4. \A x, y \in S : ~(y < x) => x <= y
  OBVIOUS
<1>5. \E x \in S : \A y \in S : x <= y
  BY <1>2, <1>3, <1>4
<1> QED BY <1>5

\* A candidate that no gate holds back passed the two that say what it earns.
LEMMA PassedGates ==
    ASSUME NEW c, NEW measured, NEW forced, NEW minAge,
           RejectReason(c, measured, forced, minAge) = "passes"
    PROVE  /\ ~("holdout" \in Hold(c).fails)
           /\ ~(~forced /\ FlipTooSmall(c, Hold(c), measured))
<1> DEFINE refused == HeldBy(c, measured, forced, minAge)
           first == CHOOSE i \in refused : \A j \in refused : i <= j
<1>1. DOMAIN GateOrder = 1..13 /\ GateOrder[2] = "holdout" /\ GateOrder[7] = "flip"
  BY DEF GateOrder
<1>2. \A i \in 1..13 : GateOrder[i] # "passes"
  BY DEF GateOrder
<1>3. refused = {}
  <2>1. refused \in SUBSET Nat /\ refused \subseteq 1..13
    BY <1>1 DEF HeldBy
  <2> HIDE DEF refused
  <2>2. refused # {} => first \in refused
    BY <2>1, FirstGate
  <2>3. RejectReason(c, measured, forced, minAge) = IF refused = {} THEN "passes" ELSE GateOrder[first]
    BY DEF RejectReason, refused
  <2> HIDE DEF first
  <2> QED BY <1>2, <2>1, <2>2, <2>3
<1>4. 2 \in DOMAIN GateOrder /\ 7 \in DOMAIN GateOrder
  BY <1>1
<1> QED BY <1>1, <1>3, <1>4 DEF HeldBy

\* An unforced flip that is judged on this market earns more than what it
\* replaces.
LEMMA FlipsClimb ==
    ASSUME ClimbInv, NEW c \in Rivals, NEW measured, NEW minAge,
           RejectReason(c, measured, FALSE, minAge) = "passes", Flip(c), Judged(measured)
    PROVE  Hold(inc).net < Hold(c).net
<1>1. ~("holdout" \in Hold(c).fails) /\ ~FlipTooSmall(c, Hold(c), measured)
  BY PassedGates
<1>2. /\ Hold(c) \in Measure /\ Hold(inc) \in Measure
      /\ Hold(c).net <= 0 => "holdout" \in Hold(c).fails
  BY MarketAssumption DEF Hold, ClimbInv
<1>3. FlipBenchmark(measured).net = Hold(inc).net
  BY DEF Judged, PaidOf
<1>4. PICK old, new : old = Hold(inc).net /\ new = Hold(c).net
  OBVIOUS
<1>5. old \in Int /\ new \in Int /\ new > 0
  BY <1>1, <1>2, <1>4 DEF Measure
<1>6. ~(old > 0 /\ 100 * new < 115 * old)
  BY <1>1, <1>3, <1>4 DEF FlipTooSmall
<1> QED BY <1>4, <1>5, <1>6

\* What an accepted search does to the chain.
LEMMA SearchStep ==
    ASSUME ClimbInv, NEW c \in Rivals, NEW measured, NEW forced \in BOOLEAN, NEW minAge,
           Searches(c, measured, forced, minAge)
    PROVE  /\ ClimbInv'
           /\ forsaken' # {} /\ inc' # inc => inc' \notin forsaken
<1> DEFINE takes == RejectReason(c, measured, forced, minAge) = "passes"
           flips == ~forced /\ Flip(c) /\ Judged(measured)
<1>1. /\ UNCHANGED <<charging, market>>
      /\ takes => inc' = c /\ forsaken' = IF flips THEN forsaken \cup {inc} ELSE {}
      /\ ~takes => UNCHANGED <<inc, forsaken>>
  BY DEF Searches
<1>2. \A d : Hold(d)' = Hold(d)
  BY <1>1 DEF Hold
<1>3. CASE ~takes
  BY <1>1, <1>2, <1>3 DEF ClimbInv
<1>4. CASE takes /\ ~flips
  BY <1>1, <1>4 DEF ClimbInv
<1>5. CASE takes /\ flips
  <2>1. Hold(inc).net < Hold(c).net
    BY <1>5, FlipsClimb
  <2>2. \A d \in Rivals : Hold(d).net \in Int
    BY MarketAssumption DEF ClimbInv, Hold, Measure
  <2>3. \A f \in forsaken \cup {inc} : Hold(f).net < Hold(c).net
    BY <2>1, <2>2 DEF ClimbInv
  <2>4. c \notin forsaken
    BY <2>2, <2>3
  <2> QED BY <1>1, <1>2, <1>5, <2>3, <2>4 DEF ClimbInv
<1> QED BY <1>3, <1>4, <1>5

THEOREM NoReturnSafe == SeriesSpec => NoReturn
<1> DEFINE Onward == forsaken' # {} /\ inc' # inc => inc' \notin forsaken
<1>1. SeriesInit => ClimbInv
  BY ConfigAssumption DEF SeriesInit, ClimbInv
<1>2. ASSUME ClimbInv, [SeriesNext]_seriesVars
      PROVE  ClimbInv' /\ Onward
  <2>1. ASSUME NEW c \in Rivals, NEW measured \in Measurements, NEW forced \in BOOLEAN,
               NEW minAge \in MinAges, Searches(c, measured, forced, minAge)
        PROVE  ClimbInv' /\ Onward
    BY <1>2, <2>1, SearchStep
  <2>2. ASSUME NEW c \in Rivals, NEW m \in Markets, NEW k \in BOOLEAN, NEW validated \in BOOLEAN,
               ApplyHistory(c, m, k, validated)
        PROVE  ClimbInv' /\ Onward
    BY <1>2, <2>2 DEF ApplyHistory, ClimbInv
  <2>3. CASE SetChargeCosts \/ \E m \in Markets : Drift(m)
    BY <1>2, <2>3 DEF SetChargeCosts, Drift, ClimbInv
  <2>4. CASE UNCHANGED <<inc, charging, market, forsaken>>
    BY <1>2, <2>4 DEF ClimbInv, Hold
  <2> QED BY <1>2, <2>1, <2>2, <2>3, <2>4
    DEF SeriesNext, RefreshStamp, Grow, PickSessions, seriesVars
<1>3. SeriesSpec => []ClimbInv
  BY <1>1, <1>2, PTL DEF SeriesSpec
<1>4. SeriesSpec => [][Onward]_seriesVars
  BY <1>2, <1>3, PTL DEF SeriesSpec
<1> QED BY <1>4 DEF NoReturn

(* What a search, a history row and a stamp are made of.                   *)
LEMMA StampParts ==
  ASSUME NEW c \in Rivals, NEW m \in Markets, NEW k \in BOOLEAN
  PROVE  /\ m.of[k][c] \in Measure /\ PaidOf(m.of[k][c]) \in NetScore
         /\ StampOf(c, m, k) \in Stamp
         /\ StampOf(c, m, k).validated = TRUE
<1>1. m.of[k][c] \in Measure /\ m.scale \in Nat
  BY MarketAssumption
<1>2. PaidOf(m.of[k][c]) \in NetScore /\ m.of[k][c].pr \in 0 .. 10
  BY <1>1 DEF PaidOf, NetScore, Measure
<1>3. TRUE \in BOOLEAN /\ Unmeasured \in NetScore \cup {Unmeasured}
  BY Zenon
<1> QED BY <1>1, <1>2, <1>3 DEF StampOf, Stamp

(* The live configuration, its stamp and the last verdict, over a series   *)
(* of searches, panel edits and markets.                                   *)
THEOREM SeriesTyped == SeriesSpec => []SeriesTypeOK
<1> USE AgeAssumption, ChangesAssumption
<1>1. SeriesInit => SeriesTypeOK
  <2> SUFFICES ASSUME SeriesInit PROVE SeriesTypeOK
    OBVIOUS
  <2>1. PICK m \in Markets, k \in BOOLEAN : stamp = StampOf(Starting, m, k)
    BY DEF SeriesInit
  <2>2. stamp \in Stamp
    BY <2>1, StampParts, ConfigAssumption
  <2>3. inc = Starting /\ charging = TRUE /\ verdict = NoVerdict /\ changes = 0 /\ forsaken = {}
    BY DEF SeriesInit
  <2>4. charging \in BOOLEAN
    BY <2>3, Zenon
  <2>5. verdict.cand \in Rivals /\ verdict.measured = Unmeasured
    BY <2>3, ConfigAssumption DEF NoVerdict
  <2> QED BY <2>2, <2>3, <2>4, <2>5, ConfigAssumption DEF SeriesInit, SeriesTypeOK
<1>2. SeriesTypeOK /\ [SeriesNext]_seriesVars => SeriesTypeOK'
  <2> SUFFICES ASSUME SeriesTypeOK, [SeriesNext]_seriesVars PROVE SeriesTypeOK'
    OBVIOUS
  <2> USE DEF SeriesTypeOK
  <2>1. ASSUME NEW c \in Rivals, NEW measured \in Measurements, NEW forced \in BOOLEAN,
               NEW minAge \in MinAges, Searches(c, measured, forced, minAge)
        PROVE  SeriesTypeOK'
    <3>1. measured = Unmeasured \/ measured \in Measure
      BY StampParts DEF Measurements, Hold
    <3>2. verdict'.cand \in Rivals /\ verdict'.measured = measured
      BY <2>1 DEF Searches
    <3>3. inc' \in Rivals /\ stamp' \in Stamp /\ age' \in Ages
      <4>1. StampOf(c, market, charging) \in Stamp
        BY StampParts
      <4> QED BY <2>1, <4>1 DEF Searches
    <3>4. forsaken' \subseteq Rivals
      BY <2>1 DEF Searches
    <3>5. changes' \in 0 .. MaxChanges
      BY <2>1 DEF Searches
    <3> QED BY <2>1, <3>1, <3>2, <3>3, <3>4, <3>5 DEF Searches
  <2>2. ASSUME NEW c \in Rivals, NEW m \in Markets, NEW k \in BOOLEAN, NEW validated \in BOOLEAN,
               ApplyHistory(c, m, k, validated)
        PROVE  SeriesTypeOK'
    <3>1. stamp' \in Stamp
      <4>1. PICK old \in Stamp : old = StampOf(c, m, k)
        BY StampParts
      <4>2. stamp' = [old EXCEPT !.validated = validated]
        BY <2>2, <4>1 DEF ApplyHistory
      <4> QED BY <4>2 DEF Stamp
    <3>2. changes' \in 0 .. MaxChanges
      BY <2>2 DEF ApplyHistory
    <3> QED BY <2>2, <3>1, <3>2 DEF ApplyHistory
  <2>3. CASE RefreshStamp
    <3> DEFINE measured == PaidOf(market.of[TRUE][inc])
    <3>1. measured \in NetScore
      <4>1. TRUE \in BOOLEAN
        BY Zenon
      <4> QED BY <4>1, StampParts
    <3>2. stamp' = [stamp EXCEPT !.costed = measured,
                                 !.hold = IF charging THEN measured ELSE stamp.hold,
                                 !.charged = charging \/ stamp.charged]
      BY <2>3 DEF RefreshStamp
    <3> HIDE DEF measured
    <3>3. (charging \/ stamp.charged) \in BOOLEAN
      BY Zenon
    <3>4. (IF charging THEN measured ELSE stamp.hold) \in NetScore
      BY <3>1 DEF Stamp
    <3>5. stamp' \in Stamp
      <4> DEFINE flag == charging \/ stamp.charged
                 hold == IF charging THEN measured ELSE stamp.hold
      <4>1. flag \in BOOLEAN /\ hold \in NetScore
        BY <3>3, <3>4
      <4>2. stamp' = [stamp EXCEPT !.costed = measured, !.hold = hold, !.charged = flag]
        BY <3>2
      <4> HIDE DEF flag, hold
      <4> QED BY <3>1, <4>1, <4>2 DEF Stamp
    <3> QED BY <2>3, <3>5 DEF RefreshStamp
  <2>4. CASE SetChargeCosts
    <3>1. charging' \in BOOLEAN
      BY <2>4, Zenon DEF SetChargeCosts
    <3>2. changes' \in 0 .. MaxChanges
      BY <2>4 DEF SetChargeCosts
    <3> QED BY <2>4, <3>1, <3>2 DEF SetChargeCosts
  <2>5. ASSUME NEW m \in Markets, Drift(m) PROVE SeriesTypeOK'
    BY <2>5 DEF Drift
  <2>6. ASSUME NEW a \in Ages, Grow(a) PROVE SeriesTypeOK'
    BY <2>6 DEF Grow
  <2>7. ASSUME NEW w \in Slots, NEW sticky \in BOOLEAN, PickSessions(w, sticky)
        PROVE  SeriesTypeOK'
    BY <2>7 DEF PickSessions
  <2>8. CASE UNCHANGED seriesVars
    BY <2>8 DEF seriesVars
  <2> QED
    BY <2>1, <2>2, <2>3, <2>4, <2>5, <2>6, <2>7, <2>8 DEF SeriesNext
<1> QED BY <1>1, <1>2, PTL DEF SeriesSpec

\* What holds a candidate back is a gate, and holds it back.
LEMMA HeldByReason ==
    ASSUME NEW c, NEW measured, NEW forced, NEW minAge
    PROVE  LET reason == RejectReason(c, measured, forced, minAge) IN
           reason # "passes" => \E i \in HeldBy(c, measured, forced, minAge) : reason = GateOrder[i]
<1> DEFINE refused == HeldBy(c, measured, forced, minAge)
           first == CHOOSE i \in refused : \A j \in refused : i <= j
<1>1. DOMAIN GateOrder = 1..13
  BY DEF GateOrder
<1>2. refused \in SUBSET Nat
  BY <1>1 DEF HeldBy
<1> HIDE DEF refused
<1>3. refused # {} => first \in refused
  BY <1>2, FirstGate
<1>4. RejectReason(c, measured, forced, minAge) = IF refused = {} THEN "passes" ELSE GateOrder[first]
  BY DEF RejectReason, refused
<1> HIDE DEF first
<1>5. RejectReason(c, measured, forced, minAge) # "passes"
        => \E i \in refused : RejectReason(c, measured, forced, minAge) = GateOrder[i]
  BY <1>3, <1>4
<1> QED BY <1>5 DEF refused

(* A search that measured the incumbent at a loss never refuses a          *)
(* candidate for the incumbent's sake, whatever its stamp says and however *)
(* young it is (_flip_benchmark, _beats_incumbent).                        *)
THEOREM NoLoserDefended == SeriesSpec => []StampDefendsNoLoser
<1>1. SeriesInit => StampDefendsNoLoser
  BY DEF SeriesInit, NoVerdict, StampDefendsNoLoser
<1>2. SeriesTypeOK /\ StampDefendsNoLoser /\ [SeriesNext]_seriesVars => StampDefendsNoLoser'
  <2> SUFFICES ASSUME SeriesTypeOK, StampDefendsNoLoser, [SeriesNext]_seriesVars
               PROVE  StampDefendsNoLoser'
    OBVIOUS
  <2>1. ASSUME NEW c \in Rivals, NEW measured \in Measurements, NEW forced \in BOOLEAN,
               NEW minAge \in MinAges, Searches(c, measured, forced, minAge)
        PROVE  StampDefendsNoLoser'
    <3> DEFINE reason == RejectReason(c, measured, forced, minAge)
    <3>1. verdict'.reason = reason /\ verdict'.measured = measured
      BY <2>1 DEF Searches
    <3> SUFFICES ASSUME measured # Unmeasured, measured.net <= 0,
                        reason \in {"dwell", "flip", "weaker"}
                 PROVE  FALSE
      BY <3>1 DEF StampDefendsNoLoser
    <3>2. PICK i \in HeldBy(c, measured, forced, minAge) : reason = GateOrder[i]
      BY HeldByReason
    <3> HIDE DEF reason
    <3>3. Hold(c) \in Measure /\ Hold(inc) \in Measure /\ measured = Hold(inc)
          /\ (Hold(inc).net > 0 <=> Hold(inc).score > 0)
      BY MarketAssumption DEF Hold, Measurements, SeriesTypeOK
    <3>4. measured.net \in Int /\ measured.score \in Int /\ measured.score <= 0
      BY <3>3 DEF Measure
    <3>5. FlipBenchmark(measured).net = measured.net /\ FlipBenchmark(measured).score = measured.score
      BY DEF FlipBenchmark, PaidOf
    <3>6. GateOrder[i] \notin Hold(c).fails
      BY <3>2, <3>3 DEF Measure, Gates
    <3>7. ~Dwelling(Hold(c), measured) /\ ~FlipTooSmall(c, Hold(c), measured)
      BY <3>4, <3>5 DEF Dwelling, FlipTooSmall
    <3>8. BeatsIncumbent(Hold(c), measured)
      BY <3>4, <3>5 DEF BeatsIncumbent
    <3> QED BY <3>2, <3>6, <3>7, <3>8 DEF HeldBy
  <2>2. CASE UNCHANGED verdict
    BY <2>2 DEF StampDefendsNoLoser
  <2> QED
    BY <2>1, <2>2
    DEF SeriesNext, seriesVars, ApplyHistory, RefreshStamp, SetChargeCosts, Drift, Grow, PickSessions
<1> QED BY <1>1, <1>2, SeriesTyped, PTL DEF SeriesSpec

(* The sticky rule of _choose_search_sessions: a live window that earns    *)
(* leaves its seat to a better one only.                                   *)
THEOREM SeatIsKept == SeriesSpec => SeatKept
<1> DEFINE Seat == \A w \in Slots :
                      PickSessions(w, TRUE) /\ StickyEligible(Clock(window)) /\ w = window'
                      => Clock(w).rank > Clock(window).rank
<1>1. SeriesTypeOK => Seat
  <2> SUFFICES ASSUME SeriesTypeOK, NEW w \in Slots,
                      PickSessions(w, TRUE), StickyEligible(Clock(window))
               PROVE  Clock(w).rank > Clock(window).rank
    OBVIOUS
  <2> DEFINE cur == Clock(window)
             best == Clock(w)
  <2>1. ~Keeps(cur, best)
    BY DEF PickSessions, ChooseSessions
  <2>2. /\ cur.rank \in Int /\ best.rank \in Int /\ cur.net \in Int
        /\ cur.net > 0 => cur.rank > 0
    BY RankAssumption DEF Clock, SeriesTypeOK
  <2>3. cur.rank > 0 /\ StickyEligible(cur)
    BY <2>2 DEF StickyEligible
  <2> HIDE DEF cur, best
  <2>4. ASSUME ~(100 * best.rank <= (IF SessionOK(cur) THEN 125 ELSE 115) * cur.rank)
        PROVE  best.rank > cur.rank
    <3>1. PICK bar \in {115, 125} : ~(100 * best.rank <= bar * cur.rank)
      <4>1. (IF SessionOK(cur) THEN 125 ELSE 115) \in {115, 125}
        OBVIOUS
      <4> QED BY <2>4, <4>1
    <3>2. PICK now, new : now = cur.rank /\ new = best.rank
      OBVIOUS
    <3>3. now \in Int /\ new \in Int /\ now > 0 /\ ~(100 * new <= bar * now)
      BY <2>2, <2>3, <3>1, <3>2
    <3>4. new > now
      <4>1. CASE bar = 115
        BY <3>3, <4>1
      <4>2. CASE bar = 125
        BY <3>3, <4>2
      <4> QED BY <4>1, <4>2
    <3> QED BY <3>2, <3>4
  <2>5. ASSUME ~(best.rank > cur.rank) PROVE Keeps(cur, best)
    BY <2>3, <2>4, <2>5 DEF Keeps
  <2>6. best.rank > cur.rank
    BY <2>1, <2>5
  <2> QED BY <2>6 DEF cur, best
<1>2. SeriesSpec => [][Seat]_seriesVars
  BY <1>1, SeriesTyped, PTL
<1> QED BY <1>2 DEF SeatKept
=============================================================================
