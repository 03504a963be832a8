----------------------------- MODULE SpreadCost -----------------------------
(***************************************************************************)
(* What a symbol's spread is taken to cost.  The engine counts, on every   *)
(* cycle, how many times wider the live tick is than the bar's spread      *)
(* (_sample_spread_ratio), writes the counts now and then, and drops them  *)
(* with the symbol; the search prices its candidates by the median on      *)
(* disk, the entry gate by the one in memory, and a symbol is not switched *)
(* on with a config that was priced cheaper than what is measured now.     *)
(* The ceiling of the spread gate is read off the bars (calibrate).        *)
(*                                                                         *)
(* Widths are in halves of a bucket.  A life is one stay of a symbol in    *)
(* the book: a name that is deleted and added again has another life.      *)
(***************************************************************************)
EXTENDS Integers, FiniteSets, FiniteSetsExt, Functions

CONSTANTS Names,
          Buckets,      \* SPREAD_RATIO_BUCKETS, the last one for the overflow
          One,          \* the ratio 1.0
          MinSamples,   \* SPREAD_RATIO_MIN_SAMPLES
          Interval,     \* cycles between two writes of the counts
          MaxLives, MaxSamples,
          Overlaps,     \* whether a symbol may be deleted in the middle of a cycle
          DiskFails,    \* whether a write of the settings may fail
          Crashes       \* whether the process may die in the middle of a delete

Nobody == "none"

ASSUME SpreadAssumption ==
    /\ Nobody \notin Names
    /\ Buckets \in Nat \ {0} /\ One \in Nat /\ MinSamples \in Nat \ {0}
    /\ Interval \in Nat /\ MaxLives \in Nat /\ MaxSamples \in Nat
    /\ {Overlaps, DiskFails, Crashes} \subseteq BOOLEAN

VARIABLES
    rows,      \* [Names -> a row of the book, or Nowhere]
    lives,     \* [Names -> how many lives the name has had]
    counts,    \* engine._spread_ratio: [Names -> how often each bucket, by life]
    disk,      \* the setting spread_ratio
    dirty,     \* engine._spread_ratio_dirty
    rest,      \* cycles until the counts may be written again
    working,   \* the symbols the running cycle still works on
    leaving,   \* the name a delete has removed and not yet forgotten, or Nobody
    taken      \* samples so far (bound)

spreadVars == <<rows, lives, counts, disk, dirty, rest, working, leaving, taken>>

Nowhere == [life |-> 0, stamp |-> 0, enabled |-> FALSE]

Readings == (0 .. Buckets - 1) \X (1 .. MaxLives)
NoCounts == [c \in Readings |-> 0]
Live == {n \in Names : rows[n] # Nowhere}

-----------------------------------------------------------------------------
(* _ratio_percentile at one half, in halves of a bucket: the centre of the *)
(* first bucket that holds half of the samples with those before it; the   *)
(* overflow has no centre and reports its lower edge.  0: nothing counted. *)
In(hist, idx) == SumFunction([k \in 1 .. MaxLives |-> hist[<<idx, k>>]])
UpTo(hist, idx) == SumFunction([i \in 0 .. idx |-> In(hist, i)])
Counted(hist) == UpTo(hist, Buckets - 1)

Median(hist) ==
    IF Counted(hist) = 0
    THEN 0
    ELSE LET idx == Min({i \in 0 .. Buckets - 1 : 2 * UpTo(hist, i) >= Counted(hist)})
         IN  IF idx = Buckets - 1 THEN 2 * idx ELSE 2 * idx + 1

(* _spread_scale and _live_spread_scale: never under 1, never above what   *)
(* the last bucket can say, and 1 until enough is counted.                 *)
Ceiling == 2 * (Buckets - 1)

SpreadScale(hist) ==
    IF Counted(hist) < MinSamples
    THEN One
    ELSE Min({Ceiling, Max({One, Median(hist)})})

SearchScale(n) == SpreadScale(disk[n])

-----------------------------------------------------------------------------
SpreadTypeOK ==
    /\ \A n \in Names : /\ rows[n].life \in 0 .. MaxLives
                        /\ rows[n].stamp \in 0 .. Ceiling + One
                        /\ rows[n].enabled \in BOOLEAN
    /\ lives \in [Names -> 0 .. MaxLives]
    /\ counts \in [Names -> [Readings -> Nat]] /\ disk \in [Names -> [Readings -> Nat]]
    /\ dirty \in BOOLEAN /\ rest \in 0 .. Interval
    /\ working \subseteq Names /\ leaving \in Names \cup {Nobody}
    /\ taken \in 0 .. MaxSamples

SpreadInit ==
    /\ rows = [n \in Names |-> Nowhere] /\ lives = [n \in Names |-> 0]
    /\ counts = [n \in Names |-> NoCounts] /\ disk = counts
    /\ dirty = FALSE /\ rest = 0
    /\ working = {} /\ leaving = Nobody /\ taken = 0

-----------------------------------------------------------------------------
(* The engine.  A cycle takes the symbols as they are when it starts, and  *)
(* samples those that are switched on.                                     *)
CycleStarts ==
    /\ working = {} /\ working' = {n \in Live : rows[n].enabled}
    /\ rest > 0 \/ working' # {}
    /\ rest' = IF rest > 0 THEN rest - 1 ELSE 0
    /\ UNCHANGED <<rows, lives, counts, disk, dirty, leaving, taken>>

(* The cycle reads the bar and the tick of a symbol, or cannot.            *)
Sample(n, idx) ==
    /\ n \in working /\ taken < MaxSamples
    /\ working' = working \ {n}
    /\ counts' = [counts EXCEPT ![n][<<idx, lives[n]>>] = @ + 1]
    /\ dirty' = TRUE /\ taken' = taken + 1
    /\ UNCHANGED <<rows, lives, disk, rest, leaving>>

NoSample(n) ==
    /\ n \in working /\ working' = working \ {n}
    /\ UNCHANGED <<rows, lives, counts, disk, dirty, rest, leaving, taken>>

(* _flush_spread_ratio: what has left the book is dropped, in memory       *)
(* before the write and on disk with it; a failed write stays due.         *)
Pruned(hists) == [n \in Names |-> IF n \in Live THEN hists[n] ELSE NoCounts]

Written(hists) ==
    \/ disk' = Pruned(hists) /\ dirty' = FALSE /\ rest' = Interval
    \/ DiskFails /\ UNCHANGED disk /\ dirty' = TRUE /\ rest' = 0

Flush ==
    /\ working = {} /\ dirty /\ rest = 0
    /\ counts' = Pruned(counts) /\ Written(counts)
    /\ UNCHANGED <<rows, lives, working, leaving, taken>>

-----------------------------------------------------------------------------
(* The panel.                                                              *)
AddSymbol(n) ==
    /\ leaving = Nobody /\ rows[n] = Nowhere /\ lives[n] < MaxLives
    /\ lives' = [lives EXCEPT ![n] = @ + 1]
    /\ rows' = [rows EXCEPT ![n] = [life |-> lives'[n], stamp |-> One, enabled |-> FALSE]]
    /\ UNCHANGED <<counts, disk, dirty, rest, working, leaving, taken>>

DeleteSymbol(n) ==
    /\ leaving = Nobody /\ rows[n] # Nowhere
    /\ working = {} \/ Overlaps
    /\ rows' = [rows EXCEPT ![n] = Nowhere]
    /\ leaving' = n
    /\ UNCHANGED <<lives, counts, disk, dirty, rest, working, taken>>

(* Mutated form of ForgetSpreadRatio: the delete leaves the counts to the  *)
(* next write that is due.                                                 *)
ForgetAtNextFlush ==
    /\ leaving # Nobody /\ leaving' = Nobody
    /\ working = {} \/ Overlaps
    /\ counts' = [counts EXCEPT ![leaving] = NoCounts] /\ dirty' = TRUE
    /\ UNCHANGED <<rows, lives, disk, rest, working, taken>>

(* forget_spread_ratio: dropped now, and written now.                      *)
ForgetSpreadRatio ==
    /\ leaving # Nobody /\ leaving' = Nobody
    /\ working = {} \/ Overlaps
    /\ IF counts[leaving] = NoCounts
       THEN UNCHANGED <<counts, disk, dirty, rest>>
       ELSE LET kept == [counts EXCEPT ![leaving] = NoCounts]
            IN  counts' = Pruned(kept) /\ Written(kept)
    /\ UNCHANGED <<rows, lives, working, taken>>

(* A search that applies stamps the scale it priced its candidates with.   *)
SearchPrices(n) ==
    /\ rows[n] # Nowhere
    /\ rows' = [rows EXCEPT ![n].stamp = SearchScale(n)]
    /\ UNCHANGED <<lives, counts, disk, dirty, rest, working, leaving, taken>>

(* _require_current_cost_basis_before_enabling: not with a config that was *)
(* selected more than half a bucket cheaper than the spread is measured.   *)
Enable(n) ==
    /\ rows[n] # Nowhere /\ ~rows[n].enabled
    /\ SearchScale(n) - rows[n].stamp <= 1
    /\ rows' = [rows EXCEPT ![n].enabled = TRUE]
    /\ UNCHANGED <<lives, counts, disk, dirty, rest, working, leaving, taken>>

Disable(n) ==
    /\ rows[n].enabled /\ rows' = [rows EXCEPT ![n].enabled = FALSE]
    /\ UNCHANGED <<lives, counts, disk, dirty, rest, working, leaving, taken>>

(* The process starts again with what is on disk.                          *)
ProcessStarts ==
    /\ leaving = Nobody \/ Crashes
    /\ counts' = disk /\ dirty' = FALSE /\ rest' = 0
    /\ working' = {} /\ leaving' = Nobody
    /\ UNCHANGED <<rows, lives, disk, taken>>

SpreadNext ==
    \/ CycleStarts \/ Flush \/ ForgetSpreadRatio \/ ProcessStarts
    \/ \E n \in Names :
          \/ NoSample(n) \/ AddSymbol(n) \/ DeleteSymbol(n) \/ SearchPrices(n)
          \/ Enable(n) \/ Disable(n)
          \/ \E idx \in 0 .. Buckets - 1 : Sample(n, idx)

SpreadSpec == SpreadInit /\ [][SpreadNext]_spreadVars

-----------------------------------------------------------------------------
(* The ceiling of the spread gate, in hundredths of the ATR.  A reading of *)
(* the bars is a sequence of bands, the cheapest first: how often the      *)
(* direction of a bar held, what following it was worth, and the widest    *)
(* spread of the band (read_bands).                                        *)
MinCap == 3
MaxCap == 50
NarrowStep == 2

Reached(bands) ==
    Max({i \in DOMAIN bands :
            \A j \in 2 .. i : /\ bands[j].continuation >= bands[1].continuation
                              /\ bands[j].net >= bands[1].net})

(* cap_from_bands: the widest band that holds opens the gate; a narrower   *)
(* reading closes it by a step, where the operator lets it.                *)
CapFromBands(bands, current, narrow) ==
    LET top == Min({MaxCap, Max({MinCap, bands[Reached(bands)].top})})
    IN  CASE bands = <<>> -> current
          [] bands # <<>> /\ Reached(bands) > 1 /\ top > current -> top
          [] bands # <<>> /\ top < current /\ narrow -> Max({top, current - NarrowStep})
          [] OTHER -> current

(* _recalibrate_spread_cap: a reading above a keeper's pin is cut to it,   *)
(* and a wider cap has to stand the charged holdout, where costs are       *)
(* charged, and the six slices of the history, where they can be read.     *)
Recalibrated(bands, current, terms) ==
    LET read == CapFromBands(bands, current, terms.narrow)
        new == Min({read, terms.pin})
    IN  CASE terms.frozen \/ read = current -> current
          [] ~terms.frozen /\ new > current ->
                IF (terms.charging /\ terms.costs_more) \/ terms.slices = "erode"
                THEN current
                ELSE new
          [] ~terms.frozen /\ new < current /\ terms.narrow -> new
          [] OTHER -> current

(* Read again off the same bars, the cap settles: what was opened stays,   *)
(* what was narrowed only narrows on, by no more than a step each time     *)
(* unless a keeper's pin cuts it ("not a free fall to the floor").         *)
Settles(bands, current, terms) ==
    LET once == Recalibrated(bands, current, terms)
        twice == Recalibrated(bands, once, terms)
    IN  /\ once >= current => twice = once
        /\ once < current => /\ terms.narrow /\ twice <= once
                             /\ once >= current - NarrowStep \/ once = terms.pin

-----------------------------------------------------------------------------
(* A symbol is priced by its own spread: nothing that was counted in an    *)
(* earlier life of its name is left in memory, where the entry gate reads, *)
(* or on disk, where the search reads, whenever a write was due and        *)
(* however soon the name came back (_flush_spread_ratio, "re-adding one of *)
(* them later would have applied a stale distribution to a fresh config"). *)
OwnSpread ==
    \A n \in Live, c \in Readings :
        c[2] # rows[n].life => counts[n][c] = 0 /\ disk[n][c] = 0
=============================================================================
