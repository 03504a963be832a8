----------------------------- MODULE SearchPick -----------------------------
(***************************************************************************)
(* How a search narrows what it has found (micofx/optimizer.py): which     *)
(* trading windows it fans out over, which validated candidate it puts     *)
(* forward, and whether that candidate generalises.  Scores and            *)
(* expectancies are integers; a family and a timeframe are numbers, in the *)
(* order of their names.                                                   *)
(***************************************************************************)
EXTENDS Integers, Sequences, FiniteSets, SequencesExt

TieBand == 5              \* TIE_BAND, in percent
ShortlistMax == 3         \* _SESSION_SEARCH_MAX

-----------------------------------------------------------------------------
(* _pick_by_validation.  A candidate: its family and timeframe, the window *)
(* it was searched in, whether the family is a scalp, its validation score *)
(* and trades, and whether it passed every out-of-sample gate.             *)
Validated(found) == {i \in DOMAIN found : found[i].validated}

(* max: the first of the entries I of a list that none of them is above.   *)
FirstBest(found, I, Above(_, _)) ==
    found[CHOOSE i \in I : \A j \in I : /\ Above(found[i], found[j])
                                        /\ j < i => ~Above(found[j], found[i])]

ByScore(a, b) == a.score >= b.score

Peers(found) ==
    LET top == FirstBest(found, Validated(found), ByScore)
    IN  {i \in Validated(found) : found[i].score * 100 >= top.score * (100 - TieBand)}

(* Scalp, trades, score, family, timeframe: compared in this order.        *)
PickKey(a) == << IF a.scalp THEN 1 ELSE 0, a.trades, a.score, a.family, a.frame >>

ByKey(a, b) ==
    \/ PickKey(a) = PickKey(b)
    \/ \E i \in 1 .. 5 : /\ PickKey(a)[i] > PickKey(b)[i]
                         /\ \A j \in 1 .. (i - 1) : PickKey(a)[j] = PickKey(b)[j]

PickByValidation(found) ==
    LET top == FirstBest(found, Validated(found), ByScore)
    IN  IF top.score <= 0 \/ Cardinality(Peers(found)) < 2
        THEN top
        ELSE FirstBest(found, Peers(found), ByKey)

-----------------------------------------------------------------------------
(* holdout_retention against a quarter (MIN_HOLDOUT_RETENTION): what the   *)
(* untouched slice kept of the weaker of the two the candidate was chosen  *)
(* on.  Where nothing can be measured, nothing is refused.                 *)
Reference(best) ==
    IF best.selection < best.validation THEN best.selection ELSE best.validation

Generalises(best) ==
    \/ Reference(best) <= 0
    \/ best.holdout <= 0
    \/ 4 * best.holdout >= Reference(best)

-----------------------------------------------------------------------------
(* The windows of a symbol: _live_search_sessions with the fallback of     *)
(* _session_search_shortlist, and what an applied window writes back.      *)
AllDay == "00:00-23:59"

LiveWindow(cfg) ==
    IF cfg.use_sessions /\ cfg.sessions # {} THEN cfg.sessions ELSE {AllDay}

PersistWindow(cfg, windows) ==
    [cfg EXCEPT !.sessions = windows, !.use_sessions = windows # {AllDay}]

(* _session_search_shortlist.  windows is the list of all candidates,      *)
(* without the live one; of each, rank is its charged score, ok whether it *)
(* passes the holdout gate and thick whether it has the trades for it.     *)
Shortlist(live, windows, charging, rank, ok, thick) ==
    LET good == SelectSeq(windows, LAMBDA w : ok[w])
        from == IF good # <<>> THEN good ELSE SelectSeq(windows, LAMBDA w : thick[w])
        Ahead(i, j) == rank[from[i]] > rank[from[j]]
                       \/ (rank[from[i]] = rank[from[j]] /\ i < j)
        order == SortSeq([i \in DOMAIN from |-> i], Ahead)
        room == IF Len(order) < ShortlistMax THEN Len(order) ELSE ShortlistMax - 1
    IN  IF ~charging
        THEN <<live>>
        ELSE <<live>> \o [i \in 1 .. room |-> from[order[i]]]

-----------------------------------------------------------------------------
(* What _pick_by_validation promises: the winner is within the band of the *)
(* best, a scalp wins wherever one is in the band, a swing never by its    *)
(* trades alone, and the order in which the sweeps came back decides at    *)
(* most between two windows of one family and timeframe.                   *)
PickKept(found) ==
    LET best == PickByValidation(found)
        back == PickByValidation(Reverse(found))
        usable == {found[i] : i \in Validated(found)}
    IN  (\E a \in usable : a.score > 0) =>
          /\ best \in usable
          /\ \A a \in usable : best.score * 100 >= a.score * (100 - TieBand)
          /\ (\E i \in Peers(found) : found[i].scalp) => best.scalp
          /\ PickKey(back) = PickKey(best)
          /\ back # best => \E a, b \in usable : /\ a # b /\ a.family = b.family
                                                 /\ a.frame = b.frame

(* What the shortlist promises: the live window first and once, no more    *)
(* than asked, and none left out that scores above one that is in.         *)
ShortlistKept(live, windows, rank, ok, thick) ==
    LET out == Shortlist(live, windows, TRUE, rank, ok, thick)
        rest == {out[i] : i \in 2 .. Len(out)}
    IN  /\ out[1] = live /\ live \notin rest
        /\ Len(out) <= ShortlistMax /\ Cardinality(rest) = Len(out) - 1
        /\ rest = {} <=> \A w \in ToSet(windows) : ~ok[w] /\ ~thick[w]
        /\ \A w \in rest, v \in ToSet(windows) \ rest :
              ok[v] => rank[v] <= rank[w] /\ ok[w]

(* What is written back is what the next search and the engine read.       *)
WindowKept(cfg, windows) ==
    LiveWindow(PersistWindow(cfg, windows)) = windows
=============================================================================
